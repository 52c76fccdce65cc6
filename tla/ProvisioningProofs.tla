------------------------ MODULE ProvisioningProofs ------------------------
(***************************************************************************)
(* Identities are unique, the ids of the pool work and the pool is         *)
(* bounded, for every number of workers, devices, ids and faults.          *)
(*                                                                         *)
(* None of the three is inductive.  Ids are unique because the batches of  *)
(* the workers are disjoint, from each other and from all that was pushed. *)
(* An id that is pushed works because a batch whose connection is still up *)
(* has had every command of its users run so far, and one whose connection *)
(* is broken cannot be pushed.  The pool is bounded because a worker that  *)
(* fills it has seen it low.                                               *)
(***************************************************************************)
EXTENDS Provisioning, FiniteSetTheorems, SequenceTheorems, TLAPS

\* Where the workers are in creating a batch.
Filling ==
    \A w \in Workers :
        /\ pc[w] = "fill" => rules[w] = 0
        /\ pc[w] = "create" => rules[w] < 2 * MinPool
        /\ pc[w] = "push" => rules[w] = 2 * MinPool

\* Ids in the pool or stored were created.
Created == Entries(pool) \subseteq 1..made /\ \A d \in Devices : stored[d] \in 0..made

\* The rights that w has granted so far to an id of its batch.
HasWhatIsGranted(w, i) ==
    /\ 2 * (i - batch[w]) < rules[w] => "pop" \in acl[i]
    /\ 2 * (i - batch[w]) + 1 < rules[w] => "report" \in acl[i]

Entitled ==
    \A w \in Workers : link[w] = "up" =>
        \A i \in Batch(w) : i \in doomed \/ HasWhatIsGranted(w, i)

\* The workers that will push a batch.
Fillers == {w \in Workers : pc[w] # "fill"}

Room ==
    Len(pool) + MinPool * Cardinality(Fillers) < MinPool * (Cardinality(Workers) + 1)

IInv == TypeOK /\ Filling /\ Created /\ IdsAreUnique /\ Entitled /\ PooledIdsWork /\ Room

-----------------------------------------------------------------------------
(* Data                                                                    *)

\* What the names of the model stand for.
LEMMA Numbers ==
    /\ MinPool \in Nat /\ MinPool > 0 /\ MaxIds \in Nat /\ MaxChores \in Nat /\ MaxFaults \in Nat
    /\ NoId = 0 /\ BurnIn = MaxIds + 1
    /\ Ids = 1..MaxIds /\ RedisUsers = Ids \cup {MaxIds + 1}
    /\ NoId \notin Ids /\ NoId \notin RedisUsers /\ BurnIn \notin Ids
  BY ProvisioningAssumption, FaultsAssumption DEF NoId, BurnIn, Ids, RedisUsers

\* Taking the first id of a list.
LEMMA Taken ==
    ASSUME NEW s \in Seq(Ids), s # <<>>
    PROVE  /\ Head(s) \in Entries(s) /\ Head(s) \in Ids
           /\ Tail(s) \in Seq(Ids) /\ Len(Tail(s)) = Len(s) - 1 /\ Len(s) \in Nat
           /\ Entries(Tail(s)) \subseteq Entries(s)
           /\ (\A j, k \in DOMAIN s : s[j] = s[k] => j = k) =>
                /\ Head(s) \notin Entries(Tail(s))
                /\ \A j, k \in DOMAIN Tail(s) : Tail(s)[j] = Tail(s)[k] => j = k
<1>1. /\ Head(s) = s[1] /\ 1 \in DOMAIN s /\ Len(s) \in Nat /\ DOMAIN s = 1..Len(s)
      /\ Tail(s) \in Seq(Ids) /\ Len(Tail(s)) = Len(s) - 1 /\ DOMAIN Tail(s) = 1..(Len(s) - 1)
      /\ \A k \in DOMAIN Tail(s) : Tail(s)[k] = s[k + 1] /\ k + 1 \in DOMAIN s
      /\ \A k \in DOMAIN s : s[k] \in Ids
  OBVIOUS
<1>2. Entries(Tail(s)) \subseteq Entries(s)
  BY <1>1 DEF Entries
<1>3. ASSUME \A j, k \in DOMAIN s : s[j] = s[k] => j = k
      PROVE  /\ Head(s) \notin Entries(Tail(s))
             /\ \A j, k \in DOMAIN Tail(s) : Tail(s)[j] = Tail(s)[k] => j = k
  <2>1. \A k \in DOMAIN Tail(s) : s[k + 1] # s[1]
    BY <1>1, <1>3
  <2>2. \A j, k \in DOMAIN Tail(s) : Tail(s)[j] = Tail(s)[k] => j = k
    BY <1>1, <1>3
  <2> QED
    BY <1>1, <2>1, <2>2 DEF Entries
<1> QED
  BY <1>1, <1>2, <1>3 DEF Entries

\* An id of a list is its first or one of the rest.
LEMMA FirstOrRest ==
    ASSUME NEW s \in Seq(Ids), s # <<>>
    PROVE  Entries(s) \subseteq {Head(s)} \cup Entries(Tail(s))
<1>1. /\ Head(s) = s[1] /\ Len(s) \in Nat /\ DOMAIN s = 1..Len(s)
      /\ DOMAIN Tail(s) = 1..(Len(s) - 1)
      /\ \A k \in DOMAIN Tail(s) : Tail(s)[k] = s[k + 1]
  OBVIOUS
<1>2. ASSUME NEW k \in DOMAIN s, k # 1
      PROVE  s[k] \in Entries(Tail(s))
  <2>1. k - 1 \in DOMAIN Tail(s) /\ Tail(s)[k - 1] = s[k]
    BY <1>1, <1>2
  <2> QED
    BY <2>1 DEF Entries
<1> QED
  BY <1>1, <1>2 DEF Entries

\* Putting a batch before a list.
LEMMA Pushed ==
    ASSUME NEW s \in Seq(Ids), NEW b \in Ids, b + MinPool - 1 <= MaxIds
    PROVE  LET t == [k \in 1..MinPool |-> b + MinPool - k] \o s IN
             /\ t \in Seq(Ids) /\ Len(t) = MinPool + Len(s) /\ Len(s) \in Nat
             /\ Entries(t) = (b..(b + MinPool - 1)) \cup Entries(s)
             /\ /\ \A j, k \in DOMAIN s : s[j] = s[k] => j = k
                /\ (b..(b + MinPool - 1)) \cap Entries(s) = {}
                => \A j, k \in DOMAIN t : t[j] = t[k] => j = k
<1> DEFINE u == [k \in 1..MinPool |-> b + MinPool - k]
           t == u \o s
<1>1. /\ u \in Seq(Ids) /\ Len(u) = MinPool
      /\ \A k \in 1..MinPool : u[k] = b + MinPool - k /\ u[k] \in b..(b + MinPool - 1)
  <2>1. \A k \in 1..MinPool : b + MinPool - k \in Ids /\ b + MinPool - k \in b..(b + MinPool - 1)
    BY Numbers
  <2> QED
    BY <2>1, Numbers
<1> HIDE DEF u
<1>0. MinPool \in Nat /\ MinPool > 0 /\ Len(s) \in Nat /\ DOMAIN s = 1..Len(s)
  BY Numbers
<1>2. /\ t \in Seq(Ids) /\ Len(t) = MinPool + Len(s)
      /\ DOMAIN t = 1..(MinPool + Len(s))
      /\ \A k \in 1..(MinPool + Len(s)) : t[k] = IF k <= MinPool THEN u[k] ELSE s[k - MinPool]
  <2>1. /\ t \in Seq(Ids) /\ Len(t) = Len(u) + Len(s)
        /\ \A k \in 1..(Len(u) + Len(s)) : t[k] = IF k <= Len(u) THEN u[k] ELSE s[k - Len(u)]
    BY <1>1, ConcatProperties
  <2>2. DOMAIN t = 1..Len(t)
    BY <2>1
  <2> QED
    BY <1>1, <2>1, <2>2
<1> HIDE DEF t
<1>3. \A k \in DOMAIN t : \/ k \in 1..MinPool /\ t[k] \in b..(b + MinPool - 1)
                          \/ /\ k \in (MinPool + 1)..(MinPool + Len(s))
                             /\ k - MinPool \in DOMAIN s /\ t[k] = s[k - MinPool]
  BY <1>0, <1>1, <1>2
<1>4. Entries(t) = (b..(b + MinPool - 1)) \cup Entries(s)
  <2>1. ASSUME NEW i \in b..(b + MinPool - 1)
        PROVE  i \in Entries(t)
    <3>1. b + MinPool - i \in 1..MinPool /\ u[b + MinPool - i] = i
      BY <1>1, Numbers
    <3> QED
      BY <1>0, <1>2, <3>1 DEF Entries
  <2>2. ASSUME NEW k \in DOMAIN s
        PROVE  s[k] \in Entries(t)
    <3>1. k + MinPool \in DOMAIN t /\ t[k + MinPool] = s[k]
      BY <1>0, <1>2
    <3> QED
      BY <3>1 DEF Entries
  <2> QED
    BY <1>3, <2>1, <2>2 DEF Entries
<1>5. ASSUME \A j, k \in DOMAIN s : s[j] = s[k] => j = k,
             (b..(b + MinPool - 1)) \cap Entries(s) = {},
             NEW j \in DOMAIN t, NEW k \in DOMAIN t, t[j] = t[k]
      PROVE  j = k
  <2>1. \A n \in DOMAIN s : s[n] \notin b..(b + MinPool - 1)
    BY <1>5 DEF Entries
  <2>2. CASE j \in 1..MinPool /\ k \in 1..MinPool
    BY <1>1, <1>2, <1>5, <2>2, Numbers
  <2>3. CASE j - MinPool \in DOMAIN s /\ k - MinPool \in DOMAIN s /\
             t[j] = s[j - MinPool] /\ t[k] = s[k - MinPool]
    <3>1. s[j - MinPool] = s[k - MinPool]
      BY <1>5, <2>3
    <3>2. j - MinPool = k - MinPool
      BY <1>5, <2>3, <3>1, Zenon
    <3> QED
      BY <1>0, <1>2, <3>2
  <2> QED
    BY <1>3, <1>5, <2>1, <2>2, <2>3
<1> QED
  BY <1>0, <1>2, <1>4, <1>5 DEF t, u

\* The batch of a worker.
LEMMA Batches ==
    ASSUME TypeOK
    PROVE  \A w \in Workers :
             /\ batch[w] = NoId => Batch(w) = {}
             /\ batch[w] # NoId => /\ Batch(w) = batch[w]..(batch[w] + MinPool - 1)
                                  /\ Batch(w) \subseteq 1..made /\ Batch(w) \subseteq Ids
                                  /\ batch[w] \in Ids /\ batch[w] + MinPool - 1 <= MaxIds
             /\ Batch(w) \subseteq InHand
  BY Numbers DEF TypeOK, Batch, InHand

\* The next right and the user it is granted to, who is in the batch.
LEMMA NextGrant ==
    ASSUME TypeOK, Filling, NEW w \in Workers, pc[w] = "create"
    PROVE  /\ Grantee(w) \in Batch(w) /\ Grantee(w) \in Ids
           /\ Granted(w) = "pop" => rules[w] = 2 * (Grantee(w) - batch[w])
           /\ Granted(w) = "report" => rules[w] = 2 * (Grantee(w) - batch[w]) + 1
           /\ Granted(w) \in Rights
<1>1. /\ rules[w] \in Nat /\ rules[w] < 2 * MinPool /\ MinPool \in Nat
      /\ batch[w] \in Nat /\ batch[w] # NoId
  BY Numbers DEF TypeOK, Filling
<1> DEFINE h == rules[w] \div 2
<1>2. /\ h \in Nat /\ h < MinPool
      /\ rules[w] % 2 = 0 => rules[w] = 2 * h
      /\ rules[w] % 2 # 0 => rules[w] = 2 * h + 1
  BY <1>1
<1> HIDE DEF h
<1>3. Grantee(w) = batch[w] + h
  BY DEF Grantee, h
<1>4. Batch(w) = batch[w]..(batch[w] + MinPool - 1) /\ Batch(w) \subseteq Ids
  BY <1>1, Batches
<1>5. Grantee(w) \in Batch(w) /\ Grantee(w) - batch[w] = h
  BY <1>1, <1>2, <1>3, <1>4
<1> QED
  BY <1>1, <1>2, <1>4, <1>5 DEF Granted, Rights

-----------------------------------------------------------------------------
(* Types                                                                   *)

\* What a redis command leaves of a connection and of the budget of faults.
LEMMA IssueTypes ==
    ASSUME NEW l, NEW o \in Outcomes, faults \in 0..MaxFaults, Issue(l, o)
    PROVE  /\ faults' \in 0..MaxFaults /\ LinkAfter(o) \in {"up", "broken"}
           /\ LinkAfter(o) = "up" => l = "up" /\ o = "ok"
           /\ Applied(o) => l = "up"
  BY FaultsAssumption DEF Issue, Fault, LinkAfter, Outcomes, Applied

\* A frame that ends leaves its worker with nothing.
LEMMA FrameEnds ==
    ASSUME TypeOK, NEW w \in Workers, EndFrame(w)
    PROVE  /\ pc' \in [Workers -> {"fill", "create", "push"}]
           /\ link' \in [Workers -> {"none", "up", "broken"}]
           /\ batch' \in [Workers -> Ids \cup {NoId}]
           /\ rules' \in [Workers -> 0..(2 * MinPool)]
           /\ \A x \in Workers :
                /\ batch'[x] # NoId <=> pc'[x] \in {"create", "push"}
                /\ batch'[x] # NoId => batch'[x] + MinPool - 1 <= made
                /\ pc'[x] # "fill" => link'[x] # "none"
           /\ pc'[w] = "fill" /\ link'[w] = "none" /\ batch'[w] = NoId /\ rules'[w] = 0
           /\ \A x \in Workers \ {w} : /\ pc'[x] = pc[x] /\ link'[x] = link[x]
                                       /\ batch'[x] = batch[x] /\ rules'[x] = rules[x]
<1>1. /\ pc' \in [Workers -> {"fill", "create", "push"}]
      /\ link' \in [Workers -> {"none", "up", "broken"}]
      /\ batch' \in [Workers -> Ids \cup {NoId}]
      /\ pc'[w] = "fill" /\ link'[w] = "none" /\ batch'[w] = NoId /\ rules'[w] = 0
      /\ \A x \in Workers \ {w} : /\ pc'[x] = pc[x] /\ link'[x] = link[x]
                                  /\ batch'[x] = batch[x] /\ rules'[x] = rules[x]
  BY DEF TypeOK, EndFrame, To, Relink
<1>2. rules' \in [Workers -> 0..(2 * MinPool)]
  <2>1. 0 \in 0..(2 * MinPool)
    BY Numbers
  <2> QED
    BY <2>1 DEF TypeOK, EndFrame
<1>3. \A x \in Workers :
        /\ batch'[x] # NoId <=> pc'[x] \in {"create", "push"}
        /\ batch'[x] # NoId => batch'[x] + MinPool - 1 <= made
        /\ pc'[x] # "fill" => link'[x] # "none"
  <2>1. \A x \in Workers :
          /\ batch[x] # NoId <=> pc[x] \in {"create", "push"}
          /\ batch[x] # NoId => batch[x] + MinPool - 1 <= made
          /\ pc[x] # "fill" => link[x] # "none"
    BY DEF TypeOK
  <2>2. \A x \in Workers : x = w \/ x \in Workers \ {w}
    OBVIOUS
  <2> QED
    BY <1>1, <2>1, <2>2
<1> QED
  BY <1>1, <1>2, <1>3

\* The steps of a worker keep the types.
LEMMA WorkTypes ==
    ASSUME TypeOK, Filling, NEW w \in Workers, Work(w) \/ Crash(w)
    PROVE  TypeOK'
<1> USE DEF redisVars, deviceVars, workerVars, operatorVars
<1>1. CASE Connect(w)
  BY <1>1 DEF TypeOK, Connect, Relink
<1>2. ASSUME NEW o \in Outcomes, Fill(w, o)
      PROVE  TypeOK'
  <2>1. faults' \in 0..MaxFaults
    BY <1>2, IssueTypes DEF TypeOK, Fill
  <2>2. CASE o # "ok"
    <3>1. EndFrame(w) /\ made' = made
      BY <1>2, <2>2 DEF Fill
    <3> QED
      BY <1>2, <2>1, <3>1, FrameEnds DEF TypeOK, Fill
  <2>3. CASE o = "ok" /\ Lacking /\ made + MinPool <= MaxIds
    <3>1. /\ batch' = [batch EXCEPT ![w] = made + 1] /\ made' = made + MinPool
          /\ pc' = [pc EXCEPT ![w] = "create"] /\ UNCHANGED <<link, rules>>
      BY <1>2, <2>3 DEF Fill, To
    <3>2. made + 1 \in Ids /\ made' \in 0..MaxIds
      BY <2>3, <3>1, Numbers DEF TypeOK
    <3>3. batch' \in [Workers -> Ids \cup {NoId}] /\ pc' \in [Workers -> {"fill", "create", "push"}]
      BY <3>1, <3>2 DEF TypeOK
    <3>4. \A x \in Workers :
            /\ batch'[x] # NoId <=> pc'[x] \in {"create", "push"}
            /\ batch'[x] # NoId => batch'[x] + MinPool - 1 <= made'
            /\ pc'[x] # "fill" => link'[x] # "none"
      BY <1>2, <3>1, <3>2, Numbers DEF TypeOK, Fill
    <3> QED
      BY <1>2, <2>1, <3>1, <3>2, <3>3, <3>4 DEF TypeOK, Fill
  <2>4. CASE o = "ok" /\ ~(Lacking /\ made + MinPool <= MaxIds)
    BY <1>2, <2>1, <2>4 DEF TypeOK, Fill
  <2> QED
    BY <2>2, <2>3, <2>4
<1>3. ASSUME NEW o \in Outcomes, CreateUser(w, o)
      PROVE  TypeOK'
  <2>1. faults' \in 0..MaxFaults /\ LinkAfter(o) \in {"up", "broken"}
    BY <1>3, IssueTypes DEF TypeOK, CreateUser
  <2>2. Granted(w) \in Rights /\ rules[w] < 2 * MinPool /\ pc[w] = "create"
    BY <1>3, NextGrant DEF CreateUser, Filling
  <2>3. acl' \in [RedisUsers -> SUBSET Rights]
    BY <1>3, <2>2 DEF TypeOK, CreateUser
  <2>4. rules' \in [Workers -> 0..(2 * MinPool)]
    <3>1. rules[w] + 1 \in 0..(2 * MinPool)
      BY <2>2, Numbers DEF TypeOK
    <3> QED
      BY <1>3, <3>1 DEF TypeOK, CreateUser
  <2> QED
    BY <1>3, <2>1, <2>2, <2>3, <2>4 DEF TypeOK, CreateUser, Relink, To
<1>4. ASSUME NEW o \in Outcomes, PushIds(w, o)
      PROVE  TypeOK'
  <2>1. faults' \in 0..MaxFaults
    BY <1>4, IssueTypes DEF TypeOK, PushIds
  <2>2. batch[w] \in Ids /\ batch[w] + MinPool - 1 <= MaxIds
    BY <1>4, Batches DEF TypeOK, PushIds
  <2>3. pool' \in Seq(Ids)
    BY <1>4, <2>2, Pushed DEF TypeOK, PushIds
  <2>4. CASE o # "ok"
    <3>1. EndFrame(w)
      BY <1>4, <2>4 DEF PushIds
    <3> QED
      BY <1>4, <2>1, <2>3, <3>1, FrameEnds DEF TypeOK, PushIds
  <2>5. CASE o = "ok"
    <3>1. 0 \in 0..(2 * MinPool)
      BY Numbers
    <3>2. /\ pc' = [pc EXCEPT ![w] = "fill"] /\ batch' = [batch EXCEPT ![w] = NoId]
          /\ rules' = [rules EXCEPT ![w] = 0] /\ link' = link
      BY <1>4, <2>5 DEF PushIds, To
    <3>3. /\ rules' \in [Workers -> 0..(2 * MinPool)]
          /\ batch' \in [Workers -> Ids \cup {NoId}]
          /\ pc' \in [Workers -> {"fill", "create", "push"}]
      BY <3>1, <3>2 DEF TypeOK
    <3>4. \A x \in Workers :
            /\ batch'[x] # NoId <=> pc'[x] \in {"create", "push"}
            /\ batch'[x] # NoId => batch'[x] + MinPool - 1 <= made
            /\ pc'[x] # "fill" => link'[x] # "none"
      BY <3>2 DEF TypeOK
    <3> QED
      BY <1>4, <2>1, <2>3, <3>2, <3>3, <3>4 DEF TypeOK, PushIds
  <2> QED
    BY <2>4, <2>5
<1>5. CASE Crash(w)
  <2>1. faults' \in 0..MaxFaults
    BY <1>5, FaultsAssumption DEF TypeOK, Crash, Fault
  <2> QED
    BY <1>5, <2>1, FrameEnds DEF TypeOK, Crash
<1> QED
  BY <1>1, <1>2, <1>3, <1>4, <1>5 DEF Work

\* The steps of a device keep the types.
LEMMA DeviceTypes ==
    ASSUME TypeOK, NEW d \in Devices, Step(d) \/ Lose(d) \/ Restart(d)
    PROVE  TypeOK'
<1> USE DEF redisVars, deviceVars, workerVars, operatorVars, Into, Store
<1>0. pool # <<>> => Head(pool) \in Ids /\ Tail(pool) \in Seq(Ids)
  BY Taken DEF TypeOK
<1>1. CASE LoginBurnIn(d)
  BY <1>1 DEF TypeOK, LoginBurnIn
<1>2. CASE TakeId(d)
  <2>1. /\ stored' \in [Devices -> Ids \cup {NoId}] /\ pool' \in Seq(Ids)
        /\ conn' \in [Devices -> {"off", "burn-in", "login", "on", "waiting", "cut"}]
    BY <1>0, <1>2 DEF TypeOK, TakeId
  <2>2. \A e \in Devices : conn'[e] \in {"login", "on"} => stored'[e] # NoId
    BY <1>0, <1>2, Numbers DEF TypeOK, TakeId
  <2> QED
    BY <1>2, <2>1, <2>2 DEF TypeOK, TakeId
<1>3. CASE Login(d)
  <2>1. /\ stored' \in [Devices -> Ids \cup {NoId}]
        /\ conn' \in [Devices -> {"off", "burn-in", "login", "on", "waiting", "cut"}]
    BY <1>3 DEF TypeOK, Login
  <2>2. \A e \in Devices : conn'[e] \in {"login", "on"} => stored'[e] # NoId
    BY <1>3 DEF TypeOK, Login
  <2> QED
    BY <1>3, <2>1, <2>2 DEF TypeOK, Login
<1>4. CASE Lose(d)
  <2>1. pool' \in Seq(Ids)
    BY <1>0, <1>4 DEF TypeOK, Lose
  <2> QED
    BY <1>4, <2>1, FaultsAssumption DEF TypeOK, Lose, Ended, Fault
<1>5. CASE Restart(d)
  BY <1>5, FaultsAssumption DEF TypeOK, Restart, Fault
<1> QED
  BY <1>1, <1>2, <1>3, <1>4, <1>5 DEF Step

\* Deleting users leaves no device on a connection it did not have.
LEMMA UsersDeleted ==
    ASSUME TypeOK, NEW us \in SUBSET RedisUsers, DelUsers(us)
    PROVE  /\ acl' \in [RedisUsers -> SUBSET Rights]
           /\ conn' \in [Devices -> {"off", "burn-in", "login", "on", "waiting", "cut"}]
           /\ \A d \in Devices : conn'[d] \in {"login", "on"} => conn'[d] = conn[d]
           /\ \A u \in RedisUsers \ us : acl'[u] = acl[u]
<1>1. \A d \in Devices :
        /\ Ended(conn[d]) \in {"off", "burn-in", "login", "on", "waiting", "cut"}
        /\ Ended(conn[d]) \in {"login", "on"} => Ended(conn[d]) = conn[d]
  BY DEF TypeOK, Ended
<1> QED
  BY <1>1 DEF TypeOK, DelUsers

\* The steps of operators keep the types.
LEMMA OperatorTypes ==
    ASSUME TypeOK, Operate
    PROVE  TypeOK'
<1> USE Numbers DEF redisVars, deviceVars, workerVars, operatorVars, Chore, StartChore
<1>1. CASE Provision
  BY <1>1 DEF TypeOK, Provision, Rights
<1>2. ASSUME NEW is \in SUBSET (1..made), DisconnectSilent(is)
      PROVE  TypeOK'
  <2>1. is \in SUBSET RedisUsers
    BY <1>2 DEF TypeOK
  <2> QED
    BY <1>2, <2>1, UsersDeleted DEF TypeOK, DisconnectSilent
<1>3. CASE ListUsers
  BY <1>3 DEF TypeOK, ListUsers
<1>4. CASE DeleteListed
  <2>1. names \ {BurnIn} \subseteq Ids
    BY DEF TypeOK
  <2> QED
    BY <1>4, <2>1, UsersDeleted DEF TypeOK, DeleteListed
<1>5. CASE ClearPool
  <2>1. <<>> \in Seq(Ids)
    OBVIOUS
  <2>2. doomed' \in SUBSET Ids
    BY <1>5 DEF TypeOK, ClearPool
  <2> QED
    BY <1>5, <2>1, <2>2 DEF TypeOK, ClearPool
<1>6. CASE GiveUp
  BY <1>6 DEF TypeOK, GiveUp
<1> QED
  BY <1>1, <1>2, <1>3, <1>4, <1>5, <1>6 DEF Operate

\* Every step keeps the types.
LEMMA NextTypes ==
    ASSUME TypeOK, Filling, [Next]_vars
    PROVE  TypeOK'
<1>1. CASE UNCHANGED vars
  BY <1>1 DEF TypeOK, vars, redisVars, deviceVars, workerVars, operatorVars
<1> QED
  BY <1>1, WorkTypes, DeviceTypes, OperatorTypes DEF Next

-----------------------------------------------------------------------------
(* Batches                                                                 *)

\* What the steps of a worker do to the pool and the batches.
LEMMA WorkSteps ==
    ASSUME TypeOK, Filling, NEW w \in Workers, Work(w) \/ Crash(w)
    PROVE  /\ \A x \in Workers \ {w} : /\ pc'[x] = pc[x] /\ link'[x] = link[x]
                                       /\ batch'[x] = batch[x] /\ rules'[x] = rules[x]
           /\ stored' = stored /\ doomed' = doomed
           /\ \* nothing is created or pushed
              \/ /\ pool' = pool /\ made' = made
                 /\ batch'[w] = batch[w] \/ batch'[w] = NoId
                 /\ pc'[w] = "fill" \/ pc[w] # "fill"
              \* a batch is begun
              \/ /\ pool' = pool /\ made' = made + MinPool /\ Len(pool) < MinPool
                 /\ pc[w] = "fill" /\ pc'[w] = "create" /\ batch'[w] = made + 1
                 /\ rules'[w] = 0 /\ acl' = acl
              \* it is pushed
              \/ /\ pool' = [k \in 1..MinPool |-> batch[w] + MinPool - k] \o pool /\ made' = made
                 /\ pc[w] = "push" /\ pc'[w] = "fill" /\ batch'[w] = NoId
                 /\ link[w] = "up" /\ acl' = acl
<1> USE DEF redisVars, deviceVars, workerVars, operatorVars
<1>1. CASE Connect(w)
  BY <1>1 DEF TypeOK, Connect, Relink
<1>2. ASSUME NEW o \in Outcomes, Fill(w, o)
      PROVE  /\ \A x \in Workers \ {w} : /\ pc'[x] = pc[x] /\ link'[x] = link[x]
                                         /\ batch'[x] = batch[x] /\ rules'[x] = rules[x]
             /\ stored' = stored /\ doomed' = doomed /\ pool' = pool /\ acl' = acl
             /\ \/ made' = made /\ pc'[w] = "fill" /\ batch'[w] \in {batch[w], NoId}
                \/ /\ made' = made + MinPool /\ Len(pool) < MinPool /\ rules'[w] = 0
                   /\ pc[w] = "fill" /\ pc'[w] = "create" /\ batch'[w] = made + 1
  <2>1. CASE EndFrame(w) /\ made' = made
    BY <1>2, <2>1, FrameEnds DEF Fill
  <2>2. CASE UNCHANGED <<made, workerVars>>
    BY <1>2, <2>2 DEF Fill
  <2>3. CASE o = "ok" /\ Lacking /\ made + MinPool <= MaxIds
    BY <1>2, <2>3 DEF TypeOK, Filling, Fill, Lacking, To
  <2> QED
    BY <1>2, <2>1, <2>2, <2>3 DEF Fill
<1>3. ASSUME NEW o \in Outcomes, CreateUser(w, o)
      PROVE  /\ \A x \in Workers \ {w} : /\ pc'[x] = pc[x] /\ link'[x] = link[x]
                                         /\ batch'[x] = batch[x] /\ rules'[x] = rules[x]
             /\ stored' = stored /\ doomed' = doomed /\ pool' = pool /\ made' = made
             /\ batch' = batch /\ pc[w] # "fill"
  BY <1>3 DEF TypeOK, CreateUser, Relink, To
<1>4. ASSUME NEW o \in Outcomes, PushIds(w, o)
      PROVE  /\ \A x \in Workers \ {w} : /\ pc'[x] = pc[x] /\ link'[x] = link[x]
                                         /\ batch'[x] = batch[x] /\ rules'[x] = rules[x]
             /\ stored' = stored /\ doomed' = doomed /\ made' = made /\ acl' = acl
             /\ pc[w] = "push" /\ pc'[w] = "fill" /\ batch'[w] = NoId
             /\ \/ pool' = pool
                \/ /\ pool' = [k \in 1..MinPool |-> batch[w] + MinPool - k] \o pool
                   /\ link[w] = "up"
  <2>1. pool' = pool \/ (/\ pool' = [k \in 1..MinPool |-> batch[w] + MinPool - k] \o pool
                         /\ link[w] = "up")
    <3>1. Applied(o) => link[w] = "up"
      BY <1>4, IssueTypes DEF TypeOK, PushIds
    <3> QED
      BY <1>4, <3>1, Zenon DEF PushIds
  <2>2. /\ pc[w] = "push" /\ made' = made /\ acl' = acl /\ stored' = stored /\ doomed' = doomed
    BY <1>4 DEF PushIds
  <2>3. CASE EndFrame(w)
    BY <2>1, <2>2, <2>3, FrameEnds
  <2>4. CASE /\ To(w, "fill")
             /\ batch' = [batch EXCEPT ![w] = NoId]
             /\ rules' = [rules EXCEPT ![w] = 0]
             /\ UNCHANGED link
    <3>1. /\ \A x \in Workers \ {w} : /\ pc'[x] = pc[x] /\ link'[x] = link[x]
                                      /\ batch'[x] = batch[x] /\ rules'[x] = rules[x]
          /\ pc'[w] = "fill" /\ batch'[w] = NoId
      BY <2>4 DEF TypeOK, To
    <3> QED
      BY <2>1, <2>2, <3>1
  <2> QED
    BY <1>4, <2>3, <2>4 DEF PushIds
<1>5. CASE Crash(w)
  BY <1>5, FrameEnds DEF Crash
<1> QED
  BY <1>1, <1>2, <1>3, <1>4, <1>5 DEF Work

\* Every worker is where it should be in its batch.
LEMMA NextFilling ==
    ASSUME TypeOK, Filling, [Next]_vars
    PROVE  Filling'
<1> USE DEF redisVars, deviceVars, workerVars, operatorVars
<1>1. ASSUME NEW w \in Workers, Work(w) \/ Crash(w)
      PROVE  Filling'
  <2>1. SUFFICES /\ pc'[w] = "fill" => rules'[w] = 0
                 /\ pc'[w] = "create" => rules'[w] < 2 * MinPool
                 /\ pc'[w] = "push" => rules'[w] = 2 * MinPool
    BY <1>1, WorkSteps DEF Filling
  <2>2. CASE EndFrame(w)
    BY <2>2, FrameEnds
  <2>3. CASE Connect(w)
    BY <2>3 DEF Connect, Filling
  <2>4. ASSUME NEW o \in Outcomes, Fill(w, o), ~EndFrame(w)
        PROVE  /\ pc'[w] \in {"fill", "create"} /\ rules'[w] = 0
    BY <2>4 DEF TypeOK, Fill, Filling, To
  <2>5. ASSUME NEW o \in Outcomes, CreateUser(w, o)
        PROVE  \/ pc'[w] = "create" /\ rules'[w] < 2 * MinPool
               \/ pc'[w] = "push" /\ rules'[w] = 2 * MinPool
    <3>1. /\ rules'[w] = rules[w] + 1 /\ rules[w] < 2 * MinPool /\ rules[w] \in Nat
          /\ pc'[w] = IF rules[w] + 1 = 2 * MinPool THEN "push" ELSE "create"
      BY <2>5, Numbers DEF TypeOK, CreateUser, Filling, To
    <3> QED
      BY <3>1, Numbers
  <2>6. ASSUME NEW o \in Outcomes, PushIds(w, o), ~EndFrame(w)
        PROVE  pc'[w] = "fill" /\ rules'[w] = 0
    BY <2>6 DEF TypeOK, PushIds, To
  <2> QED
    BY <1>1, <2>2, <2>3, <2>4, <2>5, <2>6, Numbers DEF Work, Crash
<1>2. CASE UNCHANGED workerVars
  BY <1>2 DEF Filling
<1> QED
  BY <1>1, <1>2 DEF Next, vars, Step, LoginBurnIn, TakeId, Login, Lose, Restart, Operate,
                    Provision, DisconnectSilent, ListUsers, DeleteListed, ClearPool, GiveUp

-----------------------------------------------------------------------------
(* Uniqueness                                                              *)

\* The batches that are left when a worker drops or keeps its own.
LEMMA BatchesKept ==
    ASSUME NEW w \in Workers,
           \A x \in Workers \ {w} : batch'[x] = batch[x],
           batch'[w] = batch[w] \/ batch'[w] = NoId
    PROVE  /\ \A x \in Workers : Batch(x)' \subseteq Batch(x)
           /\ InHand' \subseteq InHand
<1>1. \A x \in Workers : Batch(x)' \subseteq Batch(x)
  BY DEF Batch
<1> QED
  BY <1>1 DEF InHand

\* Uniqueness and what was created survive a step that brings no id anywhere.
LEMMA NothingMoves ==
    ASSUME TypeOK, IdsAreUnique, Created,
           Entries(pool') \subseteq Entries(pool),
           (\A j, k \in DOMAIN pool : pool[j] = pool[k] => j = k) =>
               \A j, k \in DOMAIN pool' : pool'[j] = pool'[k] => j = k,
           \A d \in Devices : stored'[d] = stored[d] \/ stored'[d] = NoId,
           \A w \in Workers : Batch(w)' \subseteq Batch(w),
           InHand' \subseteq InHand, made' = made
    PROVE  IdsAreUnique' /\ Created'
<1>1. NoId \notin Entries(pool') \cup InHand' /\ NoId \in 0..made
  <2>1. Entries(pool) \subseteq Ids
    BY DEF TypeOK, Entries
  <2>2. InHand \subseteq Ids
    BY Batches DEF InHand
  <2> QED
    BY <2>1, <2>2, Numbers DEF TypeOK
<1>2. Entries(pool)' = Entries(pool')
  BY DEF Entries
<1> QED
  BY <1>1, <1>2 DEF IdsAreUnique, Created

\* A begun batch is of ids that are nowhere yet.
LEMMA BatchBegun ==
    ASSUME TypeOK, IdsAreUnique, Created, NEW w \in Workers,
           \A x \in Workers \ {w} : batch'[x] = batch[x],
           pc[w] = "fill", batch'[w] = made + 1, made' = made + MinPool,
           pool' = pool, stored' = stored
    PROVE  IdsAreUnique' /\ Created'
<1>0. /\ made \in Nat /\ MinPool \in Nat /\ MinPool > 0
      /\ batch[w] = NoId /\ Batch(w) = {}
  <2>1. made \in Nat /\ MinPool \in Nat /\ MinPool > 0
    BY Numbers DEF TypeOK
  <2>2. batch[w] = NoId
    BY DEF TypeOK
  <2> QED
    BY <2>1, <2>2, Batches
<1>1. /\ Batch(w)' = (made + 1)..(made + MinPool)
      /\ \A x \in Workers \ {w} : Batch(x)' = Batch(x) /\ Batch(x) \subseteq 1..made
  <2>1. made + 1 # NoId /\ made + 1 + MinPool - 1 = made + MinPool
    BY <1>0, Numbers
  <2> QED
    BY <2>1, Batches DEF Batch
<1>2. \A i \in Batch(w)' : i > made /\ i \in 1..(made + MinPool)
  BY <1>0, <1>1
<1>3. \A i \in InHand' : i \in InHand \/ i \in Batch(w)'
  BY <1>1 DEF InHand
<1>4. InHand \subseteq 1..made
  BY Batches DEF InHand
<1>5. \A i \in Batch(w)' : i \notin Entries(pool) /\ \A d \in Devices : stored[d] # i
  BY <1>0, <1>2 DEF Created, TypeOK
<1>6. \A x \in Workers \ {w} : Batch(x)' \cap Batch(w)' = {}
  BY <1>0, <1>1, <1>2
<1>7. Created'
  BY <1>0 DEF Created, Entries
<1>8. /\ \A d \in Devices : stored[d] \notin Entries(pool) \cup InHand'
      /\ InHand' \cap Entries(pool) = {}
  BY <1>3, <1>5 DEF IdsAreUnique
<1>9. \A u, v \in Workers : Batch(u)' \cap Batch(v)' # {} => u = v
  <2>1. ASSUME NEW u \in Workers, NEW v \in Workers, Batch(u)' \cap Batch(v)' # {}, u # v
        PROVE  FALSE
    <3>1. CASE u = w \/ v = w
      BY <1>6, <2>1, <3>1
    <3>2. CASE u # w /\ v # w
      BY <1>1, <2>1, <3>2 DEF IdsAreUnique
    <3> QED
      BY <3>1, <3>2
  <2> QED
    BY <2>1
<1> QED
  BY <1>7, <1>8, <1>9 DEF IdsAreUnique, Entries

\* A pushed batch is in the pool and in no hand.
LEMMA BatchPushed ==
    ASSUME TypeOK, IdsAreUnique, Created, NEW w \in Workers,
           \A x \in Workers \ {w} : batch'[x] = batch[x],
           pc[w] = "push", batch'[w] = NoId, made' = made, stored' = stored,
           pool' = [k \in 1..MinPool |-> batch[w] + MinPool - k] \o pool
    PROVE  IdsAreUnique' /\ Created'
<1>0. /\ batch[w] \in Ids /\ batch[w] + MinPool - 1 <= MaxIds
      /\ Batch(w) = batch[w]..(batch[w] + MinPool - 1)
      /\ Batch(w) \subseteq 1..made /\ Batch(w) \subseteq InHand
  BY Batches DEF TypeOK
<1>1. /\ Batch(w)' = {}
      /\ \A x \in Workers \ {w} : Batch(x)' = Batch(x)
  BY DEF Batch
<1>2. /\ InHand' \subseteq InHand
      /\ InHand' \cap Batch(w) = {}
  BY <1>1 DEF InHand, IdsAreUnique
<1>3. /\ Entries(pool)' = Batch(w) \cup Entries(pool)
      /\ \A j, k \in DOMAIN pool' : pool'[j] = pool'[k] => j = k
  <2>1. pool \in Seq(Ids) /\ \A j, k \in DOMAIN pool : pool[j] = pool[k] => j = k
    BY DEF TypeOK, IdsAreUnique
  <2>2. Batch(w) \cap Entries(pool) = {}
    BY <1>0 DEF IdsAreUnique
  <2>3. /\ Entries(pool') = Batch(w) \cup Entries(pool)
        /\ \A j, k \in DOMAIN pool' : pool'[j] = pool'[k] => j = k
    BY <1>0, <2>1, <2>2, Pushed
  <2> QED
    BY <2>3 DEF Entries
<1>4. \A d \in Devices : stored[d] \notin Batch(w)
  BY <1>0 DEF IdsAreUnique
<1>5. Created'
  BY <1>0, <1>3 DEF Created
<1>6. /\ \A d \in Devices : stored'[d] \notin Entries(pool)' \cup InHand'
      /\ InHand' \cap Entries(pool)' = {}
  BY <1>2, <1>3, <1>4 DEF IdsAreUnique
<1>7. \A u, v \in Workers : Batch(u)' \cap Batch(v)' # {} => u = v
  BY <1>1 DEF IdsAreUnique
<1> QED
  BY <1>3, <1>5, <1>6, <1>7 DEF IdsAreUnique

\* A device that takes an id has it alone.
LEMMA IdTaken ==
    ASSUME TypeOK, IdsAreUnique, Created, NEW d \in Devices, pool # <<>>,
           pool' = Tail(pool), stored' = [stored EXCEPT ![d] = Head(pool)],
           batch' = batch, made' = made
    PROVE  IdsAreUnique' /\ Created'
<1>1. /\ Head(pool) \in Entries(pool) /\ Entries(pool') \subseteq Entries(pool)
      /\ Head(pool) \notin Entries(pool')
      /\ \A j, k \in DOMAIN pool' : pool'[j] = pool'[k] => j = k
  BY Taken DEF TypeOK, IdsAreUnique
<1>2. /\ \A w \in Workers : Batch(w)' = Batch(w)
      /\ InHand' = InHand /\ Entries(pool)' = Entries(pool')
  BY DEF Batch, InHand, Entries
<1>3. Head(pool) \notin InHand /\ \A e \in Devices : stored[e] # Head(pool)
  BY <1>1 DEF IdsAreUnique
<1>4. \A e \in Devices : stored'[e] = IF e = d THEN Head(pool) ELSE stored[e]
  BY DEF TypeOK
<1>5. Created'
  <2>1. Head(pool) \in 0..made
    BY <1>1, Numbers DEF Created, TypeOK
  <2> QED
    BY <1>1, <1>2, <1>4, <2>1 DEF Created
<1>6. /\ \A e \in Devices : stored'[e] \notin Entries(pool)' \cup InHand'
      /\ InHand' \cap Entries(pool)' = {}
      /\ \A e, f \in Devices : stored'[e] = stored'[f] /\ stored'[e] # NoId => e = f
  BY <1>1, <1>2, <1>3, <1>4 DEF IdsAreUnique
<1> QED
  BY <1>1, <1>2, <1>5, <1>6 DEF IdsAreUnique

\* Ids stay unique, whatever step is taken.
LEMMA NextUnique ==
    ASSUME TypeOK, Filling, IdsAreUnique, Created, [Next]_vars
    PROVE  IdsAreUnique' /\ Created'
<1> USE DEF redisVars, deviceVars, workerVars, operatorVars
<1>1. ASSUME NEW w \in Workers, Work(w) \/ Crash(w)
      PROVE  IdsAreUnique' /\ Created'
  <2>1. CASE pool' = pool /\ made' = made /\ (batch'[w] = batch[w] \/ batch'[w] = NoId)
    BY <1>1, <2>1, WorkSteps, BatchesKept, NothingMoves
  <2>2. CASE pc[w] = "fill" /\ batch'[w] = made + 1 /\ pool' = pool /\ made' = made + MinPool
    BY <1>1, <2>2, WorkSteps, BatchBegun
  <2>3. CASE /\ pool' = [k \in 1..MinPool |-> batch[w] + MinPool - k] \o pool
             /\ pc[w] = "push" /\ batch'[w] = NoId /\ made' = made
    BY <1>1, <2>3, WorkSteps, BatchPushed
  <2> QED
    BY <1>1, <2>1, <2>2, <2>3, WorkSteps
<1>2. ASSUME UNCHANGED workerVars
      PROVE  (\A w \in Workers : Batch(w)' \subseteq Batch(w)) /\ InHand' \subseteq InHand
  BY <1>2 DEF Batch, InHand
<1>3. ASSUME UNCHANGED <<pool, made, workerVars>>,
             \A d \in Devices : stored'[d] = stored[d] \/ stored'[d] = NoId
      PROVE  IdsAreUnique' /\ Created'
  BY <1>2, <1>3, NothingMoves
<1>4. ASSUME pool # <<>>, pool' = Tail(pool), UNCHANGED <<made, stored, workerVars>>
      PROVE  IdsAreUnique' /\ Created'
  BY <1>2, <1>4, Taken, NothingMoves DEF TypeOK
<1>5. ASSUME NEW d \in Devices, Step(d) \/ Lose(d) \/ Restart(d)
      PROVE  IdsAreUnique' /\ Created'
  <2>1. CASE TakeId(d)
    <3>1. CASE pool = <<>>
      BY <1>3, <2>1, <3>1 DEF TakeId
    <3>2. CASE pool # <<>>
      BY <2>1, <3>2, IdTaken DEF TakeId, Store
    <3> QED
      BY <3>1, <3>2
  <2>2. CASE Login(d)
    <3>1. \A e \in Devices : stored'[e] = stored[e] \/ stored'[e] = NoId
      BY <2>2 DEF TypeOK, Login, Store
    <3> QED
      BY <1>3, <2>2, <3>1 DEF Login
  <2>3. CASE Lose(d)
    BY <1>3, <1>4, <2>3 DEF Lose
  <2> QED
    BY <1>3, <1>5, <2>1, <2>2, <2>3 DEF Step, LoginBurnIn, Restart
<1>6. CASE Operate
  <2>1. CASE ClearPool
    <3>1. pool' = <<>> /\ UNCHANGED <<made, stored, workerVars>>
      BY <2>1 DEF ClearPool
    <3>2. Entries(pool') = {} /\ DOMAIN pool' = {}
      BY <3>1 DEF Entries
    <3> QED
      BY <1>2, <3>1, <3>2, NothingMoves
  <2> QED
    BY <1>3, <1>6, <2>1 DEF Operate, Provision, DisconnectSilent, ListUsers, DeleteListed, GiveUp
<1>7. CASE UNCHANGED vars
  BY <1>3, <1>7 DEF vars
<1> QED
  BY <1>1, <1>5, <1>6, <1>7 DEF Next

-----------------------------------------------------------------------------
(* Rights                                                                  *)

\* The rights of the ids in the pool and of those in hand, when a step leaves
\* the workers alone, brings nothing into the pool and takes no rights of an id
\* that is not marked as doomed.
LEMMA RightsStay ==
    ASSUME TypeOK, Entitled, PooledIdsWork, UNCHANGED workerVars,
           Entries(pool') \subseteq Entries(pool),
           \A i \in Entries(pool') \cup InHand :
               (acl'[i] = acl[i] /\ (i \in doomed => i \in doomed')) \/ i \in doomed'
    PROVE  Entitled' /\ PooledIdsWork'
<1>1. /\ \A w \in Workers : Batch(w)' = Batch(w) /\ Batch(w) \subseteq InHand
      /\ Entries(pool)' = Entries(pool')
  BY Batches DEF workerVars, Batch, Entries
<1>2. PooledIdsWork'
  BY <1>1 DEF PooledIdsWork
<1>3. ASSUME NEW w \in Workers, link'[w] = "up", NEW i \in Batch(w), i \notin doomed'
      PROVE  HasWhatIsGranted(w, i)'
  <2>1. acl'[i] = acl[i] /\ i \notin doomed /\ link[w] = "up"
    BY <1>1, <1>3 DEF workerVars
  <2>2. HasWhatIsGranted(w, i)
    BY <1>3, <2>1 DEF Entitled
  <2> QED
    BY <2>1, <2>2 DEF HasWhatIsGranted, workerVars
<1> QED
  BY <1>1, <1>2, <1>3 DEF Entitled

\* A command that is run grants the next right, and none is taken.
LEMMA UserCreated ==
    ASSUME TypeOK, TypeOK', Filling, Entitled, PooledIdsWork,
           NEW w \in Workers, NEW o \in Outcomes, CreateUser(w, o)
    PROVE  Entitled' /\ PooledIdsWork'
<1> DEFINE g == Grantee(w)
<1>1. /\ g \in Batch(w) /\ g \in Ids
      /\ Granted(w) = "pop" => rules[w] = 2 * (g - batch[w])
      /\ Granted(w) = "report" => rules[w] = 2 * (g - batch[w]) + 1
      /\ Granted(w) \in {"pop", "report"}
  BY NextGrant DEF CreateUser, Rights
<1>2. /\ \A i \in Ids : acl[i] \subseteq acl'[i] /\ acl'[i] \in SUBSET Rights
      /\ Applied(o) => Granted(w) \in acl'[g]
  <2>1. \A i \in Ids : acl'[i] \in SUBSET Rights
    BY DEF TypeOK, RedisUsers
  <2>2. \A i \in Ids : acl[i] \subseteq acl'[i]
    BY DEF TypeOK, RedisUsers, CreateUser
  <2>3. Applied(o) => Granted(w) \in acl'[g]
    BY <1>1 DEF TypeOK, RedisUsers, CreateUser
  <2> QED
    BY <2>1, <2>2, <2>3
<1>3. /\ pool' = pool /\ doomed' = doomed /\ batch' = batch
      /\ link'[w] = "up" => link[w] = "up" /\ Applied(o)
      /\ rules'[w] = rules[w] + 1 /\ rules[w] \in Nat
      /\ \A x \in Workers \ {w} : link'[x] = link[x] /\ rules'[x] = rules[x]
  <2>1. LinkAfter(o) = "up" => link[w] = "up" /\ Applied(o)
    BY IssueTypes DEF TypeOK, CreateUser, Applied, LinkAfter
  <2> QED
    BY <2>1, Numbers DEF TypeOK, CreateUser, Relink
<1>4. \A x \in Workers : Batch(x)' = Batch(x) /\ Batch(x) \subseteq Ids
  BY <1>3, Batches DEF Batch
<1>5. PooledIdsWork'
  <2>1. \A i \in Entries(pool) : i \in Ids
    BY DEF TypeOK, Entries
  <2>2. \A i \in Ids : acl[i] = Rights => acl'[i] = Rights
    BY <1>2
  <2>3. Entries(pool)' = Entries(pool)
    BY <1>3 DEF Entries
  <2> QED
    BY <1>3, <2>1, <2>2, <2>3 DEF PooledIdsWork
<1>6. ASSUME NEW x \in Workers \ {w}, link'[x] = "up", NEW i \in Batch(x), i \notin doomed'
      PROVE  HasWhatIsGranted(x, i)'
  <2>1. HasWhatIsGranted(x, i)
    BY <1>3, <1>6 DEF Entitled
  <2> QED
    BY <1>2, <1>3, <1>4, <1>6, <2>1 DEF HasWhatIsGranted
<1>7. ASSUME link'[w] = "up", NEW i \in Batch(w), i \notin doomed'
      PROVE  HasWhatIsGranted(w, i)'
  <2>1. HasWhatIsGranted(w, i) /\ Applied(o)
    BY <1>3, <1>7 DEF Entitled
  <2>2. i \in Ids /\ acl[i] \subseteq acl'[i]
    BY <1>2, <1>4, <1>7
  <2>3. i \in Nat /\ g \in Nat /\ batch[w] \in Nat
    BY <1>1, <2>2, Numbers DEF TypeOK
  <2>4. 2 * (i - batch[w]) = rules[w] => Granted(w) = "pop" /\ i = g
    BY <1>1, <1>3, <2>3
  <2>5. 2 * (i - batch[w]) + 1 = rules[w] => Granted(w) = "report" /\ i = g
    BY <1>1, <1>3, <2>3
  <2>6. 2 * (i - batch[w]) < rules'[w] => "pop" \in acl'[i]
    <3>1. 2 * (i - batch[w]) < rules[w] + 1 =>
            2 * (i - batch[w]) < rules[w] \/ 2 * (i - batch[w]) = rules[w]
      BY <1>3, <2>3
    <3> QED
      BY <1>2, <1>3, <2>1, <2>2, <2>4, <3>1 DEF HasWhatIsGranted
  <2>7. 2 * (i - batch[w]) + 1 < rules'[w] => "report" \in acl'[i]
    <3>1. 2 * (i - batch[w]) + 1 < rules[w] + 1 =>
            2 * (i - batch[w]) + 1 < rules[w] \/ 2 * (i - batch[w]) + 1 = rules[w]
      BY <1>3, <2>3
    <3> QED
      BY <1>2, <1>3, <2>1, <2>2, <2>5, <3>1 DEF HasWhatIsGranted
  <2> QED
    BY <1>3, <2>6, <2>7 DEF HasWhatIsGranted
<1> QED
  BY <1>3, <1>4, <1>5, <1>6, <1>7 DEF Entitled

\* Rights of the others when a worker begins, drops or pushes a batch.
LEMMA BatchRights ==
    ASSUME TypeOK, Filling, Entitled, PooledIdsWork, NEW w \in Workers,
           \A x \in Workers \ {w} : /\ link'[x] = link[x] /\ batch'[x] = batch[x]
                                   /\ rules'[x] = rules[x],
           acl' = acl, doomed' = doomed,
           batch'[w] = NoId \/ (rules'[w] = 0 /\ batch'[w] \in Nat)
    PROVE  Entitled'
<1>1. ASSUME NEW x \in Workers \ {w}, link'[x] = "up", NEW i \in Batch(x)', i \notin doomed'
      PROVE  HasWhatIsGranted(x, i)'
  <2>1. i \in Batch(x)
    BY <1>1 DEF Batch
  <2> QED
    BY <1>1, <2>1 DEF Entitled, HasWhatIsGranted
<1>2. ASSUME NEW i \in Batch(w)'
      PROVE  HasWhatIsGranted(w, i)'
  <2>1. rules'[w] = 0 /\ batch'[w] \in Nat /\ i \in batch'[w]..(batch'[w] + MinPool - 1)
    BY <1>2 DEF Batch
  <2> QED
    BY <2>1, Numbers DEF HasWhatIsGranted
<1> QED
  BY <1>1, <1>2 DEF Entitled

\* An id that is pushed has all rights, unless it is marked.
LEMMA PushRights ==
    ASSUME TypeOK, Filling, Entitled, PooledIdsWork, NEW w \in Workers,
           pc[w] = "push", link[w] = "up", acl' = acl, doomed' = doomed,
           pool' = [k \in 1..MinPool |-> batch[w] + MinPool - k] \o pool
    PROVE  PooledIdsWork'
<1>1. /\ batch[w] \in Ids /\ batch[w] + MinPool - 1 <= MaxIds /\ rules[w] = 2 * MinPool
      /\ Batch(w) = batch[w]..(batch[w] + MinPool - 1) /\ Batch(w) \subseteq Ids
  BY Batches DEF TypeOK, Filling
<1>2. Entries(pool') = Batch(w) \cup Entries(pool)
  BY <1>1, Pushed DEF TypeOK
<1>3. ASSUME NEW i \in Batch(w), i \notin doomed
      PROVE  acl[i] = Rights
  <2>1. HasWhatIsGranted(w, i)
    BY <1>3 DEF Entitled
  <2>2. 2 * (i - batch[w]) < rules[w] /\ 2 * (i - batch[w]) + 1 < rules[w]
    BY <1>1, Numbers
  <2>3. acl[i] \in SUBSET Rights
    BY <1>1 DEF TypeOK, RedisUsers
  <2> QED
    BY <2>1, <2>2, <2>3 DEF HasWhatIsGranted, Rights
<1> QED
  BY <1>2, <1>3 DEF PooledIdsWork, Entries

\* Every step leaves the ids in the pool and in hand entitled.
LEMMA NextRights ==
    ASSUME TypeOK, TypeOK', Filling, Entitled, PooledIdsWork, [Next]_vars
    PROVE  Entitled' /\ PooledIdsWork'
<1> USE DEF redisVars, deviceVars, operatorVars
<1>1. ASSUME UNCHANGED <<workerVars, acl, doomed>>, Entries(pool') \subseteq Entries(pool)
      PROVE  Entitled' /\ PooledIdsWork'
  BY <1>1, RightsStay
<1>2. ASSUME NEW w \in Workers, Work(w) \/ Crash(w)
      PROVE  Entitled' /\ PooledIdsWork'
  <2>1. CASE \E o \in Outcomes : CreateUser(w, o)
    BY <2>1, UserCreated
  <2>2. CASE Connect(w)
    <3>1. /\ batch' = batch /\ rules' = rules /\ acl' = acl /\ doomed' = doomed /\ pool' = pool
          /\ \A x \in Workers \ {w} : link'[x] = link[x]
          /\ batch[w] = NoId
      BY <2>2 DEF TypeOK, Connect, Relink
    <3>2. Entitled'
      BY <3>1, BatchRights
    <3> QED
      BY <3>1, <3>2 DEF PooledIdsWork, Entries
  <2>3. CASE EndFrame(w) /\ UNCHANGED <<pool, acl, doomed>>
    <3>1. Entitled'
      BY <2>3, FrameEnds, BatchRights
    <3> QED
      BY <2>3, <3>1 DEF PooledIdsWork, Entries
  <2>4. ASSUME NEW o \in Outcomes, Fill(w, o), ~EndFrame(w)
        PROVE  Entitled' /\ PooledIdsWork'
    <3>1. CASE UNCHANGED workerVars
      BY <1>1, <2>4, <3>1 DEF Fill
    <3>2. CASE ~UNCHANGED workerVars
      <4>1. /\ batch' = [batch EXCEPT ![w] = made + 1] /\ UNCHANGED <<link, rules, pool, acl, doomed>>
            /\ pc[w] = "fill"
        BY <2>4, <3>2 DEF Fill
      <4>2. batch'[w] \in Nat /\ rules'[w] = 0
            /\ \A x \in Workers \ {w} : batch'[x] = batch[x]
        BY <4>1, Numbers DEF TypeOK, Filling
      <4>3. Entitled'
        BY <4>1, <4>2, BatchRights
      <4> QED
        BY <4>1, <4>3 DEF PooledIdsWork, Entries
    <3> QED
      BY <3>1, <3>2
  <2>5. ASSUME NEW o \in Outcomes, PushIds(w, o)
        PROVE  Entitled' /\ PooledIdsWork'
    <3>1. /\ \A x \in Workers \ {w} : /\ link'[x] = link[x] /\ batch'[x] = batch[x]
                                      /\ rules'[x] = rules[x]
          /\ doomed' = doomed /\ acl' = acl /\ pc[w] = "push"
      BY <2>5, WorkSteps DEF Work, PushIds
    <3>2. batch'[w] = NoId
      <4>1. CASE EndFrame(w)
        BY <4>1, FrameEnds
      <4>2. CASE batch' = [batch EXCEPT ![w] = NoId]
        BY <4>2 DEF TypeOK
      <4> QED
        BY <2>5, <4>1, <4>2 DEF PushIds
    <3>3. Entitled'
      BY <3>1, <3>2, BatchRights
    <3>4. CASE pool' = pool
      BY <3>1, <3>3, <3>4 DEF PooledIdsWork, Entries
    <3>5. CASE pool' # pool
      <4>1. Applied(o)
        BY <2>5, <3>5 DEF PushIds
      <4>2. /\ pool' = [k \in 1..MinPool |-> batch[w] + MinPool - k] \o pool
            /\ link[w] = "up"
        BY <2>5, <4>1, IssueTypes DEF TypeOK, PushIds
      <4> QED
        BY <3>1, <3>3, <4>2, PushRights
    <3> QED
      BY <3>4, <3>5
  <2> QED
    BY <1>2, <2>1, <2>2, <2>3, <2>4, <2>5 DEF Work, Crash, Fill
<1>3. ASSUME NEW d \in Devices, Step(d) \/ Lose(d) \/ Restart(d)
      PROVE  Entitled' /\ PooledIdsWork'
  <2>1. UNCHANGED <<workerVars, acl, doomed>> /\ (pool' = pool \/ (pool # <<>> /\ pool' = Tail(pool)))
    BY <1>3 DEF Step, LoginBurnIn, TakeId, Login, Lose, Restart
  <2>2. Entries(pool') \subseteq Entries(pool)
    BY <2>1, Taken DEF TypeOK
  <2> QED
    BY <1>1, <2>1, <2>2
<1>4. CASE Operate
  <2>0. Entries(pool) \subseteq Ids /\ InHand \subseteq Ids
    <3>1. Entries(pool) \subseteq Ids
      BY DEF TypeOK, Entries
    <3>2. \A w \in Workers : Batch(w) \subseteq Ids
      BY Batches
    <3> QED
      BY <3>1, <3>2 DEF InHand
  <2>1. CASE Provision
    <3>1. \A i \in Ids : acl'[i] = acl[i]
      BY <2>1, Numbers DEF TypeOK, Provision
    <3> QED
      BY <2>0, <2>1, <3>1, RightsStay DEF Provision
  <2>2. ASSUME NEW is \in SUBSET (1..made), DisconnectSilent(is)
        PROVE  Entitled' /\ PooledIdsWork'
    <3>1. is \in SUBSET RedisUsers
      BY Numbers DEF TypeOK
    <3>2. \A i \in Entries(pool) \cup InHand : acl'[i] = acl[i]
      BY <2>0, <2>2, <3>1, UsersDeleted DEF DisconnectSilent, RedisUsers
    <3> QED
      BY <2>2, <3>2, RightsStay DEF DisconnectSilent
  <2>3. CASE DeleteListed
    <3>1. \A i \in Ids : acl'[i] = acl[i] \/ i \in names
      BY <2>3, UsersDeleted DEF TypeOK, DeleteListed, RedisUsers
    <3>2. doomed' = doomed \cup (names \ {BurnIn}) /\ pool' = pool /\ UNCHANGED workerVars
      BY <2>3 DEF DeleteListed
    <3> QED
      BY <2>0, <3>1, <3>2, RightsStay, Numbers
  <2>4. CASE ClearPool
    <3>1. /\ pool' = <<>> /\ acl' = acl /\ UNCHANGED workerVars
          /\ doomed' = doomed \cap (InHand \cup {stored[d] : d \in Devices})
      BY <2>4 DEF ClearPool
    <3>2. Entries(pool') = {}
      BY <3>1 DEF Entries
    <3> QED
      BY <3>1, <3>2, RightsStay
  <2>5. CASE ListUsers \/ GiveUp
    BY <1>1, <2>5 DEF ListUsers, GiveUp
  <2> QED
    BY <1>4, <2>1, <2>2, <2>3, <2>4, <2>5 DEF Operate
<1>5. CASE UNCHANGED vars
  BY <1>1, <1>5 DEF vars
<1> QED
  BY <1>2, <1>3, <1>4, <1>5 DEF Next

-----------------------------------------------------------------------------
(* Room                                                                    *)

\* Multiples of the minimum.
LEMMA Multiples ==
    ASSUME NEW m \in Nat, NEW a \in Nat, NEW b \in Nat
    PROVE  /\ m * a \in Nat /\ m * (a + 1) = m * a + m
           /\ a <= b => m * a <= m * b
<1>1. m * a \in Nat /\ m * (a + 1) = m * a + m
  OBVIOUS
<1>2. ASSUME a <= b
      PROVE  m * a <= m * b
  <2>1. PICK c \in Nat : b = a + c
    <3>1. b - a \in Nat /\ b = a + (b - a)
      BY <1>2
    <3> QED
      BY <3>1
  <2>2. m * b = m * a + m * c /\ m * c \in Nat
    BY <2>1
  <2> QED
    BY <1>1, <2>2
<1> QED
  BY <1>1, <1>2

\* Workers can be counted.
LEMMA Counted ==
    /\ IsFiniteSet(Workers) /\ Cardinality(Workers) \in Nat
    /\ IsFiniteSet(Fillers) /\ Cardinality(Fillers) \in Nat
    /\ Cardinality(Fillers) <= Cardinality(Workers)
<1>1. IsFiniteSet(Workers) /\ Fillers \subseteq Workers
  BY ProvisioningAssumption DEF Fillers
<1> QED
  BY <1>1, FS_Subset, FS_CardinalityType

\* The same of the next state.
LEMMA CountedNext ==
    /\ IsFiniteSet(Fillers') /\ Cardinality(Fillers') \in Nat
    /\ Cardinality(Fillers') <= Cardinality(Workers)
<1>1. IsFiniteSet(Workers) /\ Fillers' \subseteq Workers
  BY ProvisioningAssumption DEF Fillers
<1> QED
  BY <1>1, FS_Subset, FS_CardinalityType

\* There is as much room when the pool does not grow, and no worker begins.
LEMMA NoLessRoom ==
    ASSUME TypeOK, Room, Fillers' \subseteq Fillers, Len(pool') \in Nat, Len(pool') <= Len(pool)
    PROVE  Room'
<1>1. Cardinality(Fillers') <= Cardinality(Fillers)
  BY Counted, FS_Subset
<1>2. MinPool * Cardinality(Fillers') <= MinPool * Cardinality(Fillers)
  BY <1>1, Counted, CountedNext, Multiples, Numbers
<1>3. /\ MinPool * Cardinality(Fillers') \in Nat /\ MinPool * Cardinality(Fillers) \in Nat
      /\ MinPool * (Cardinality(Workers) + 1) \in Nat /\ Len(pool) \in Nat
  BY Counted, CountedNext, Multiples, Numbers DEF TypeOK
<1>4. Len(pool') + MinPool * Cardinality(Fillers') < MinPool * (Cardinality(Workers) + 1)
  BY <1>2, <1>3 DEF Room
<1> QED
  BY <1>4 DEF Room

\* Every step leaves room for what the workers are going to push.
LEMMA NextRoom ==
    ASSUME TypeOK, TypeOK', Filling, Room, [Next]_vars
    PROVE  Room'
<1> USE DEF redisVars, deviceVars, workerVars, operatorVars
<1>0. Len(pool) \in Nat /\ Len(pool') \in Nat /\ Len(<<>>) = 0
  BY DEF TypeOK
<1>1. ASSUME UNCHANGED pc, Len(pool') <= Len(pool)
      PROVE  Room'
  BY <1>0, <1>1, NoLessRoom DEF Fillers
<1>2. ASSUME NEW w \in Workers, Work(w) \/ Crash(w)
      PROVE  Room'
  <2>0. \A x \in Workers \ {w} : pc'[x] = pc[x]
    BY <1>2, WorkSteps
  <2>1. CASE pool' = pool /\ (pc'[w] = "fill" \/ pc[w] # "fill")
    <3>1. Fillers' \subseteq Fillers
      BY <2>0, <2>1 DEF Fillers
    <3> QED
      BY <1>0, <2>1, <3>1, NoLessRoom
  <2>2. CASE pool' = pool /\ Len(pool) < MinPool
    <3>1. /\ MinPool * Cardinality(Fillers') <= MinPool * Cardinality(Workers)
          /\ MinPool * Cardinality(Fillers') \in Nat /\ MinPool * Cardinality(Workers) \in Nat
          /\ MinPool * (Cardinality(Workers) + 1) = MinPool * Cardinality(Workers) + MinPool
      BY Counted, CountedNext, Multiples, Numbers
    <3>2. Len(pool') + MinPool * Cardinality(Fillers') < MinPool * (Cardinality(Workers) + 1)
      BY <1>0, <2>2, <3>1, Numbers
    <3> QED
      BY <3>2 DEF Room
  <2>3. CASE /\ pool' = [k \in 1..MinPool |-> batch[w] + MinPool - k] \o pool
             /\ pc[w] = "push" /\ pc'[w] = "fill" /\ batch'[w] = NoId
    <3>1. Len(pool') = MinPool + Len(pool)
      <4>1. batch[w] \in Ids /\ batch[w] + MinPool - 1 <= MaxIds
        BY <2>3, Batches DEF TypeOK
      <4> QED
        BY <2>3, <4>1, Pushed DEF TypeOK
    <3>2. Fillers' = Fillers \ {w} /\ w \in Fillers
      BY <2>0, <2>3 DEF Fillers
    <3>3. Cardinality(Fillers) = Cardinality(Fillers') + 1
      BY <3>2, Counted, CountedNext, FS_RemoveElement
    <3>4. /\ MinPool * Cardinality(Fillers) = MinPool * Cardinality(Fillers') + MinPool
          /\ MinPool * Cardinality(Fillers') \in Nat
          /\ MinPool * (Cardinality(Workers) + 1) \in Nat
      <4>1. MinPool \in Nat /\ Cardinality(Fillers') \in Nat /\ Cardinality(Workers) + 1 \in Nat
        BY Counted, CountedNext, Numbers
      <4>2. /\ MinPool * Cardinality(Fillers') \in Nat
            /\ MinPool * (Cardinality(Fillers') + 1) = MinPool * Cardinality(Fillers') + MinPool
        BY <4>1, Multiples
      <4>3. MinPool * (Cardinality(Workers) + 1) \in Nat
        BY <4>1, Multiples
      <4> QED
        BY <3>3, <4>2, <4>3
    <3>5. Len(pool') + MinPool * Cardinality(Fillers') < MinPool * (Cardinality(Workers) + 1)
      BY <1>0, <3>1, <3>4, Numbers DEF Room
    <3> QED
      BY <3>5 DEF Room
  <2> QED
    BY <1>2, <2>1, <2>2, <2>3, WorkSteps
<1>3. ASSUME NEW d \in Devices, Step(d) \/ Lose(d) \/ Restart(d)
      PROVE  Room'
  <2>1. UNCHANGED pc /\ (pool' = pool \/ (pool # <<>> /\ pool' = Tail(pool)))
    BY <1>3 DEF Step, LoginBurnIn, TakeId, Login, Lose, Restart
  <2>2. Len(pool') <= Len(pool)
    BY <1>0, <2>1, Taken DEF TypeOK
  <2> QED
    BY <1>1, <2>1, <2>2
<1>4. CASE Operate
  <2>1. UNCHANGED pc /\ (pool' = pool \/ pool' = <<>>)
    BY <1>4 DEF Operate, Provision, DisconnectSilent, ListUsers, DeleteListed, ClearPool, GiveUp
  <2>2. Len(pool') <= Len(pool)
    BY <1>0, <2>1
  <2> QED
    BY <1>1, <2>1, <2>2
<1>5. CASE UNCHANGED vars
  BY <1>0, <1>1, <1>5 DEF vars
<1> QED
  BY <1>2, <1>3, <1>4, <1>5 DEF Next

-----------------------------------------------------------------------------
(* Identities                                                              *)

\* A device that asks for an id has none.
AsksWithoutId == \A d \in Devices : conn[d] = "burn-in" => stored[d] = NoId

\* Every step keeps it so: only the login of a device without an id leads there.
LEMMA NextAsks ==
    ASSUME TypeOK, AsksWithoutId, [Next]_vars
    PROVE  AsksWithoutId'
<1> USE DEF redisVars, deviceVars, workerVars, operatorVars, Into, Store
<1>1. CASE UNCHANGED deviceVars
  BY <1>1 DEF AsksWithoutId
<1>2. ASSUME NEW us, DelUsers(us), UNCHANGED stored
      PROVE  AsksWithoutId'
  <2>1. \A d \in Devices : conn'[d] = "burn-in" => conn[d] = "burn-in"
    BY <1>2 DEF DelUsers, Ended
  <2> QED
    BY <1>2, <2>1 DEF AsksWithoutId
<1>3. ASSUME NEW d \in Devices, Step(d) \/ Lose(d) \/ Restart(d)
      PROVE  AsksWithoutId'
  <2>1. CASE LoginBurnIn(d)
    BY <2>1 DEF TypeOK, AsksWithoutId, LoginBurnIn
  <2>2. CASE TakeId(d)
    BY <2>2 DEF TypeOK, AsksWithoutId, TakeId
  <2>3. CASE Login(d)
    BY <2>3 DEF TypeOK, AsksWithoutId, Login
  <2>4. CASE Lose(d)
    <3>1. Ended(conn[d]) # "burn-in"
      BY <2>4 DEF Lose, Ended
    <3> QED
      BY <2>4, <3>1 DEF TypeOK, AsksWithoutId, Lose
  <2>5. CASE Restart(d)
    BY <2>5 DEF TypeOK, AsksWithoutId, Restart
  <2> QED
    BY <1>3, <2>1, <2>2, <2>3, <2>4, <2>5 DEF Step
<1>4. CASE \E w \in Workers : Work(w) \/ Crash(w)
  BY <1>1, <1>4 DEF Work, Connect, Fill, CreateUser, PushIds, Crash
<1>5. CASE Operate
  BY <1>1, <1>2, <1>5 DEF Operate, Provision, DisconnectSilent, ListUsers, DeleteListed,
                          ClearPool, GiveUp
<1>6. CASE UNCHANGED vars
  BY <1>1, <1>6 DEF vars
<1> QED
  BY <1>3, <1>4, <1>5, <1>6 DEF Next

\* Ids that are lost in a step are wasted, and a step that loses none is none.
LEMMA Wasted ==
    ASSUME TypeOK', Spent \subseteq Spent', acl' = acl, stored' = stored
    PROVE  Registry!Waste
<1>1. Spent' \in SUBSET Ids /\ Spent' = Spent \cup Spent'
  BY Numbers DEF TypeOK, Spent
<1>2. Valid' = Valid
  BY DEF Valid
<1> QED
  BY <1>1, <1>2 DEF Registry!Waste

\* What is handed out stays so as long as no id is created, pushed or taken.
LEMMA SameSpent ==
    ASSUME UNCHANGED <<pool, made, batch>>
    PROVE  Spent' = Spent
<1>1. \A w \in Workers : Batch(w)' = Batch(w)
  BY DEF Batch
<1> QED
  BY <1>1 DEF Spent, Entries, InHand

\* Users of ids that are deleted, or none, are revoked.
LEMMA Revoked ==
    ASSUME UNCHANGED <<pool, made, batch, stored>>,
           \A i \in Ids : acl'[i] = acl[i] \/ acl'[i] = {}
    PROVE  Registry!Revoke
<1>1. Spent' = Spent
  BY SameSpent
<1>2. Valid' \subseteq Valid
  BY DEF Valid
<1>3. Valid \ Valid' \in SUBSET Valid /\ Valid' = Valid \ (Valid \ Valid')
  BY <1>2
<1> QED
  BY <1>1, <1>3 DEF Registry!Revoke

\* No step of a worker brings back an id that was handed out.
LEMMA WorkSpends ==
    ASSUME TypeOK, Filling, NEW w \in Workers, Work(w) \/ Crash(w)
    PROVE  Spent \subseteq Spent'
<1>0. made \in Nat /\ MinPool \in Nat
  BY Numbers DEF TypeOK
<1>1. SUFFICES ASSUME NEW i \in Spent
               PROVE  i \in Spent'
  OBVIOUS
<1>2. i \in 1..made /\ i \notin Entries(pool) /\ i \notin InHand
  BY <1>1 DEF Spent
<1>3. CASE pool' = pool /\ made' = made /\ (batch'[w] = batch[w] \/ batch'[w] = NoId)
  <2>1. InHand' \subseteq InHand
    BY <1>3, WorkSteps, BatchesKept
  <2> QED
    BY <1>2, <1>3, <2>1 DEF Spent, Entries
<1>4. CASE pool' = pool /\ made' = made + MinPool /\ batch'[w] = made + 1
  <2>1. \A x \in Workers \ {w} : Batch(x)' = Batch(x)
    BY WorkSteps DEF Batch
  <2>2. Batch(w)' = (made + 1)..(made + MinPool)
    <3>1. made + 1 # NoId /\ made + 1 + MinPool - 1 = made + MinPool
      BY <1>0, Numbers
    <3> QED
      BY <1>4, <3>1 DEF Batch
  <2>3. i \notin Batch(w)'
    BY <1>0, <1>2, <2>2
  <2>4. i \notin InHand'
    BY <1>2, <2>1, <2>3 DEF InHand
  <2>5. i \in 1..(made + MinPool)
    BY <1>0, <1>2
  <2> QED
    BY <1>2, <1>4, <2>4, <2>5 DEF Spent, Entries
<1>5. CASE /\ pool' = [k \in 1..MinPool |-> batch[w] + MinPool - k] \o pool
           /\ pc[w] = "push" /\ batch'[w] = NoId /\ made' = made
  <2>1. /\ batch[w] \in Ids /\ batch[w] + MinPool - 1 <= MaxIds
        /\ Batch(w) = batch[w]..(batch[w] + MinPool - 1) /\ Batch(w) \subseteq InHand
    BY <1>5, Batches DEF TypeOK
  <2>2. Entries(pool') = Batch(w) \cup Entries(pool)
    BY <1>5, <2>1, Pushed DEF TypeOK
  <2>3. InHand' \subseteq InHand
    BY <1>5, WorkSteps, BatchesKept
  <2>4. i \notin Entries(pool') /\ i \notin InHand'
    BY <1>2, <2>1, <2>2, <2>3
  <2> QED
    BY <1>2, <1>5, <2>4 DEF Spent, Entries
<1> QED
  BY <1>3, <1>4, <1>5, WorkSteps

\* The steps of a worker make ids valid that nobody holds, or waste some.
LEMMA WorkOfIdentities ==
    ASSUME TypeOK, TypeOK', Filling, NEW w \in Workers, Work(w) \/ Crash(w)
    PROVE  Registry!Next
<1> USE DEF redisVars, deviceVars, operatorVars
<1>1. ASSUME NEW o \in Outcomes, CreateUser(w, o)
      PROVE  Registry!Make
  <2> DEFINE g == Grantee(w)
             S == Valid' \ Valid
  <2>1. g \in Ids /\ g \notin Spent
    BY <1>1, NextGrant, Batches DEF CreateUser, Spent
  <2>2. UNCHANGED <<pool, made, batch, stored>>
    BY <1>1 DEF CreateUser
  <2>3. \A i \in Ids : acl[i] \subseteq acl'[i] /\ (i # g => acl'[i] = acl[i])
    BY <1>1 DEF TypeOK, RedisUsers, CreateUser
  <2>4. Valid \subseteq Valid' /\ S \subseteq {g}
    BY <2>3 DEF Valid
  <2>5. S \in SUBSET (Ids \ Spent) /\ Valid' = Valid \cup S
    BY <2>1, <2>4
  <2>6. Spent' = Spent
    BY <2>2, SameSpent
  <2> QED
    BY <2>2, <2>5, <2>6 DEF Registry!Make
<1>2. CASE acl' = acl
  BY <1>2, WorkSpends, WorkSteps, Wasted DEF Registry!Next
<1> QED
  BY <1>1, <1>2 DEF Registry!Next, Work, Connect, Fill, PushIds, Crash

\* The steps of a device hand it an id, waste one, or make it forget its own.
LEMMA DeviceOfIdentities ==
    ASSUME TypeOK, TypeOK', IdsAreUnique, Created, AsksWithoutId,
           NEW d \in Devices, Step(d) \/ Lose(d) \/ Restart(d)
    PROVE  [Registry!Next]_(Registry!vars)
<1> USE DEF redisVars, deviceVars, workerVars, operatorVars, Into, Store
<1>0. \A w \in Workers : Batch(w)' = Batch(w)
  BY DEF Step, LoginBurnIn, TakeId, Login, Lose, Restart, Batch
<1>1. made' = made /\ acl' = acl /\ InHand' = InHand /\ Valid' = Valid
  BY <1>0 DEF Step, LoginBurnIn, TakeId, Login, Lose, Restart, InHand, Valid
<1>2. pool # <<>> => /\ Head(pool) \in Entries(pool) /\ Head(pool) \notin Entries(Tail(pool))
                     /\ Entries(Tail(pool)) \subseteq Entries(pool)
                     /\ Entries(pool) \subseteq {Head(pool)} \cup Entries(Tail(pool))
  BY Taken, FirstOrRest DEF TypeOK, IdsAreUnique
<1>3. CASE stored' = stored /\ (pool' = pool \/ (pool # <<>> /\ pool' = Tail(pool)))
  <2>1. Spent \subseteq Spent'
    BY <1>1, <1>2, <1>3 DEF Spent, Entries
  <2> QED
    BY <1>1, <1>3, <2>1, Wasted DEF Registry!Next
<1>4. CASE TakeId(d) /\ pool # <<>>
  <2>1. /\ Head(pool) \in 1..made /\ Head(pool) \in Ids
        /\ Head(pool) \notin InHand /\ Head(pool) \notin Spent
    BY <1>2, <1>4, Taken DEF TypeOK, IdsAreUnique, Created, Spent
  <2>2. Spent' = Spent \cup {Head(pool)}
    <3>1. Entries(pool)' = Entries(Tail(pool))
      BY <1>4 DEF TakeId, Entries
    <3> QED
      BY <1>1, <1>2, <1>4, <2>1, <3>1 DEF Spent
  <2>3. stored[d] = NoId /\ stored' = [stored EXCEPT ![d] = Head(pool)]
    BY <1>4 DEF TakeId, AsksWithoutId
  <2>4. Registry!HandOut(d)
    BY <1>1, <2>1, <2>2, <2>3 DEF Registry!HandOut
  <2> QED
    BY <2>4 DEF Registry!Next
<1>5. CASE Login(d) /\ stored' # stored
  <2>1. /\ stored[d] # NoId /\ acl[stored[d]] = {}
        /\ stored' = [stored EXCEPT ![d] = NoId]
        /\ UNCHANGED <<pool, made, batch>>
    BY <1>5 DEF Login
  <2>2. Spent' = Spent
    BY <2>1, SameSpent
  <2>3. stored[d] \notin Valid
    BY <2>1 DEF Valid
  <2>4. Registry!Forget(d)
    BY <1>1, <2>1, <2>2, <2>3 DEF Registry!Forget
  <2> QED
    BY <2>4 DEF Registry!Next
<1>6. CASE Login(d) /\ stored' = stored
  BY <1>3, <1>6 DEF Login
<1> QED
  BY <1>3, <1>4, <1>5, <1>6 DEF Step, LoginBurnIn, TakeId, Lose, Restart

\* The steps of an operator revoke ids, or waste those of the pool.
LEMMA OperatorOfIdentities ==
    ASSUME TypeOK, TypeOK', Operate
    PROVE  Registry!Next
<1> USE DEF redisVars, deviceVars, workerVars, operatorVars
<1>1. UNCHANGED <<made, batch, stored>>
  BY DEF Operate, Provision, DisconnectSilent, ListUsers, DeleteListed, ClearPool, GiveUp
<1>2. CASE ClearPool
  <2>1. \A w \in Workers : Batch(w)' = Batch(w)
    BY <1>1 DEF Batch
  <2>2. Entries(pool)' = {} /\ InHand' = InHand
    BY <1>2, <2>1 DEF ClearPool, Entries, InHand
  <2>3. Spent \subseteq Spent' /\ acl' = acl
    BY <1>1, <1>2, <2>2 DEF ClearPool, Spent
  <2> QED
    BY <1>1, <2>3, Wasted DEF Registry!Next
<1>3. CASE ~ClearPool
  <2>1. \A i \in Ids : acl'[i] = acl[i] \/ acl'[i] = {}
    BY <1>3, Numbers DEF TypeOK, RedisUsers, Operate, Provision, DisconnectSilent, DelUsers,
                         ListUsers, DeleteListed, GiveUp
  <2>2. pool' = pool
    BY <1>3 DEF Operate, Provision, DisconnectSilent, ListUsers, DeleteListed, GiveUp
  <2> QED
    BY <1>1, <2>1, <2>2, Revoked DEF Registry!Next
<1> QED
  BY <1>2, <1>3

\* Every step of the system is one of Identities, or none.
LEMMA IdentitiesNext ==
    ASSUME IInv, IInv', AsksWithoutId, [Next]_vars
    PROVE  [Registry!Next]_(Registry!vars)
<1>1. CASE UNCHANGED vars
  <2>1. Spent' = Spent /\ Valid' = Valid /\ stored' = stored
    BY <1>1, SameSpent DEF vars, redisVars, deviceVars, workerVars, Valid
  <2> QED
    BY <2>1 DEF Registry!vars
<1> QED
  BY <1>1, WorkOfIdentities, DeviceOfIdentities, OperatorOfIdentities DEF IInv, Next

-----------------------------------------------------------------------------
(* The theorems                                                            *)

\* What holds before the first step.
LEMMA InitInv == Init => IInv
<1> SUFFICES ASSUME Init
             PROVE  IInv
  OBVIOUS
<1>1. /\ pool = <<>> /\ DOMAIN pool = {} /\ Entries(pool) = {} /\ Len(pool) = 0
      /\ made = 0 /\ \A d \in Devices : stored[d] = NoId
      /\ \A w \in Workers : batch[w] = NoId /\ pc[w] = "fill" /\ rules[w] = 0 /\ link[w] = "none"
  BY DEF Init, Entries
<1>2. TypeOK
  <2>1. 0 \in 0..MaxIds /\ 0 \in 0..MaxChores /\ 0 \in 0..MaxFaults /\ 0 \in 0..(2 * MinPool)
    BY Numbers
  <2> QED
    BY <1>1, <2>1 DEF Init, TypeOK
<1>3. Filling /\ Created /\ Entitled /\ PooledIdsWork
  BY <1>1, Numbers DEF Filling, Created, Entitled, PooledIdsWork
<1>4. IdsAreUnique
  <2>1. (\A w \in Workers : Batch(w) = {}) /\ InHand = {}
    BY <1>1 DEF Batch, InHand
  <2> QED
    BY <1>1, <2>1 DEF IdsAreUnique
<1>5. Room
  <2>1. Fillers = {} /\ Cardinality(Fillers) = 0
    BY <1>1, FS_EmptySet DEF Fillers
  <2>2. /\ MinPool * (Cardinality(Workers) + 1) = MinPool * Cardinality(Workers) + MinPool
        /\ MinPool * Cardinality(Workers) \in Nat /\ MinPool * 0 = 0
    BY Counted, Multiples, Numbers
  <2> QED
    BY <1>1, <2>1, <2>2, Numbers DEF Room
<1> QED
  BY <1>2, <1>3, <1>4, <1>5 DEF IInv

\* The inductive invariant of fill_pool and of the devices that take its ids.
THEOREM Supply == Spec => []IInv
<1>1. IInv /\ [Next]_vars => IInv'
  BY NextTypes, NextFilling, NextUnique, NextRights, NextRoom DEF IInv
<1> QED
  BY InitInv, <1>1, PTL DEF Spec

\* Type correctness: what the variables hold stays of the expected form, a
\* worker has ids in hand exactly while it creates them, and a device that is
\* logged in has one.
THEOREM Types == Spec => []TypeOK
<1>1. IInv => TypeOK
  BY DEF IInv
<1> QED
  BY Supply, <1>1, PTL

\* No two devices share an identity, whatever workers, devices and operators do
\* at once and whatever is lost between them.
THEOREM UniqueIds == Spec => []IdsAreUnique
<1>1. IInv => IdsAreUnique
  BY DEF IInv
<1> QED
  BY Supply, <1>1, PTL

\* fill_pool pushes only ids whose user was created with all its rights.
THEOREM WorkingIds == Spec => []PooledIdsWork
<1>1. IInv => PooledIdsWork
  BY DEF IInv
<1> QED
  BY Supply, <1>1, PTL

\* The pool stays below the minimum times one more than there are workers.
THEOREM BoundedPool == Spec => []PoolBounded
<1>1. IInv => PoolBounded
  <2> SUFFICES ASSUME IInv
               PROVE  PoolBounded
    OBVIOUS
  <2>1. /\ Len(pool) \in Nat /\ MinPool * Cardinality(Fillers) \in Nat
        /\ MinPool * (Cardinality(Workers) + 1) \in Nat
    BY Counted, Multiples, Numbers DEF IInv, TypeOK
  <2> QED
    BY <2>1 DEF IInv, Room, PoolBounded
<1> QED
  BY Supply, <1>1, PTL

\* The pool of ids keeps the promises of Identities: an id is handed out once
\* for all time, kept while it is valid, and dead once revoked, whichever step
\* of fill_pool fails and whatever the operators do meanwhile.
THEOREM WorkersImplementIdentities == Spec => ImplementsIdentities
<1>1. Init => Registry!Init /\ AsksWithoutId
  BY Numbers DEF Init, Registry!Init, AsksWithoutId, Spent, Valid, RedisUsers
<1>2. AsksWithoutId /\ IInv /\ [Next]_vars => AsksWithoutId'
  BY NextAsks DEF IInv
<1>3. IInv /\ IInv' /\ AsksWithoutId /\ [Next]_vars => [Registry!Next]_(Registry!vars)
  BY IdentitiesNext
<1>4. Spec => Registry!Init /\ [][Registry!Next]_(Registry!vars)
  BY <1>1, <1>2, <1>3, Supply, PTL DEF Spec
<1> QED
  BY <1>4 DEF ImplementsIdentities, Registry!Spec
=============================================================================

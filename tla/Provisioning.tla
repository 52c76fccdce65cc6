---------------------------- MODULE Provisioning ----------------------------
(***************************************************************************)
(* How a device gets an identity, and loses it again.                      *)
(*                                                                         *)
(* Registrar workers keep a redis list of unused ids filled; each id has a *)
(* redis user of its own, which they create first.  A device logs in with  *)
(* the burn-in user, takes an id, and logs in as that user.  Operators may *)
(* revoke every user, or those of devices that have gone silent (which     *)
(* they are, and what else is known of a device, is in Diagnostics).  Each *)
(* redis command is a step.                                                *)
(***************************************************************************)
EXTENDS Naturals, Sequences, FiniteSets, RedisLink

CONSTANTS
    Workers,     \* the registrar processes
    Devices,
    MinPool,     \* registration_pool_minimum
    MaxIds,      \* bound of the model: ids the workers may create
    MaxChores,   \* bound of the model: what operators do
    AllowList    \* users that operators keep: the burn-in user, or none

ASSUME ProvisioningAssumption ==
    /\ MinPool \in Nat \ {0} /\ MaxIds \in Nat
    /\ MaxChores \in Nat
    /\ AllowList \subseteq {MaxIds + 1}
    /\ IsFiniteSet(Workers)

VARIABLES
    pool,        \* the list of unused ids, head first
    made,        \* ids 1..made were created; each new one is unlike the others
    acl,         \* acl[i]: what redis lets user i do; no right, no such user
    stored,      \* stored[d]: the id in the flash memory of device d, or NoId
    conn,        \* conn[d]: what the connection of device d is good for
    link,        \* link[w]: the redis connection of worker w
    pc,          \* pc[w]: where worker w is in its frame
    batch,       \* batch[w]: the first of the ids w creates, or NoId
    rules,       \* rules[w]: how many SETUSER commands w has issued for them
    chore,       \* where the operator is
    names,       \* the users whom the operator is about to delete
    chores,      \* what operators did so far, at most MaxChores
    doomed       \* history: revoked ids that may wait in the pool

redisVars == <<pool, made, acl>>
deviceVars == <<stored, conn>>
workerVars == <<link, pc, batch, rules>>
operatorVars == <<chore, names, chores>>
vars == <<redisVars, deviceVars, workerVars, operatorVars, doomed, faults>>

Ids == 1..MaxIds
NoId == 0
BurnIn == MaxIds + 1
RedisUsers == Ids \cup {BurnIn}
Rights == {"pop", "report"}
Entries(s) == {s[k] : k \in DOMAIN s}

\* The ids that a worker is creating.
Batch(w) == IF batch[w] = NoId THEN {} ELSE batch[w]..(batch[w] + MinPool - 1)
InHand == UNION {Batch(w) : w \in Workers}

TypeOK ==
    /\ pool \in Seq(Ids)
    /\ made \in 0..MaxIds
    /\ acl \in [RedisUsers -> SUBSET Rights]
    /\ stored \in [Devices -> Ids \cup {NoId}]
    /\ conn \in [Devices -> {"off", "burn-in", "login", "on", "waiting", "cut"}]
    /\ link \in [Workers -> {"none", "up", "broken"}]
    /\ pc \in [Workers -> {"fill", "create", "push"}]
    /\ batch \in [Workers -> Ids \cup {NoId}]
    /\ rules \in [Workers -> 0..(2 * MinPool)]
    /\ chore \in {"none", "confirm", "clear"}
    /\ names \in SUBSET RedisUsers
    /\ chores \in 0..MaxChores
    /\ doomed \in SUBSET Ids
    /\ faults \in 0..MaxFaults
    /\ \A w \in Workers :
         /\ batch[w] # NoId <=> pc[w] \in {"create", "push"}
         /\ batch[w] # NoId => batch[w] + MinPool - 1 <= made
         /\ pc[w] # "fill" => link[w] # "none"
    /\ \A d \in Devices : conn[d] \in {"login", "on"} => stored[d] # NoId

Init ==
    /\ pool = <<>> /\ made = 0
    /\ acl = [u \in RedisUsers |-> {}]
    /\ stored = [d \in Devices |-> NoId]
    /\ conn = [d \in Devices |-> "off"]
    /\ link = [w \in Workers |-> "none"]
    /\ pc = [w \in Workers |-> "fill"]
    /\ batch = [w \in Workers |-> NoId]
    /\ rules = [w \in Workers |-> 0]
    /\ chore = "none" /\ names = {} /\ chores = 0
    /\ doomed = {}
    /\ faults = 0

-----------------------------------------------------------------------------
(* Filling the pool                                                        *)

To(w, place) == pc' = [pc EXCEPT ![w] = place]
Relink(w, l) == link' = [link EXCEPT ![w] = l]

\* Mutant: the worker still believes to have ids in hand.
EndFrameKeepsBatch(w) ==
    /\ To(w, "fill")
    /\ Relink(w, "none")
    /\ UNCHANGED <<batch, rules>>

\* An error that leaves the frame takes the connection with it.
EndFrame(w) ==
    /\ To(w, "fill")
    /\ Relink(w, "none")
    /\ batch' = [batch EXCEPT ![w] = NoId]
    /\ rules' = [rules EXCEPT ![w] = 0]

Connect(w) ==
    /\ pc[w] = "fill" /\ link[w] = "none"
    /\ Relink(w, "up")
    /\ UNCHANGED <<redisVars, deviceVars, pc, batch, rules,
                   operatorVars, doomed, faults>>

\* Mutant: the length is not compared with the minimum.
LackingAlways == TRUE

\* Mutant: one id less will do.
LackingLess == Len(pool) + 1 < MinPool

\* Fewer ids wait than there should be.
Lacking == Len(pool) < MinPool

\* fill_pool: LLEN.  As many ids as there should be are created, and not only
\* those that are missing.  (Without room below MaxIds nothing is created.)
Fill(w, o) ==
    /\ pc[w] = "fill" /\ link[w] # "none"
    /\ Issue(link[w], o)
    /\ IF o # "ok"
       THEN EndFrame(w) /\ UNCHANGED made
       ELSE IF Lacking /\ made + MinPool <= MaxIds
            THEN /\ batch' = [batch EXCEPT ![w] = made + 1]
                 /\ made' = made + MinPool
                 /\ To(w, "create")
                 /\ UNCHANGED <<link, rules>>
            ELSE UNCHANGED <<made, workerVars>>
    /\ UNCHANGED <<pool, acl, deviceVars, operatorVars, doomed>>

\* The right that the next SETUSER grants, and to whom: for every id first
\* lpop and blpop on its own list, then rpush on the incoming list.
Granted(w) == IF rules[w] % 2 = 0 THEN "pop" ELSE "report"
Grantee(w) == batch[w] + rules[w] \div 2

\* Mutant: a connection that failed is replaced at once.
CreateUserRelinks(w, o) ==
    /\ pc[w] = "create"
    /\ Issue(link[w], o)
    /\ Relink(w, "up")
    /\ acl' = IF Applied(o) THEN [acl EXCEPT ![Grantee(w)] = @ \cup {Granted(w)}] ELSE acl
    /\ rules' = [rules EXCEPT ![w] = @ + 1]
    /\ To(w, IF rules[w] + 1 = 2 * MinPool THEN "push" ELSE "create")
    /\ UNCHANGED <<pool, made, deviceVars, batch,
                   operatorVars, doomed>>

\* fill_pool: ACL SETUSER, which creates the user or adds to its rights.  An
\* error is logged, and the next command is issued on the same connection.
CreateUser(w, o) ==
    /\ pc[w] = "create"
    /\ Issue(link[w], o)
    /\ Relink(w, LinkAfter(o))
    /\ acl' = IF Applied(o) THEN [acl EXCEPT ![Grantee(w)] = @ \cup {Granted(w)}] ELSE acl
    /\ rules' = [rules EXCEPT ![w] = @ + 1]
    /\ To(w, IF rules[w] + 1 = 2 * MinPool THEN "push" ELSE "create")
    /\ UNCHANGED <<pool, made, deviceVars, batch,
                   operatorVars, doomed>>

\* fill_pool: LPUSH of all new ids, which leaves the last one at the head.
PushIds(w, o) ==
    /\ pc[w] = "push"
    /\ Issue(link[w], o)
    /\ pool' = IF Applied(o)
               THEN [k \in 1..MinPool |-> batch[w] + MinPool - k] \o pool ELSE pool
    /\ IF o # "ok"
       THEN EndFrame(w)
       ELSE /\ To(w, "fill")
            /\ batch' = [batch EXCEPT ![w] = NoId]
            /\ rules' = [rules EXCEPT ![w] = 0]
            /\ UNCHANGED link
    /\ UNCHANGED <<made, acl, deviceVars, operatorVars, doomed>>

\* The process dies between any two steps and is started again.
Crash(w) ==
    /\ Fault
    /\ EndFrame(w)
    /\ UNCHANGED <<redisVars, deviceVars, operatorVars, doomed>>

-----------------------------------------------------------------------------
(* Devices                                                                 *)

Into(d, c) == conn' = [conn EXCEPT ![d] = c]
Store(d, i) == stored' = [stored EXCEPT ![d] = i]

\* A device without an id logs in with the burn-in user it was built with.
LoginBurnIn(d) ==
    /\ conn[d] = "off" /\ stored[d] = NoId
    /\ acl[BurnIn] # {}
    /\ Into(d, "burn-in")
    /\ UNCHANGED <<redisVars, stored, workerVars, operatorVars, doomed, faults>>

\* Mutant: the id is looked at, and stays in the pool.
TakeIdPeeks(d) ==
    /\ conn[d] = "burn-in"
    /\ IF pool = <<>>
       THEN Into(d, "waiting") /\ UNCHANGED stored
       ELSE Store(d, Head(pool)) /\ Into(d, "login")
    /\ UNCHANGED <<pool, made, acl, workerVars,
                   operatorVars, doomed, faults>>

\* LPOP of an id, which is stored before it is tried.  The reply of an empty
\* pool tells the device nothing, and it waits for another.
TakeId(d) ==
    /\ conn[d] = "burn-in"
    /\ IF pool = <<>>
       THEN Into(d, "waiting") /\ UNCHANGED <<pool, stored>>
       ELSE Store(d, Head(pool)) /\ Into(d, "login") /\ pool' = Tail(pool)
    /\ UNCHANGED <<made, acl, workerVars,
                   operatorVars, doomed, faults>>

\* Mutant: an id that is refused is kept.
LoginKeepsId(d) ==
    /\ conn[d] \in {"off", "login"} /\ stored[d] # NoId
    /\ IF acl[stored[d]] # {}
       THEN Into(d, "on")
       ELSE Into(d, "off")
    /\ UNCHANGED <<redisVars, stored, workerVars, operatorVars, doomed, faults>>

\* Mutant: an id that is refused goes back to the pool.
LoginReturnsId(d) ==
    /\ conn[d] \in {"off", "login"} /\ stored[d] # NoId
    /\ IF acl[stored[d]] # {}
       THEN Into(d, "on") /\ UNCHANGED <<pool, stored>>
       ELSE Into(d, "off") /\ Store(d, NoId) /\ pool' = Append(pool, stored[d])
    /\ UNCHANGED <<made, acl, workerVars, operatorVars, doomed, faults>>

\* AUTH as the stored id, on the connection that asked for it or, later, on a
\* new one.  WRONGPASS removes the id, and after a while the connection.
Login(d) ==
    /\ conn[d] \in {"off", "login"} /\ stored[d] # NoId
    /\ IF acl[stored[d]] # {}
       THEN Into(d, "on") /\ UNCHANGED stored
       ELSE Into(d, "off") /\ Store(d, NoId)
    /\ UNCHANGED <<redisVars, workerVars, operatorVars, doomed, faults>>

\* What becomes of a connection that ends: only a device that has sent its
\* credentials gives up on the answer, any other waits for it from then on.
Ended(c) ==
    CASE c = "login" -> "off"
      [] c = "burn-in" -> "waiting"
      [] c = "on" -> "cut"
      [] OTHER -> c

\* The connection is lost, without or with an id on its way.
Lose(d) ==
    /\ conn[d] \in {"burn-in", "login", "on"}
    /\ Fault
    /\ Into(d, Ended(conn[d]))
    /\ pool' \in {pool} \cup (IF conn[d] = "burn-in" /\ pool # <<>> THEN {Tail(pool)} ELSE {})
    /\ UNCHANGED <<made, acl, stored, workerVars, operatorVars, doomed>>

\* The device is switched off and on, which counts as a fault unless it was of
\* no use before.
Restart(d) ==
    /\ conn[d] # "off"
    /\ IF conn[d] \in {"waiting", "cut"} THEN UNCHANGED faults ELSE Fault
    /\ Into(d, "off")
    /\ UNCHANGED <<redisVars, stored, workerVars, operatorVars, doomed>>

-----------------------------------------------------------------------------
(* Operators                                                               *)

Chore(c, ns) == chore' = c /\ names' = ns

StartChore ==
    /\ chore = "none" /\ chores < MaxChores
    /\ chores' = chores + 1

\* provision: the burn-in user, who may pop the pool.
Provision ==
    /\ acl[BurnIn] = {}
    /\ acl' = [acl EXCEPT ![BurnIn] = {"pop"}]
    /\ UNCHANGED <<pool, made, deviceVars, workerVars, operatorVars, doomed, faults>>

\* The user a connection of a device was authenticated as.
ConnectedAs(d) ==
    CASE conn[d] = "on" -> stored[d]
      [] conn[d] \in {"burn-in", "login"} -> BurnIn
      [] OTHER -> NoId

\* ACL DELUSER: a user's connections are closed with it.
DelUsers(us) ==
    /\ acl' = [u \in RedisUsers |-> IF u \in us THEN {} ELSE acl[u]]
    /\ conn' = [d \in Devices |->
                 IF ConnectedAs(d) \in us THEN Ended(conn[d]) ELSE conn[d]]

\* clean_disconnects: the users of devices that had an id go.
DisconnectSilent(is) ==
    /\ StartChore
    /\ is # {} /\ is \cap (Entries(pool) \cup InHand) = {}
    /\ DelUsers(is)
    /\ UNCHANGED <<pool, made, stored, workerVars, chore, names, doomed, faults>>

\* invalidate_acls: every user that is not on the allow list, for the operator
\* to confirm ...
ListUsers ==
    LET found == {u \in RedisUsers : acl[u] # {}} \ AllowList IN
      /\ StartChore
      /\ found # {}
      /\ Chore("confirm", found)
      /\ UNCHANGED <<redisVars, deviceVars, workerVars, doomed, faults>>

\* ... is deleted ...
DeleteListed ==
    /\ chore = "confirm"
    /\ DelUsers(names)
    /\ doomed' = doomed \cup (names \ {BurnIn})
    /\ Chore("clear", {})
    /\ UNCHANGED <<pool, made, stored, workerVars, chores, faults>>

\* ... and then the pool, so that of the revoked ids only those that a worker
\* has yet to push can still be handed out.
ClearPool ==
    /\ chore = "clear"
    /\ pool' = <<>>
    /\ doomed' = doomed \cap (InHand \cup {stored[d] : d \in Devices})
    /\ Chore("none", {})
    /\ UNCHANGED <<made, acl, deviceVars, workerVars, chores, faults>>

\* The operator says no, or a command fails.
GiveUp ==
    /\ chore # "none"
    /\ Chore("none", {})
    /\ UNCHANGED <<redisVars, deviceVars, workerVars, chores, doomed, faults>>

-----------------------------------------------------------------------------
(* The specification                                                       *)

Work(w) ==
    \/ Connect(w)
    \/ \E o \in Outcomes : Fill(w, o)
    \/ \E o \in Outcomes : CreateUser(w, o)
    \/ \E o \in Outcomes : PushIds(w, o)

Step(d) ==
    \/ LoginBurnIn(d)
    \/ TakeId(d)
    \/ Login(d)

Operate ==
    \/ Provision
    \/ \E is \in SUBSET (1..made) : DisconnectSilent(is)
    \/ ListUsers
    \/ DeleteListed
    \/ ClearPool
    \/ GiveUp

Next ==
    \/ \E w \in Workers : Work(w) \/ Crash(w)
    \/ \E d \in Devices : Step(d) \/ Lose(d) \/ Restart(d)
    \/ Operate

Spec == Init /\ [][Next]_vars

\* A worker runs frame after frame, a device its loop; operators need not act.
FairSpec ==
    /\ Spec
    /\ \A w \in Workers : WF_vars(Work(w))
    /\ \A d \in Devices : WF_vars(Step(d))

-----------------------------------------------------------------------------
(* What must be true                                                       *)

\* No two devices ever share an identity: an id waits in the pool once, or is
\* being created by one worker, or is stored by one device.
IdsAreUnique ==
    /\ \A j, k \in DOMAIN pool : pool[j] = pool[k] => j = k
    /\ \A d \in Devices : stored[d] \notin Entries(pool) \cup InHand
    /\ InHand \cap Entries(pool) = {}
    /\ \A d, e \in Devices : stored[d] = stored[e] /\ stored[d] # NoId => d = e
    /\ \A v, w \in Workers : Batch(v) \cap Batch(w) # {} => v = w

\* An id in the pool is one a device can work with, although creating its user
\* may fail halfway and no error stops the push: only the operator who revokes
\* every user leaves others, and once done only those a worker had in hand.
PooledIdsWork ==
    \A i \in Entries(pool) : acl[i] = Rights \/ i \in doomed

\* However many workers find the pool low at once, it stays bounded.
PoolBounded ==
    Len(pool) < MinPool * (Cardinality(Workers) + 1)

\* Ids that were created and can not be handed out any more.
Spent == (1..made) \ (Entries(pool) \cup InHand)

\* The users of ids.
Valid == {i \in Ids : acl[i] # {}}

\* An id is handed out once for all time, its device keeps it while it is valid,
\* and one that was handed out and revoked is never valid again, although any
\* step of creating ids may fail, be repeated or overlap with a revocation.
Registry == INSTANCE Identities WITH held <- stored, spent <- Spent, valid <- Valid
ImplementsIdentities == Registry!Spec

\* A device comes to work, through revoked ids, restarts and whatever was in
\* the pool; unless it waits for an id from an empty pool, or on a connection
\* that has ended, there is no burn-in user, or it was handed half a user.
WorksEventually ==
    \A d \in Devices :
        []<>(\/ conn[d] = "on" /\ acl[stored[d]] = Rights
             \/ conn[d] \in {"waiting", "cut"}
             \/ acl[BurnIn] = {}
             \/ stored[d] \in doomed /\ acl[stored[d]] # {})

\* The pool does not stay empty, whatever breaks while it is filled.
RefilledEventually ==
    pool = <<>> /\ made + MinPool <= MaxIds ~> pool # <<>> \/ made + MinPool > MaxIds
=============================================================================

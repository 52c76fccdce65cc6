------------------------ MODULE DeviceScheduleProofs ------------------------
(***************************************************************************)
(* What DeviceSchedule promises of one registrar process, for every finite *)
(* set of devices, any number of requests and faults, and as many uuids as *)
(* it takes.  With two processes the run of a nonce may be carried out     *)
(* before that nonce is stored.                                            *)
(***************************************************************************)
EXTENDS DeviceSchedule, FiniteSetTheorems, TLAPS

OneWorker == \A v, w \in Workers : v = w

\* There is always another uuid.
UuidsSuffice == \A S : IsFiniteSet(S) => \E n \in Nonces : n \notin S

Places == {"find", "check", "batch", "begin", "act", "enqueue"}
Busy == {"begin", "act", "enqueue"}

\* A job works with the document as it is stored, but for the time, and was
\* not stale when it read it.
ReadIsStored ==
    \A w \in Workers : pc[w] = "act" =>
        /\ ~Stale(job[w])
        /\ read[w].refresh_nonce = doc[job[w].device].refresh_nonce
        /\ read[w].latest_refresh_nonce = doc[job[w].device].latest_refresh_nonce
        /\ read[w].last_executed = "old" => Due(job[w].device)

\* Only a toggle enqueues another job.
TogglesEnqueue == \A w \in Workers : pc[w] = "enqueue" => job[w].what = "toggle"

IsOwed(d, n) == Run(d, n) \in Present \/ n \in lost

\* Where the nonces of a document differ, the run of the stored one exists.
StoredIsOwed ==
    \A d \in Devices : ~Eligible(d) =>
        doc[d].refresh_nonce # NoNonce /\ IsOwed(d, doc[d].refresh_nonce)

\* So does the run of a nonce that is about to be stored, and until it is,
\* the device stays due.
UpdatesAreOwed ==
    \A w \in Workers, d \in Devices :
        /\ d \in todo[w] => Due(d)
        /\ updates[w][d] # NoNonce => Due(d) /\ IsOwed(d, updates[w][d])

DueIsNotRun == \A d \in Devices : Due(d) => runs[d] = 0

IsNonced(j) == j.what = "run" /\ j.nonce # NoNonce

\* No two jobs have the same nonce.
RunsDiffer ==
    \A i \in DOMAIN jobs : IsNonced(jobs[i]) =>
        /\ \A k \in DOMAIN jobs : jobs[k] = jobs[i] => k = i
        /\ \A w \in Workers : job[w] # jobs[i]

\* What was run has no second job.
RunOnce ==
    \A d \in Devices : doc[d].refresh_nonce # NoNonce =>
        /\ runs[d] <= 1
        /\ runs[d] = 1 => Run(d, doc[d].refresh_nonce) \notin Present

IInv ==
    /\ TypeOK
    /\ ReadIsStored /\ TogglesEnqueue /\ StoredIsOwed /\ UpdatesAreOwed
    /\ DueIsNotRun /\ RunsDiffer /\ RunOnce

-----------------------------------------------------------------------------
(* Types                                                                   *)

LEMMA TypeParts ==
    ASSUME TypeOK
    PROVE  /\ doc \in [Devices -> Documents] /\ jobs \in Seq(Jobs)
           /\ link \in [Workers -> {"up", "broken"}] /\ pc \in [Workers -> Places]
           /\ todo \in [Workers -> SUBSET Devices]
           /\ updates \in [Workers -> [Devices -> AnyNonce]]
           /\ job \in [Workers -> Jobs \cup {NoJob}] /\ read \in [Workers -> Documents]
           /\ runs \in [Devices -> Nat] /\ lost \in SUBSET Nonces
           /\ toggles \in 0..MaxToggles /\ faults \in 0..MaxFaults
           /\ \A w \in Workers :
                /\ job[w] # NoJob <=> pc[w] \in Busy
                /\ pc[w] # "check" => todo[w] = {} /\ \A d \in Devices : updates[w][d] = NoNonce
  BY DEF TypeOK, Places, Busy

LEMMA JobForms ==
    ASSUME NEW j \in Jobs
    PROVE  /\ j.device \in Devices
           /\ \/ j.what = "run" /\ j.nonce \in AnyNonce /\ j = Run(j.device, j.nonce)
              \/ j.what = "toggle" /\ j.on \in BOOLEAN /\ j = Toggle(j.device, j.on)
  BY DEF Jobs, Run, Toggle

LEMMA JobKinds ==
    /\ \A d \in Devices, n \in AnyNonce :
         /\ Run(d, n) \in Jobs /\ Run(d, n) # NoJob /\ Run(d, n).what = "run"
         /\ Run(d, n).nonce = n /\ Run(d, n).device = d
    /\ \A d \in Devices, b \in BOOLEAN :
         /\ Toggle(d, b) \in Jobs /\ Toggle(d, b) # NoJob /\ Toggle(d, b).what = "toggle"
         /\ Toggle(d, b).on = b /\ Toggle(d, b).device = d
<1>1. ASSUME NEW d \in Devices, NEW n \in AnyNonce
      PROVE  /\ Run(d, n) \in Jobs /\ Run(d, n).what = "run"
             /\ Run(d, n).nonce = n /\ Run(d, n).device = d
  BY DEF Jobs, Run
<1>2. ASSUME NEW d \in Devices, NEW b \in BOOLEAN
      PROVE  /\ Toggle(d, b) \in Jobs /\ Toggle(d, b).what = "toggle"
             /\ Toggle(d, b).on = b /\ Toggle(d, b).device = d
  BY DEF Jobs, Toggle
<1>3. \A j \in Jobs : j # NoJob
  BY ScheduleAssumption
<1> QED
  BY <1>1, <1>2, <1>3

LEMMA FreshIsDocument == Fresh \in Documents
  BY DEF Fresh, Documents, AnyNonce

\* What a step of one worker leaves to the others.
Moves(w, place, t, u, j, r) ==
    /\ pc' = [pc EXCEPT ![w] = place]
    /\ todo' = [todo EXCEPT ![w] = t]
    /\ updates' = [updates EXCEPT ![w] = u]
    /\ job' = [job EXCEPT ![w] = j]
    /\ read' = [read EXCEPT ![w] = r]

LEMMA MoveTypes ==
    ASSUME TypeOK, NEW w \in Workers, NEW place \in Places, NEW t \in SUBSET Devices,
           NEW u \in [Devices -> AnyNonce], NEW j \in Jobs \cup {NoJob}, NEW r \in Documents,
           Moves(w, place, t, u, j, r),
           j # NoJob <=> place \in Busy,
           place # "check" => t = {} /\ \A d \in Devices : u[d] = NoNonce
    PROVE  /\ pc' \in [Workers -> Places] /\ todo' \in [Workers -> SUBSET Devices]
           /\ updates' \in [Workers -> [Devices -> AnyNonce]]
           /\ job' \in [Workers -> Jobs \cup {NoJob}] /\ read' \in [Workers -> Documents]
           /\ \A v \in Workers :
                /\ job'[v] # NoJob <=> pc'[v] \in Busy
                /\ pc'[v] # "check" => /\ todo'[v] = {}
                                       /\ \A d \in Devices : updates'[v][d] = NoNonce
           /\ pc'[w] = place /\ todo'[w] = t /\ updates'[w] = u /\ job'[w] = j /\ read'[w] = r
           /\ \A v \in Workers \ {w} : job'[v] = job[v]
<1>1. /\ pc' \in [Workers -> Places] /\ todo' \in [Workers -> SUBSET Devices]
      /\ pc'[w] = place /\ todo'[w] = t
      /\ \A v \in Workers \ {w} : pc'[v] = pc[v] /\ todo'[v] = todo[v]
  BY TypeParts DEF Moves
<1>2. /\ updates' \in [Workers -> [Devices -> AnyNonce]] /\ updates'[w] = u
      /\ \A v \in Workers \ {w} : updates'[v] = updates[v]
  BY TypeParts DEF Moves
<1>3. /\ job' \in [Workers -> Jobs \cup {NoJob}] /\ job'[w] = j
      /\ \A v \in Workers \ {w} : job'[v] = job[v]
  BY TypeParts DEF Moves
<1>4. read' \in [Workers -> Documents] /\ read'[w] = r
  BY TypeParts DEF Moves
<1>5. ASSUME NEW v \in Workers
      PROVE  /\ job'[v] # NoJob <=> pc'[v] \in Busy
             /\ pc'[v] # "check" => todo'[v] = {} /\ \A d \in Devices : updates'[v][d] = NoNonce
  <2>1. CASE v = w
    BY <1>1, <1>2, <1>3, <2>1
  <2>2. CASE v # w
    <3>1. /\ job[v] # NoJob <=> pc[v] \in Busy
          /\ pc[v] # "check" => todo[v] = {} /\ \A d \in Devices : updates[v][d] = NoNonce
      BY TypeParts, Zenon
    <3>2. pc'[v] = pc[v] /\ job'[v] = job[v] /\ todo'[v] = todo[v] /\ updates'[v] = updates[v]
      BY <1>1, <1>2, <1>3, <2>2
    <3> QED
      BY <3>1, <3>2
  <2> QED
    BY <2>1, <2>2
<1> QED
  BY <1>1, <1>2, <1>3, <1>4, <1>5

\* A function that is written over with its own value is unchanged.
LEMMA StaysPut ==
    ASSUME TypeOK, NEW w \in Workers
    PROVE  /\ pc = [pc EXCEPT ![w] = pc[w]] /\ todo = [todo EXCEPT ![w] = todo[w]]
           /\ updates = [updates EXCEPT ![w] = updates[w]]
           /\ job = [job EXCEPT ![w] = job[w]] /\ read = [read EXCEPT ![w] = read[w]]
           /\ pc[w] \in Places /\ todo[w] \in SUBSET Devices
           /\ updates[w] \in [Devices -> AnyNonce] /\ job[w] \in Jobs \cup {NoJob}
           /\ read[w] \in Documents
  BY TypeParts

-----------------------------------------------------------------------------
(* New nonces                                                              *)

\* The values of a function on a finite set are finitely many.
LEMMA ValuesFinite ==
    ASSUME NEW S, IsFiniteSet(S), NEW f
    PROVE  IsFiniteSet({f[x] : x \in S})
<1> DEFINE T == {f[x] : x \in S}
           g == [x \in S |-> f[x]]
<1>1. g \in Surjection(S, T)
  BY DEF Surjection
<1> QED
  BY <1>1, FS_Surjection

LEMMA NewNonceIsNew ==
    ASSUME TypeOK, UuidsSuffice
    PROVE  NewNonce \in Nonces /\ IsNew(NewNonce)
<1> DEFINE stored == [d \in Devices |-> doc[d].refresh_nonce]
           latest == [d \in Devices |-> doc[d].latest_refresh_nonce]
           queued == [i \in DOMAIN jobs |-> jobs[i].nonce]
           held == [w \in Workers |-> job[w].nonce]
           due == [p \in Workers \X Devices |-> updates[p[1]][p[2]]]
           known == [w \in Workers |-> read[w].refresh_nonce]
           before == [w \in Workers |-> read[w].latest_refresh_nonce]
           used == {stored[d] : d \in Devices} \cup {latest[d] : d \in Devices}
                     \cup {queued[i] : i \in DOMAIN jobs} \cup {held[w] : w \in Workers}
                     \cup {due[p] : p \in Workers \X Devices}
                     \cup {known[w] : w \in Workers} \cup {before[w] : w \in Workers}
<1>1. IsFiniteSet(Devices) /\ IsFiniteSet(Workers) /\ IsFiniteSet(Workers \X Devices)
  BY ScheduleAssumption, FS_Product
<1>2. IsFiniteSet(DOMAIN jobs)
  <2>1. Len(jobs) \in Nat /\ DOMAIN jobs = 1..Len(jobs)
    BY TypeParts
  <2> QED
    BY <2>1, FS_Interval
<1>3. /\ IsFiniteSet({stored[d] : d \in Devices}) /\ IsFiniteSet({latest[d] : d \in Devices})
      /\ IsFiniteSet({queued[i] : i \in DOMAIN jobs}) /\ IsFiniteSet({held[w] : w \in Workers})
      /\ IsFiniteSet({due[p] : p \in Workers \X Devices})
      /\ IsFiniteSet({known[w] : w \in Workers}) /\ IsFiniteSet({before[w] : w \in Workers})
  <2> HIDE DEF stored, latest, queued, held, due, known, before
  <2> QED
    BY <1>1, <1>2, ValuesFinite
<1>4. IsFiniteSet(used)
  <2> DEFINE A == {stored[d] : d \in Devices}
             B == {latest[d] : d \in Devices}
             C == {queued[i] : i \in DOMAIN jobs}
             D == {held[w] : w \in Workers}
             E == {due[p] : p \in Workers \X Devices}
             F == {known[w] : w \in Workers}
             G == {before[w] : w \in Workers}
  <2>1. /\ IsFiniteSet(A) /\ IsFiniteSet(B) /\ IsFiniteSet(C) /\ IsFiniteSet(D)
        /\ IsFiniteSet(E) /\ IsFiniteSet(F) /\ IsFiniteSet(G)
    BY <1>3
  <2> HIDE DEF A, B, C, D, E, F, G
  <2>2. IsFiniteSet(A \cup B) /\ IsFiniteSet(C \cup D) /\ IsFiniteSet(E \cup F)
    BY <2>1, FS_Union
  <2>3. IsFiniteSet((A \cup B) \cup (C \cup D)) /\ IsFiniteSet((E \cup F) \cup G)
    BY <2>1, <2>2, FS_Union
  <2>4. IsFiniteSet(((A \cup B) \cup (C \cup D)) \cup ((E \cup F) \cup G))
    BY <2>3, FS_Union
  <2>5. A \cup B \cup C \cup D \cup E \cup F \cup G
          = ((A \cup B) \cup (C \cup D)) \cup ((E \cup F) \cup G)
    OBVIOUS
  <2>6. used = A \cup B \cup C \cup D \cup E \cup F \cup G
    BY DEF A, B, C, D, E, F, G
  <2> QED
    BY <2>4, <2>5, <2>6
<1>5. PICK n \in Nonces : n \notin used
  <2> HIDE DEF used
  <2> QED
    BY <1>4 DEF UuidsSuffice
<1>6. IsNew(n)
  <2>1. \A d \in Devices : n \notin {doc[d].refresh_nonce, doc[d].latest_refresh_nonce}
    <3> SUFFICES ASSUME NEW d \in Devices
                 PROVE  n # doc[d].refresh_nonce /\ n # doc[d].latest_refresh_nonce
      OBVIOUS
    <3>1. n # stored[d] /\ n # latest[d]
      BY <1>5
    <3> QED
      BY <3>1
  <2>2. ASSUME NEW j \in Present, j.what = "run"
        PROVE  j.nonce # n
    <3>1. CASE j \in Waiting
      <4>1. PICK i \in DOMAIN jobs : j = jobs[i]
        BY <3>1 DEF Waiting
      <4>2. n # queued[i]
        BY <1>5
      <4> QED
        BY <4>1, <4>2
    <3>2. CASE j \in {job[w] : w \in Workers}
      <4>1. PICK w \in Workers : j = job[w]
        BY <3>2
      <4>2. n # held[w]
        BY <1>5
      <4> QED
        BY <4>1, <4>2
    <3> QED
      BY <3>1, <3>2 DEF Present
  <2>3. ASSUME NEW w \in Workers
        PROVE  /\ n \notin {updates[w][d] : d \in Devices}
               /\ n \notin {read[w].refresh_nonce, read[w].latest_refresh_nonce}
    <3>1. ASSUME NEW d \in Devices
          PROVE  n # updates[w][d]
      <4>1. <<w, d>> \in Workers \X Devices
        OBVIOUS
      <4>2. n # due[<<w, d>>]
        BY <1>5, <4>1
      <4> QED
        BY <4>1, <4>2
    <3>2. n # known[w] /\ n # before[w]
      BY <1>5
    <3> QED
      BY <3>1, <3>2
  <2> QED
    BY <2>1, <2>2, <2>3 DEF IsNew
<1> HIDE DEF used
<1> QED
  BY <1>6 DEF NewNonce

-----------------------------------------------------------------------------
(* What each step does to its worker                                       *)

LEMMA CheckMoves ==
    ASSUME TypeOK, NEW w \in Workers
    PROVE  /\ Find(w) =>
                /\ Moves(w, "check", todo'[w], updates[w], job[w], read[w])
                /\ \/ todo'[w] = {d \in Devices : Due(d) /\ Eligible(d)}
                   \/ todo'[w] = todo[w]
           /\ \A d \in todo[w], o \in Outcomes : Refresh(w, d, o) =>
                Moves(w, pc[w], todo[w] \ {d}, [updates[w] EXCEPT ![d] = NewNonce],
                      job[w], read[w])
           /\ \A d \in Devices : StoreNonce(w, d) =>
                Moves(w, pc[w], todo[w], [updates[w] EXCEPT ![d] = NoNonce], job[w], read[w])
           /\ EndCheck(w) => Moves(w, "batch", todo[w], updates[w], job[w], read[w])
<1> USE DEF To, Moves
<1>1. /\ pc = [pc EXCEPT ![w] = pc[w]] /\ todo = [todo EXCEPT ![w] = todo[w]]
      /\ updates = [updates EXCEPT ![w] = updates[w]]
      /\ job = [job EXCEPT ![w] = job[w]] /\ read = [read EXCEPT ![w] = read[w]]
  BY StaysPut
<1>2. todo \in [Workers -> SUBSET Devices] /\ updates \in [Workers -> [Devices -> AnyNonce]]
  BY TypeParts
<1>3. ASSUME Find(w)
      PROVE  /\ Moves(w, "check", todo'[w], updates[w], job[w], read[w])
             /\ \/ todo'[w] = {d \in Devices : Due(d) /\ Eligible(d)}
                \/ todo'[w] = todo[w]
  <2>1. /\ pc' = [pc EXCEPT ![w] = "check"]
        /\ updates' = updates /\ job' = job /\ read' = read
    BY <1>3 DEF Find, jobVars
  <2>2. CASE todo' = [todo EXCEPT ![w] = {d \in Devices : Due(d) /\ Eligible(d)}]
    <3>1. todo'[w] = {d \in Devices : Due(d) /\ Eligible(d)}
      BY <1>2, <2>2
    <3> QED
      BY <1>1, <2>1, <2>2, <3>1
  <2>3. CASE todo' = todo
    BY <1>1, <2>1, <2>3
  <2> QED
    BY <1>3, <2>2, <2>3 DEF Find
<1>4. ASSUME NEW d \in todo[w], NEW o \in Outcomes, Refresh(w, d, o)
      PROVE  Moves(w, pc[w], todo[w] \ {d}, [updates[w] EXCEPT ![d] = NewNonce],
                   job[w], read[w])
  <2>1. /\ pc' = pc /\ job' = job /\ read' = read
        /\ todo' = [todo EXCEPT ![w] = todo[w] \ {d}]
        /\ updates' = [updates EXCEPT ![w] = [updates[w] EXCEPT ![d] = NewNonce]]
    BY <1>2, <1>4 DEF Refresh, jobVars
  <2> QED
    BY <1>1, <2>1
<1>5. ASSUME NEW d \in Devices, StoreNonce(w, d)
      PROVE  Moves(w, pc[w], todo[w], [updates[w] EXCEPT ![d] = NoNonce], job[w], read[w])
  <2>1. /\ pc' = pc /\ job' = job /\ read' = read /\ todo' = todo
        /\ updates' = [updates EXCEPT ![w] = [updates[w] EXCEPT ![d] = NoNonce]]
    BY <1>2, <1>5 DEF StoreNonce, jobVars
  <2> QED
    BY <1>1, <2>1
<1>6. ASSUME EndCheck(w)
      PROVE  Moves(w, "batch", todo[w], updates[w], job[w], read[w])
  BY <1>1, <1>6 DEF EndCheck, jobVars, checkVars
<1> QED
  BY <1>3, <1>4, <1>5, <1>6

LEMMA BatchMoves ==
    ASSUME TypeOK, NEW w \in Workers
    PROVE  /\ Pop(w) => Moves(w, "begin", todo[w], updates[w], Head(jobs), read[w])
           /\ Cut(w) => Moves(w, pc[w], todo[w], updates[w], job[w], read[w])
           /\ EndBatch(w) => Moves(w, "find", todo[w], updates[w], job[w], read[w])
           /\ Begin(w) => Moves(w, "act", todo[w], updates[w], job[w], doc[job[w].device])
           /\ ToggleReplace(w) => Moves(w, "enqueue", todo[w], updates[w], job[w], read[w])
           /\ Ignore(w) \/ Finish(w) \/ JobFails(w)
                  \/ (\E o \in Outcomes : ToggleEnqueue(w, o))
                => Moves(w, "batch", todo[w], updates[w], NoJob, Fresh)
           /\ Crash(w) => Moves(w, "find", {}, [d \in Devices |-> NoNonce], NoJob, Fresh)
<1> USE DEF To, Moves
<1>1. /\ pc = [pc EXCEPT ![w] = pc[w]] /\ todo = [todo EXCEPT ![w] = todo[w]]
      /\ updates = [updates EXCEPT ![w] = updates[w]]
      /\ job = [job EXCEPT ![w] = job[w]] /\ read = [read EXCEPT ![w] = read[w]]
  BY StaysPut
<1>2. Pop(w) => Moves(w, "begin", todo[w], updates[w], Head(jobs), read[w])
  BY <1>1 DEF Pop, checkVars
<1>3. Cut(w) => Moves(w, pc[w], todo[w], updates[w], job[w], read[w])
  BY <1>1 DEF Cut, checkVars, jobVars
<1>4. EndBatch(w) => Moves(w, "find", todo[w], updates[w], job[w], read[w])
  BY <1>1 DEF EndBatch, checkVars, jobVars
<1>5. Begin(w) => Moves(w, "act", todo[w], updates[w], job[w], doc[job[w].device])
  BY <1>1 DEF Begin, checkVars
<1>6. ToggleReplace(w) => Moves(w, "enqueue", todo[w], updates[w], job[w], read[w])
  BY <1>1 DEF ToggleReplace, checkVars, jobVars
<1>7. EndJob(w) /\ UNCHANGED checkVars
        => Moves(w, "batch", todo[w], updates[w], NoJob, Fresh)
  BY <1>1 DEF EndJob, checkVars
<1>8. /\ Ignore(w) \/ Finish(w) \/ JobFails(w) => EndJob(w) /\ UNCHANGED checkVars
      /\ \A o \in Outcomes : ToggleEnqueue(w, o) => EndJob(w) /\ UNCHANGED checkVars
  BY DEF Ignore, Finish, JobFails, ToggleEnqueue
<1>9. Crash(w) => Moves(w, "find", {}, [d \in Devices |-> NoNonce], NoJob, Fresh)
  BY DEF Crash
<1> QED
  BY <1>2, <1>3, <1>4, <1>5, <1>6, <1>7, <1>8, <1>9

-----------------------------------------------------------------------------
(* No variable loses its type                                              *)

\* Documents, jobs, connections and histories; workers are in WorkersNext.
SharedOK ==
    /\ doc \in [Devices -> Documents] /\ jobs \in Seq(Jobs)
    /\ link \in [Workers -> {"up", "broken"}]
    /\ runs \in [Devices -> Nat] /\ lost \in SUBSET Nonces
    /\ toggles \in 0..MaxToggles /\ faults \in 0..MaxFaults

LEMMA FaultTypes ==
    ASSUME TypeOK, \/ UNCHANGED faults \/ Fault
                   \/ \E w \in Workers, o \in Outcomes : Issue(link[w], o)
    PROVE  faults' \in 0..MaxFaults
<1>1. faults \in 0..MaxFaults /\ MaxFaults \in Nat
  BY TypeParts, FaultsAssumption
<1>2. UNCHANGED faults \/ Fault
  BY DEF Issue
<1> QED
  BY <1>1, <1>2 DEF Fault

LEMMA LinkTypes ==
    ASSUME TypeOK, NEW w \in Workers,
           \/ UNCHANGED link \/ Relink(w, "up") \/ Relink(w, "broken")
           \/ \E o \in Outcomes : Relink(w, LinkAfter(o))
    PROVE  link' \in [Workers -> {"up", "broken"}]
  BY TypeParts DEF Relink, LinkAfter

\* The changes that steps make to one document.
LEMMA DocumentTypes ==
    ASSUME TypeOK, NEW d \in Devices
    PROVE  /\ [doc EXCEPT ![d].last_executed = "old"] \in [Devices -> Documents]
           /\ \A n \in AnyNonce :
                [doc EXCEPT ![d].refresh_nonce = n] \in [Devices -> Documents]
           /\ \A r \in Documents, b \in BOOLEAN :
                [doc EXCEPT ![d] = [r EXCEPT !.on = b]] \in [Devices -> Documents]
           /\ \A n \in AnyNonce :
                [[doc EXCEPT ![d].last_executed = "recent"] EXCEPT ![d].latest_refresh_nonce = n]
                  \in [Devices -> Documents]
<1>1. doc \in [Devices -> Documents] /\ doc[d] \in Documents
  BY TypeParts
<1>2. [doc EXCEPT ![d].last_executed = "old"] \in [Devices -> Documents]
  <2>1. [doc[d] EXCEPT !.last_executed = "old"] \in Documents
    BY <1>1 DEF Documents
  <2> QED
    BY <1>1, <2>1
<1>3. ASSUME NEW n \in AnyNonce
      PROVE  [doc EXCEPT ![d].refresh_nonce = n] \in [Devices -> Documents]
  <2>1. [doc[d] EXCEPT !.refresh_nonce = n] \in Documents
    BY <1>1 DEF Documents
  <2> QED
    BY <1>1, <2>1
<1>4. ASSUME NEW r \in Documents, NEW b \in BOOLEAN
      PROVE  [doc EXCEPT ![d] = [r EXCEPT !.on = b]] \in [Devices -> Documents]
  <2>1. [r EXCEPT !.on = b] \in Documents
    BY DEF Documents
  <2> QED
    BY <1>1, <2>1
<1>5. ASSUME NEW n \in AnyNonce
      PROVE  [[doc EXCEPT ![d].last_executed = "recent"] EXCEPT ![d].latest_refresh_nonce = n]
               \in [Devices -> Documents]
  <2> DEFINE g == [doc EXCEPT ![d].last_executed = "recent"]
  <2>1. [doc[d] EXCEPT !.last_executed = "recent"] \in Documents
    BY <1>1 DEF Documents
  <2>2. g \in [Devices -> Documents] /\ g[d] \in Documents
    BY <1>1, <2>1
  <2> HIDE DEF g
  <2>3. [g[d] EXCEPT !.latest_refresh_nonce = n] \in Documents
    BY <2>2 DEF Documents
  <2>4. [g EXCEPT ![d].latest_refresh_nonce = n] \in [Devices -> Documents]
    BY <2>2, <2>3
  <2> QED
    BY <2>4 DEF g
<1> QED
  BY <1>2, <1>3, <1>4, <1>5

LEMMA QueueTypes ==
    ASSUME TypeOK
    PROVE  /\ jobs \in Seq(Jobs)
           /\ \A j \in Jobs : Append(jobs, j) \in Seq(Jobs)
           /\ jobs # <<>> => Tail(jobs) \in Seq(Jobs) /\ Head(jobs) \in Jobs
<1>1. jobs \in Seq(Jobs)
  BY TypeParts
<1> QED
  BY <1>1

LEMMA SharedNext ==
    ASSUME TypeOK, UuidsSuffice, [Next]_vars
    PROVE  SharedOK'
<1>1. SharedOK
  BY TypeParts DEF SharedOK
<1>2. ASSUME NEW d \in Devices, NEW b \in BOOLEAN, RequestToggle(d, b)
      PROVE  SharedOK'
  <2>1. jobs' = Append(jobs, Toggle(d, b)) /\ Toggle(d, b) \in Jobs
    BY <1>2, JobKinds DEF RequestToggle, Push
  <2>2. jobs' \in Seq(Jobs)
    BY <1>1, <2>1 DEF SharedOK
  <2>3. toggles' \in 0..MaxToggles
    BY <1>1, <1>2, ScheduleAssumption DEF SharedOK, RequestToggle
  <2> QED
    BY <1>1, <1>2, <2>2, <2>3 DEF SharedOK, RequestToggle, historyVars
<1>3. ASSUME NEW d \in Devices, Elapse(d)
      PROVE  SharedOK'
  <2>1. doc' \in [Devices -> Documents]
    BY <1>3, DocumentTypes DEF Elapse
  <2>2. runs' \in [Devices -> Nat]
    BY <1>1, <1>3 DEF SharedOK, Elapse
  <2> QED
    BY <1>1, <1>3, <2>1, <2>2 DEF SharedOK, Elapse
<1>4. ASSUME NEW w \in Workers, Find(w) \/ EndCheck(w) \/ Pop(w) \/ Cut(w) \/ EndBatch(w)
                                  \/ Ignore(w) \/ Begin(w)
      PROVE  SharedOK'
  <2>1. doc' = doc /\ runs' = runs /\ lost' = lost /\ toggles' = toggles
    BY <1>4 DEF Find, EndCheck, Pop, Cut, EndBatch, Ignore, Begin, historyVars
  <2>2. jobs' \in Seq(Jobs)
    <3>1. Pop(w) => jobs # <<>> /\ jobs' = Tail(jobs)
      BY DEF Pop
    <3>2. ~Pop(w) => jobs' = jobs
      BY <1>4 DEF Find, EndCheck, Cut, EndBatch, Ignore, Begin
    <3>3. CASE Pop(w)
      BY <3>1, <3>3, QueueTypes
    <3>4. CASE ~Pop(w)
      BY <1>1, <3>2, <3>4 DEF SharedOK
    <3> QED
      BY <3>3, <3>4
  <2>3. link' \in [Workers -> {"up", "broken"}]
    BY <1>4, LinkTypes DEF Find, EndCheck, Pop, Cut, EndBatch, Ignore, Begin
  <2>4. faults' \in 0..MaxFaults
    BY <1>4, FaultTypes DEF Find, EndCheck, Pop, Cut, EndBatch, Ignore, Begin
  <2> QED
    BY <1>1, <2>1, <2>2, <2>3, <2>4 DEF SharedOK
<1>5. ASSUME NEW w \in Workers, NEW d \in todo[w], NEW o \in Outcomes, Refresh(w, d, o)
      PROVE  SharedOK'
  <2>1. d \in Devices /\ NewNonce \in Nonces
    BY TypeParts, NewNonceIsNew
  <2>2. Run(d, NewNonce) \in Jobs
    BY <2>1, JobKinds DEF AnyNonce
  <2>3. jobs' \in Seq(Jobs)
    <3>1. jobs' = Append(jobs, Run(d, NewNonce)) \/ jobs' = jobs
      BY <1>5 DEF Refresh, Push
    <3> QED
      BY <2>2, <3>1, QueueTypes
  <2>4. lost' \in SUBSET Nonces
    BY <1>1, <1>5, <2>1 DEF SharedOK, Refresh
  <2>5. link' \in [Workers -> {"up", "broken"}] /\ faults' \in 0..MaxFaults
    BY <1>5, LinkTypes, FaultTypes DEF Refresh
  <2> QED
    BY <1>1, <1>5, <2>3, <2>4, <2>5 DEF SharedOK, Refresh
<1>6. ASSUME NEW w \in Workers, NEW d \in Devices, StoreNonce(w, d)
      PROVE  SharedOK'
  <2>1. updates[w][d] \in AnyNonce
    BY TypeParts
  <2>2. doc' \in [Devices -> Documents]
    <3>1. doc' = [doc EXCEPT ![d].refresh_nonce = updates[w][d]] \/ doc' = doc
      BY <1>6 DEF StoreNonce
    <3>2. [doc EXCEPT ![d].refresh_nonce = updates[w][d]] \in [Devices -> Documents]
      BY <2>1, DocumentTypes, Zenon
    <3> QED
      BY <1>1, <3>1, <3>2 DEF SharedOK
  <2>3. faults' \in 0..MaxFaults
    BY <1>6, FaultTypes DEF StoreNonce
  <2> QED
    BY <1>1, <1>6, <2>2, <2>3 DEF SharedOK, StoreNonce, historyVars
<1>7. ASSUME NEW w \in Workers, ToggleReplace(w)
      PROVE  SharedOK'
  <2>1. job[w] \in Jobs /\ job[w].what = "toggle"
    BY <1>7, TypeParts DEF ToggleReplace, Busy
  <2>2. job[w].device \in Devices /\ job[w].on \in BOOLEAN
    BY <2>1, JobForms
  <2>3. read[w] \in Documents
    BY TypeParts
  <2>4. doc' \in [Devices -> Documents]
    BY <1>7, <2>2, <2>3, DocumentTypes DEF ToggleReplace
  <2> QED
    BY <1>1, <1>7, <2>4 DEF SharedOK, ToggleReplace, historyVars
<1>8. ASSUME NEW w \in Workers, NEW o \in Outcomes, ToggleEnqueue(w, o)
      PROVE  SharedOK'
  <2>1. job[w] \in Jobs
    BY <1>8, TypeParts DEF ToggleEnqueue, Busy
  <2>2. Run(job[w].device, NoNonce) \in Jobs
    BY <2>1, JobForms, JobKinds DEF AnyNonce
  <2>3. jobs' \in Seq(Jobs)
    <3>1. jobs' = Append(jobs, Run(job[w].device, NoNonce)) \/ jobs' = jobs
      BY <1>8 DEF ToggleEnqueue, Push
    <3> QED
      BY <2>2, <3>1, QueueTypes
  <2>4. link' \in [Workers -> {"up", "broken"}] /\ faults' \in 0..MaxFaults
    BY <1>8, LinkTypes, FaultTypes DEF ToggleEnqueue
  <2> QED
    BY <1>1, <1>8, <2>3, <2>4 DEF SharedOK, ToggleEnqueue, historyVars
<1>9. ASSUME NEW w \in Workers, Finish(w)
      PROVE  SharedOK'
  <2>1. job[w] \in Jobs
    BY <1>9, TypeParts DEF Finish, Busy
  <2>2. job[w].device \in Devices /\ read[w].refresh_nonce \in AnyNonce
    BY <2>1, JobForms, TypeParts DEF Documents
  <2>3. doc' \in [Devices -> Documents]
    BY <1>9, <2>2, DocumentTypes DEF Finish, Executed
  <2>4. runs' \in [Devices -> Nat]
    BY <1>1, <1>9, <2>2 DEF SharedOK, Finish
  <2> QED
    BY <1>1, <1>9, <2>3, <2>4 DEF SharedOK, Finish
<1>10. ASSUME NEW w \in Workers, JobFails(w) \/ Crash(w)
       PROVE  SharedOK'
  <2>1. NonceOf(job[w]) \in SUBSET Nonces
    <3>1. CASE job[w] = NoJob
      BY <3>1 DEF NonceOf
    <3>2. CASE job[w] # NoJob
      BY <3>2, TypeParts, JobForms DEF NonceOf, AnyNonce
    <3> QED
      BY <3>1, <3>2
  <2>2. lost' \in SUBSET Nonces
    BY <1>1, <1>10, <2>1 DEF SharedOK, JobFails, Crash
  <2>3. link' \in [Workers -> {"up", "broken"}] /\ faults' \in 0..MaxFaults
    BY <1>10, LinkTypes, FaultTypes DEF JobFails, Crash
  <2> QED
    BY <1>1, <1>10, <2>2, <2>3 DEF SharedOK, JobFails, Crash
<1>11. CASE UNCHANGED vars
  BY <1>1, <1>11 DEF SharedOK, vars, historyVars
<1> QED
  BY <1>2, <1>3, <1>4, <1>5, <1>6, <1>7, <1>8, <1>9, <1>10, <1>11 DEF Next, Check, Batch

LEMMA TypeNext ==
    ASSUME TypeOK, UuidsSuffice, [Next]_vars
    PROVE  TypeOK'
<1> DEFINE WorkersOK ==
      /\ pc \in [Workers -> Places] /\ todo \in [Workers -> SUBSET Devices]
      /\ updates \in [Workers -> [Devices -> AnyNonce]]
      /\ job \in [Workers -> Jobs \cup {NoJob}] /\ read \in [Workers -> Documents]
      /\ \A w \in Workers :
           /\ job[w] # NoJob <=> pc[w] \in Busy
           /\ pc[w] # "check" => todo[w] = {} /\ \A d \in Devices : updates[w][d] = NoNonce
<1>1. WorkersOK
  BY TypeParts
<1>2. NoNonce \in AnyNonce /\ Fresh \in Documents
  BY FreshIsDocument DEF AnyNonce
<1>3. ASSUME NEW w \in Workers
      PROVE  /\ pc[w] \in Places /\ todo[w] \in SUBSET Devices
             /\ updates[w] \in [Devices -> AnyNonce] /\ job[w] \in Jobs \cup {NoJob}
             /\ read[w] \in Documents
             /\ job[w] # NoJob <=> pc[w] \in Busy
             /\ pc[w] # "check" => todo[w] = {} /\ \A d \in Devices : updates[w][d] = NoNonce
  BY TypeParts, Zenon
<1>4. ASSUME UNCHANGED <<pc, todo, updates, job, read>>
      PROVE  WorkersOK'
  BY <1>1, <1>4
<1>5. ASSUME NEW w \in Workers, NEW place \in Places, NEW t \in SUBSET Devices,
             NEW u \in [Devices -> AnyNonce], NEW j \in Jobs \cup {NoJob}, NEW r \in Documents,
             Moves(w, place, t, u, j, r),
             j # NoJob <=> place \in Busy,
             place # "check" => t = {} /\ \A d \in Devices : u[d] = NoNonce
      PROVE  WorkersOK'
  BY <1>5, MoveTypes, Zenon
<1> HIDE DEF WorkersOK
<1>6. {"find", "check", "batch"} \cap Busy = {} /\ Busy \subseteq Places
      /\ {"find", "check", "batch"} \subseteq Places
  BY DEF Busy, Places
<1>7. ASSUME NEW w \in Workers, Find(w)
      PROVE  WorkersOK'
  <2>1. pc[w] = "find" /\ job[w] = NoJob
    BY <1>3, <1>6, <1>7 DEF Find
  <2>2. todo'[w] \in SUBSET Devices
    BY <1>3, <1>7, CheckMoves
  <2> QED
    BY <1>3, <1>5, <1>6, <1>7, <2>1, <2>2, CheckMoves
<1>8. ASSUME NEW w \in Workers, NEW d \in todo[w], NEW o \in Outcomes, Refresh(w, d, o)
      PROVE  WorkersOK'
  <2>1. pc[w] = "check" /\ job[w] = NoJob
    BY <1>3, <1>6, <1>8 DEF Refresh
  <2>2. todo[w] \ {d} \in SUBSET Devices /\ [updates[w] EXCEPT ![d] = NewNonce] \in [Devices -> AnyNonce]
    BY <1>3, NewNonceIsNew DEF AnyNonce
  <2>3. Moves(w, pc[w], todo[w] \ {d}, [updates[w] EXCEPT ![d] = NewNonce], job[w], read[w])
    BY <1>8, CheckMoves
  <2> QED
    BY <1>3, <1>5, <1>6, <2>1, <2>2, <2>3
<1>9. ASSUME NEW w \in Workers, NEW d \in Devices, StoreNonce(w, d)
      PROVE  WorkersOK'
  <2>1. pc[w] = "check" /\ job[w] = NoJob
    BY <1>3, <1>6, <1>9 DEF StoreNonce
  <2>2. [updates[w] EXCEPT ![d] = NoNonce] \in [Devices -> AnyNonce]
    BY <1>2, <1>3
  <2>3. Moves(w, pc[w], todo[w], [updates[w] EXCEPT ![d] = NoNonce], job[w], read[w])
    BY <1>9, CheckMoves
  <2> QED
    BY <1>3, <1>5, <1>6, <2>1, <2>2, <2>3
<1>10. ASSUME NEW w \in Workers, EndCheck(w)
       PROVE  WorkersOK'
  <2>1. /\ pc[w] = "check" /\ job[w] = NoJob /\ todo[w] = {}
        /\ \A d \in Devices : updates[w][d] = NoNonce
    BY <1>3, <1>6, <1>10 DEF EndCheck
  <2> QED
    BY <1>3, <1>5, <1>6, <1>10, <2>1, CheckMoves
<1>11. ASSUME NEW w \in Workers, Pop(w)
       PROVE  WorkersOK'
  <2>1. Head(jobs) \in Jobs /\ Head(jobs) # NoJob /\ pc[w] = "batch"
    <3>1. Head(jobs) \in Jobs
      BY <1>11, TypeParts DEF Pop
    <3> QED
      BY <1>11, <3>1, ScheduleAssumption DEF Pop
  <2>2. "begin" \in Busy /\ "begin" \in Places
    BY DEF Busy, Places
  <2> QED
    BY <1>3, <1>5, <1>11, <2>1, <2>2, BatchMoves
<1>12. ASSUME NEW w \in Workers, Cut(w) \/ EndBatch(w)
       PROVE  WorkersOK'
  <2>1. pc[w] = "batch" /\ job[w] = NoJob
    BY <1>3, <1>6, <1>12 DEF Cut, EndBatch
  <2> QED
    BY <1>3, <1>5, <1>6, <1>12, <2>1, BatchMoves
<1>13. ASSUME NEW w \in Workers, Begin(w)
       PROVE  WorkersOK'
  <2>1. pc[w] = "begin" /\ job[w] # NoJob /\ "act" \in Busy /\ "act" \in Places
    BY <1>3, <1>13 DEF Begin, Busy, Places
  <2>2. doc[job[w].device] \in Documents
    BY <1>3, <2>1, JobForms, TypeParts
  <2> QED
    BY <1>3, <1>5, <1>13, <2>1, <2>2, BatchMoves
<1>14. ASSUME NEW w \in Workers, ToggleReplace(w)
       PROVE  WorkersOK'
  <2>1. pc[w] = "act" /\ job[w] # NoJob /\ "enqueue" \in Busy /\ "enqueue" \in Places
    BY <1>3, <1>14 DEF ToggleReplace, Busy, Places
  <2> QED
    BY <1>3, <1>5, <1>14, <2>1, BatchMoves
<1>15. ASSUME NEW w \in Workers,
              Ignore(w) \/ Finish(w) \/ JobFails(w) \/ \E o \in Outcomes : ToggleEnqueue(w, o)
       PROVE  WorkersOK'
  <2>1. pc[w] \in Busy
    BY <1>15 DEF Ignore, Finish, JobFails, ToggleEnqueue, Busy
  <2>2. todo[w] = {} /\ \A d \in Devices : updates[w][d] = NoNonce
    BY <1>3, <1>6, <2>1
  <2> QED
    BY <1>2, <1>3, <1>5, <1>6, <1>15, <2>2, BatchMoves
<1>16. ASSUME NEW w \in Workers, Crash(w)
       PROVE  WorkersOK'
  <2>1. [d \in Devices |-> NoNonce] \in [Devices -> AnyNonce]
    BY <1>2
  <2> QED
    BY <1>2, <1>5, <1>6, <1>16, <2>1, BatchMoves
<1>17. ASSUME UNCHANGED vars \/ \E d \in Devices : Elapse(d) \/ \E b \in BOOLEAN : RequestToggle(d, b)
       PROVE  WorkersOK'
  <2>1. UNCHANGED <<pc, todo, updates, job, read>>
    BY <1>17 DEF vars, Elapse, RequestToggle, checkVars, jobVars
  <2> QED
    BY <1>4, <2>1
<1>18. WorkersOK'
  BY <1>7, <1>8, <1>9, <1>10, <1>11, <1>12, <1>13, <1>14, <1>15, <1>16, <1>17
     DEF Next, Check, Batch
<1> QED
  BY <1>18, SharedNext DEF TypeOK, SharedOK, WorkersOK, Places, Busy

-----------------------------------------------------------------------------
(* Which jobs are there after a step                                       *)

LEMMA PresentMembers ==
    ASSUME TypeOK
    PROVE  \A j : j \in Present <=>
             \/ \E i \in DOMAIN jobs : j = jobs[i]
             \/ j # NoJob /\ \E w \in Workers : j = job[w]
<1>1. \A i \in DOMAIN jobs : jobs[i] # NoJob
  BY TypeParts, ScheduleAssumption
<1> QED
  BY <1>1 DEF Present, Waiting

LEMMA PresentMembersNext ==
    ASSUME TypeOK'
    PROVE  \A j : j \in Present' <=>
             \/ \E i \in DOMAIN jobs' : j = jobs'[i]
             \/ j # NoJob /\ \E w \in Workers : j = job'[w]
<1>1. jobs' \in Seq(Jobs)
  BY DEF TypeOK
<1>2. \A i \in DOMAIN jobs' : jobs'[i] # NoJob
  BY <1>1, ScheduleAssumption
<1> QED
  BY <1>2 DEF Present, Waiting

\* A job is pushed, or none, and a worker lets go of its job, or none does.
LEMMA PresentNext ==
    ASSUME TypeOK, TypeOK', NEW w, NEW j,
           jobs' = jobs \/ (j \in Jobs /\ jobs' = Append(jobs, j)),
           job' = job \/ job' = [job EXCEPT ![w] = NoJob]
    PROVE  /\ \A x : x \in Present' => x \in Present \/ (x = j /\ jobs' # jobs)
           /\ \A x : x \in Present => x \in Present' \/ (x = job[w] /\ job' # job)
           /\ jobs' # jobs => j \in Present'
<1>1. jobs \in Seq(Jobs) /\ job \in [Workers -> Jobs \cup {NoJob}]
  BY TypeParts
<1>2. /\ \A i \in DOMAIN jobs : i \in DOMAIN jobs' /\ jobs'[i] = jobs[i]
      /\ \A i \in DOMAIN jobs' : i \in DOMAIN jobs \/ (jobs'[i] = j /\ jobs' # jobs)
      /\ jobs' # jobs => \E i \in DOMAIN jobs' : jobs'[i] = j
  <2>1. CASE jobs' = jobs
    BY <2>1
  <2>2. CASE j \in Jobs /\ jobs' = Append(jobs, j)
    <3>1. /\ DOMAIN jobs' = DOMAIN jobs \cup {Len(jobs) + 1} /\ jobs'[Len(jobs) + 1] = j
          /\ \A i \in DOMAIN jobs : jobs'[i] = jobs[i]
          /\ jobs' # jobs
      BY <1>1, <2>2
    <3> QED
      BY <3>1
  <2> QED
    BY <2>1, <2>2
<1>3. /\ \A v \in Workers : job'[v] # NoJob => job'[v] = job[v]
      /\ \A v \in Workers : job'[v] = job[v] \/ (v = w /\ job' # job)
  <2>1. CASE job' = job
    BY <2>1
  <2>2. CASE job' # job
    <3>1. job' = [job EXCEPT ![w] = NoJob]
      BY <2>2
    <3> QED
      BY <1>1, <2>2, <3>1
  <2> QED
    BY <2>1, <2>2
<1>4. \A x : x \in Present <=> \/ \E i \in DOMAIN jobs : x = jobs[i]
                               \/ x # NoJob /\ \E v \in Workers : x = job[v]
  BY PresentMembers
<1>5. \A x : x \in Present' <=> \/ \E i \in DOMAIN jobs' : x = jobs'[i]
                                \/ x # NoJob /\ \E v \in Workers : x = job'[v]
  BY PresentMembersNext
<1>6. ASSUME NEW x, x \in Present'
      PROVE  x \in Present \/ (x = j /\ jobs' # jobs)
  BY <1>2, <1>3, <1>4, <1>5, <1>6
<1>7. ASSUME NEW x, x \in Present
      PROVE  x \in Present' \/ (x = job[w] /\ job' # job)
  BY <1>2, <1>3, <1>4, <1>5, <1>7
<1> QED
  BY <1>2, <1>5, <1>6, <1>7

LEMMA PresentPopped ==
    ASSUME TypeOK, TypeOK', NEW w \in Workers, Pop(w)
    PROVE  \A x : x \in Present' <=> x \in Present
<1>1. /\ jobs \in Seq(Jobs) /\ jobs # <<>> /\ jobs' = Tail(jobs)
      /\ job \in [Workers -> Jobs \cup {NoJob}] /\ job' = [job EXCEPT ![w] = Head(jobs)]
      /\ job[w] = NoJob
  <2>1. pc[w] = "batch" /\ (job[w] # NoJob <=> pc[w] \in Busy)
    BY TypeParts DEF Pop
  <2> QED
    BY <2>1, TypeParts DEF Pop, Busy
<1>2. Head(jobs) = jobs[1] /\ 1 \in DOMAIN jobs /\ jobs[1] # NoJob
  BY <1>1, ScheduleAssumption
<1>3. /\ \A i \in DOMAIN jobs' : i + 1 \in DOMAIN jobs /\ jobs'[i] = jobs[i + 1]
      /\ \A i \in DOMAIN jobs : i = 1 \/ (i - 1 \in DOMAIN jobs' /\ jobs'[i - 1] = jobs[i])
  BY <1>1
<1>4. job'[w] = jobs[1] /\ \A v \in Workers \ {w} : job'[v] = job[v]
  BY <1>1, <1>2
<1>5. \A x : x \in Present <=> \/ \E i \in DOMAIN jobs : x = jobs[i]
                               \/ x # NoJob /\ \E v \in Workers : x = job[v]
  BY PresentMembers
<1>6. \A x : x \in Present' <=> \/ \E i \in DOMAIN jobs' : x = jobs'[i]
                                \/ x # NoJob /\ \E v \in Workers : x = job'[v]
  BY PresentMembersNext
<1>7. ASSUME NEW x, x \in Present'
      PROVE  x \in Present
  BY <1>1, <1>2, <1>3, <1>4, <1>5, <1>6, <1>7
<1>8. ASSUME NEW x, x \in Present
      PROVE  x \in Present'
  <2>1. CASE \E i \in DOMAIN jobs : x = jobs[i]
    <3>1. PICK i \in DOMAIN jobs : x = jobs[i]
      BY <2>1
    <3>2. CASE i = 1
      BY <1>2, <1>4, <1>6, <3>1, <3>2
    <3>3. CASE i # 1
      BY <1>3, <1>6, <3>1, <3>3
    <3> QED
      BY <3>2, <3>3
  <2>2. CASE x # NoJob /\ \E v \in Workers : x = job[v]
    BY <1>1, <1>4, <1>6, <2>2
  <2> QED
    BY <1>5, <1>8, <2>1, <2>2
<1> QED
  BY <1>7, <1>8

\* A job that is pushed has no nonce, or one that no job has.
LEMMA DifferNext ==
    ASSUME TypeOK, TypeOK', RunsDiffer, NEW w, NEW j,
           jobs' = jobs \/ (j \in Jobs /\ jobs' = Append(jobs, j)),
           IsNonced(j) /\ jobs' # jobs => j \notin Present,
           job' = job \/ job' = [job EXCEPT ![w] = NoJob]
    PROVE  RunsDiffer'
<1>1. jobs \in Seq(Jobs) /\ job \in [Workers -> Jobs \cup {NoJob}]
      /\ \A i \in DOMAIN jobs' : jobs'[i] # NoJob
  <2>1. jobs' \in Seq(Jobs)
    BY DEF TypeOK
  <2> QED
    BY <2>1, TypeParts, ScheduleAssumption
<1>2. \A v \in Workers : job'[v] = job[v] \/ job'[v] = NoJob
  BY <1>1
<1>3. \A i \in DOMAIN jobs : IsNonced(jobs[i]) =>
        /\ \A k \in DOMAIN jobs : jobs[k] = jobs[i] => k = i
        /\ \A v \in Workers : job[v] # jobs[i]
  BY DEF RunsDiffer
<1>4. CASE jobs' = jobs
  BY <1>1, <1>2, <1>3, <1>4 DEF RunsDiffer
<1>5. CASE j \in Jobs /\ jobs' = Append(jobs, j)
  <2>1. /\ DOMAIN jobs' = DOMAIN jobs \cup {Len(jobs) + 1} /\ jobs'[Len(jobs) + 1] = j
        /\ \A i \in DOMAIN jobs : jobs'[i] = jobs[i]
        /\ jobs' # jobs
    BY <1>1, <1>5
  <2>2. IsNonced(j) => /\ \A i \in DOMAIN jobs : jobs[i] # j
                       /\ \A v \in Workers : job[v] # j
    <3>1. j # NoJob
      BY <1>5, ScheduleAssumption
    <3> QED
      BY <2>1, <3>1, PresentMembers
  <2>3. ASSUME NEW i \in DOMAIN jobs', IsNonced(jobs'[i])
        PROVE  /\ \A k \in DOMAIN jobs' : jobs'[k] = jobs'[i] => k = i
               /\ \A v \in Workers : job'[v] # jobs'[i]
    <3>1. CASE i = Len(jobs) + 1
      BY <1>1, <1>2, <2>1, <2>2, <2>3, <3>1
    <3>2. CASE i \in DOMAIN jobs
      BY <1>1, <1>2, <1>3, <2>1, <2>2, <2>3, <3>2
    <3> QED
      BY <2>1, <3>1, <3>2
  <2> QED
    BY <2>3 DEF RunsDiffer, IsNonced
<1> QED
  BY <1>4, <1>5

LEMMA DifferPopped ==
    ASSUME TypeOK, TypeOK', RunsDiffer, NEW w \in Workers, Pop(w)
    PROVE  RunsDiffer'
<1>1. /\ jobs \in Seq(Jobs) /\ jobs # <<>> /\ jobs' = Tail(jobs)
      /\ job \in [Workers -> Jobs \cup {NoJob}] /\ job' = [job EXCEPT ![w] = Head(jobs)]
  BY TypeParts DEF Pop
<1>2. Head(jobs) = jobs[1] /\ 1 \in DOMAIN jobs
  BY <1>1
<1>3. \A i \in DOMAIN jobs' : i \in Nat \ {0} /\ i + 1 \in DOMAIN jobs /\ jobs'[i] = jobs[i + 1]
  BY <1>1
<1>4. \A v \in Workers : job'[v] = jobs[1] \/ job'[v] = job[v]
  BY <1>1, <1>2
<1>5. \A i \in DOMAIN jobs : IsNonced(jobs[i]) =>
        /\ \A k \in DOMAIN jobs : jobs[k] = jobs[i] => k = i
        /\ \A v \in Workers : job[v] # jobs[i]
  BY DEF RunsDiffer
<1>6. ASSUME NEW i \in DOMAIN jobs', IsNonced(jobs'[i])
      PROVE  /\ \A k \in DOMAIN jobs' : jobs'[k] = jobs'[i] => k = i
             /\ \A v \in Workers : job'[v] # jobs'[i]
  BY <1>2, <1>3, <1>4, <1>5, <1>6
<1> QED
  BY <1>6 DEF RunsDiffer, IsNonced

-----------------------------------------------------------------------------
(* What keeps each part of the invariant                                   *)

LEMMA Arrives ==
    ASSUME TypeOK, NEW w \in Workers, NEW place, NEW t, NEW u, NEW j, NEW r,
           Moves(w, place, t, u, j, r)
    PROVE  pc'[w] = place /\ todo'[w] = t /\ updates'[w] = u /\ job'[w] = j /\ read'[w] = r
  BY TypeParts DEF Moves

LEMMA NotActing ==
    ASSUME OneWorker, NEW w \in Workers, pc'[w] \notin {"act", "enqueue"}
    PROVE  ReadIsStored' /\ TogglesEnqueue'
  BY DEF OneWorker, ReadIsStored, TogglesEnqueue

LEMMA NotChecking ==
    ASSUME OneWorker, TypeOK', NEW w \in Workers, pc'[w] # "check"
    PROVE  UpdatesAreOwed'
<1>1. ASSUME NEW v \in Workers
      PROVE  todo'[v] = {} /\ \A d \in Devices : updates'[v][d] = NoNonce
  <2>1. v = w
    BY DEF OneWorker
  <2> QED
    BY <2>1 DEF TypeOK
<1> QED
  BY <1>1 DEF UpdatesAreOwed

\* Nonces of documents stay, or what was read of one becomes its latest; and
\* the run that is owed stays, or is lost.
LEMMA StoredStays ==
    ASSUME StoredIsOwed,
           \A d \in Devices :
             /\ doc'[d].refresh_nonce = doc[d].refresh_nonce
             /\ \/ doc'[d].latest_refresh_nonce = doc[d].refresh_nonce
                \/ /\ doc'[d].latest_refresh_nonce = doc[d].latest_refresh_nonce
                   /\ doc[d].refresh_nonce # NoNonce /\ IsOwed(d, doc[d].refresh_nonce)
                        => \/ Run(d, doc[d].refresh_nonce) \in Present'
                           \/ doc[d].refresh_nonce \in lost'
    PROVE  StoredIsOwed'
<1>1. ASSUME NEW d \in Devices, ~(doc'[d].refresh_nonce = doc'[d].latest_refresh_nonce)
      PROVE  /\ doc'[d].refresh_nonce # NoNonce
             /\ \/ Run(d, doc'[d].refresh_nonce) \in Present'
                \/ doc'[d].refresh_nonce \in lost'
  <2>1. /\ doc'[d].refresh_nonce = doc[d].refresh_nonce
        /\ doc'[d].latest_refresh_nonce = doc[d].latest_refresh_nonce
    BY <1>1
  <2>2. ~Eligible(d)
    BY <1>1, <2>1 DEF Eligible
  <2>3. doc[d].refresh_nonce # NoNonce /\ IsOwed(d, doc[d].refresh_nonce)
    BY <2>2 DEF StoredIsOwed
  <2> QED
    BY <1>1, <2>1, <2>3
<1> QED
  BY <1>1 DEF StoredIsOwed, IsOwed, Eligible, Run

\* Nothing is run, or a device is due anew, and no run of a stored nonce
\* comes up.
LEMMA OnceStays ==
    ASSUME TypeOK, RunOnce,
           \A d \in Devices :
             /\ doc'[d].refresh_nonce = doc[d].refresh_nonce
             /\ runs'[d] = runs[d] \/ runs'[d] = 0
             /\ doc[d].refresh_nonce # NoNonce /\ Run(d, doc[d].refresh_nonce) \in Present'
                  => Run(d, doc[d].refresh_nonce) \in Present
    PROVE  RunOnce'
<1>1. ASSUME NEW d \in Devices, doc'[d].refresh_nonce # NoNonce
      PROVE  /\ runs'[d] <= 1
             /\ runs'[d] = 1 => Run(d, doc'[d].refresh_nonce) \notin Present'
  <2>1. /\ runs[d] <= 1
        /\ runs[d] = 1 => Run(d, doc[d].refresh_nonce) \notin Present
    BY <1>1 DEF RunOnce
  <2> QED
    BY <1>1, <2>1
<1> QED
  BY <1>1 DEF RunOnce, Run

LEMMA DueStays ==
    ASSUME DueIsNotRun,
           \A d \in Devices : \/ doc'[d].last_executed # "old" \/ runs'[d] = 0
                              \/ Due(d) /\ runs'[d] = runs[d]
    PROVE  DueIsNotRun'
  BY DEF DueIsNotRun, Due

-----------------------------------------------------------------------------
(* The invariant                                                           *)

Rest ==
    /\ ReadIsStored /\ TogglesEnqueue /\ StoredIsOwed /\ UpdatesAreOwed
    /\ DueIsNotRun /\ RunsDiffer /\ RunOnce

LEMMA RequestKeeps ==
    ASSUME TypeOK, TypeOK', Rest, NEW d \in Devices, NEW b \in BOOLEAN, RequestToggle(d, b)
    PROVE  Rest'
<1>1. /\ doc' = doc /\ pc' = pc /\ todo' = todo /\ updates' = updates /\ job' = job
      /\ read' = read /\ runs' = runs /\ lost' = lost
      /\ jobs' = Append(jobs, Toggle(d, b))
  BY DEF RequestToggle, Push, checkVars, jobVars, historyVars
<1>2. Toggle(d, b) \in Jobs /\ Toggle(d, b).what = "toggle"
      /\ \A c \in Devices : \A n : Run(c, n) # Toggle(d, b)
  BY JobKinds DEF Run, Toggle
<1>3. ReadIsStored' /\ TogglesEnqueue'
  BY <1>1 DEF Rest, ReadIsStored, TogglesEnqueue, Stale, Due
<1>4. \A x : x \in Present' => x \in Present \/ x = Toggle(d, b)
  BY <1>1, <1>2, PresentNext
<1>5. \A x : x \in Present => x \in Present'
  BY <1>1, <1>2, PresentNext
<1>6. RunsDiffer'
  BY <1>1, <1>2, DifferNext DEF Rest, IsNonced
<1>7. StoredIsOwed'
  BY <1>1, <1>5, StoredStays DEF Rest, IsOwed
<1>8. RunOnce' /\ DueIsNotRun'
  BY <1>1, <1>2, <1>4, OnceStays, DueStays DEF Rest, DueIsNotRun, Due
<1>9. UpdatesAreOwed'
  BY <1>1, <1>5 DEF Rest, UpdatesAreOwed, IsOwed, Run, Due
<1> QED
  BY <1>3, <1>6, <1>7, <1>8, <1>9 DEF Rest

LEMMA ElapseKeeps ==
    ASSUME TypeOK, TypeOK', Rest, NEW d \in Devices, Elapse(d)
    PROVE  Rest'
<1>1. /\ jobs' = jobs /\ pc' = pc /\ todo' = todo /\ updates' = updates /\ job' = job
      /\ read' = read /\ lost' = lost
  BY DEF Elapse, checkVars, jobVars
<1>2. /\ \A c \in Devices :
           /\ doc'[c].refresh_nonce = doc[c].refresh_nonce
           /\ doc'[c].latest_refresh_nonce = doc[c].latest_refresh_nonce
           /\ c # d => doc'[c] = doc[c] /\ runs'[c] = runs[c]
      /\ doc'[d].last_executed = "old" /\ runs'[d] = 0
  <2>1. /\ doc \in [Devices -> Documents] /\ runs \in [Devices -> Nat]
        /\ doc' = [doc EXCEPT ![d].last_executed = "old"] /\ runs' = [runs EXCEPT ![d] = 0]
    BY TypeParts DEF Elapse
  <2> QED
    BY <2>1 DEF Documents
<1>3. Present' = Present
  BY <1>1 DEF Present, Waiting
<1>4. ReadIsStored' /\ TogglesEnqueue'
  <2>1. ASSUME NEW w \in Workers, pc'[w] = "act"
        PROVE  job'[w].device \in Devices
    BY <1>1, <2>1, TypeParts, JobForms DEF Busy
  <2> QED
    BY <1>1, <1>2, <2>1 DEF Rest, ReadIsStored, TogglesEnqueue, Stale, Due
<1>5. RunsDiffer'
  BY <1>1 DEF Rest, RunsDiffer
<1>6. StoredIsOwed'
  BY <1>1, <1>2, <1>3, StoredStays DEF Rest, IsOwed
<1>7. RunOnce'
  BY <1>1, <1>2, <1>3, OnceStays DEF Rest
<1>8. DueIsNotRun'
  BY <1>2, DueStays DEF Rest, Due, DueIsNotRun
<1>9. UpdatesAreOwed'
  BY <1>1, <1>2, <1>3 DEF Rest, UpdatesAreOwed, IsOwed, Run, Due
<1> QED
  BY <1>4, <1>5, <1>6, <1>7, <1>8, <1>9 DEF Rest

\* Steps that leave documents and histories alone, and no job behind.
LEMMA QuietKeeps ==
    ASSUME TypeOK, TypeOK', Rest,
           doc' = doc, runs' = runs, lost' = lost,
           \A x : x \in Present' <=> x \in Present, RunsDiffer'
    PROVE  StoredIsOwed' /\ DueIsNotRun' /\ RunOnce'
<1>1. StoredIsOwed'
  BY StoredStays DEF Rest, IsOwed
<1>2. RunOnce'
  BY OnceStays DEF Rest
<1>3. DueIsNotRun'
  BY DEF Rest, DueIsNotRun, Due
<1> QED
  BY <1>1, <1>2, <1>3

LEMMA FindKeeps ==
    ASSUME OneWorker, TypeOK, TypeOK', Rest, NEW w \in Workers, Find(w)
    PROVE  Rest'
<1>1. /\ doc' = doc /\ jobs' = jobs /\ job' = job /\ runs' = runs /\ lost' = lost
      /\ updates' = updates
  BY DEF Find, jobVars, historyVars
<1>2. Moves(w, "check", todo'[w], updates[w], job[w], read[w])
      /\ (todo'[w] = {d \in Devices : Due(d) /\ Eligible(d)} \/ todo'[w] = todo[w])
  BY CheckMoves
<1>3. pc'[w] = "check"
  BY <1>2, Arrives
<1>4. \A x : x \in Present' <=> x \in Present
  BY <1>1 DEF Present, Waiting
<1>5. RunsDiffer'
  BY <1>1 DEF Rest, RunsDiffer
<1>6. ReadIsStored' /\ TogglesEnqueue'
  BY <1>3, NotActing
<1>7. UpdatesAreOwed'
  <2>1. pc[w] = "find"
    BY DEF Find
  <2>2. todo[w] = {} /\ \A d \in Devices : updates[w][d] = NoNonce
    BY <2>1, TypeParts
  <2>3. \A d \in Devices : d \in todo'[w] => Due(d)
    BY <1>2, <2>2
  <2>4. \A v \in Workers : v = w
    BY DEF OneWorker
  <2> QED
    BY <1>1, <2>2, <2>3, <2>4 DEF UpdatesAreOwed, Due
<1> QED
  BY <1>1, <1>4, <1>5, <1>6, <1>7, QuietKeeps DEF Rest

LEMMA QuietBatchKeeps ==
    ASSUME OneWorker, TypeOK, TypeOK', Rest, NEW w \in Workers,
           EndCheck(w) \/ Pop(w) \/ Cut(w) \/ EndBatch(w)
    PROVE  Rest'
<1>1. doc' = doc /\ runs' = runs /\ lost' = lost
  BY DEF EndCheck, Pop, Cut, EndBatch, historyVars
<1>2. pc'[w] \notin {"check", "act", "enqueue"}
  <2>1. Cut(w) => pc[w] = "batch"
    BY DEF Cut
  <2> QED
    BY <2>1, CheckMoves, BatchMoves, Arrives
<1>3. (\A x : x \in Present' <=> x \in Present) /\ RunsDiffer'
  <2>1. CASE Pop(w)
    BY <2>1, PresentPopped, DifferPopped DEF Rest
  <2>2. CASE ~Pop(w)
    <3>1. jobs' = jobs /\ job' = job
      BY <2>2 DEF EndCheck, Cut, EndBatch, jobVars
    <3> QED
      BY <3>1 DEF Rest, Present, Waiting, RunsDiffer
  <2> QED
    BY <2>1, <2>2
<1>4. ReadIsStored' /\ TogglesEnqueue' /\ UpdatesAreOwed'
  BY <1>2, NotActing, NotChecking
<1> QED
  BY <1>1, <1>3, <1>4, QuietKeeps DEF Rest

LEMMA RefreshKeeps ==
    ASSUME OneWorker, UuidsSuffice, TypeOK, TypeOK', Rest,
           NEW w \in Workers, NEW d \in todo[w], NEW o \in Outcomes, Refresh(w, d, o)
    PROVE  Rest'
<1> DEFINE new == NewNonce
<1>1. d \in Devices /\ new \in Nonces /\ IsNew(new) /\ Run(d, new) \in Jobs
  BY TypeParts, NewNonceIsNew, JobKinds DEF AnyNonce
<1>2. /\ doc' = doc /\ job' = job /\ runs' = runs
      /\ \/ jobs' = Append(jobs, Run(d, new)) /\ lost' = lost \ {new}
         \/ jobs' = jobs /\ lost' = lost \cup {new}
  BY DEF Refresh, Push, jobVars
<1>3. /\ pc'[w] = "check" /\ todo'[w] = todo[w] \ {d}
      /\ updates'[w] = [updates[w] EXCEPT ![d] = new]
  <2>1. pc[w] = "check"
    BY DEF Refresh
  <2>2. Moves(w, pc[w], todo[w] \ {d}, [updates[w] EXCEPT ![d] = new], job[w], read[w])
    BY CheckMoves
  <2> QED
    BY <2>1, <2>2, Arrives
<1>4. /\ \A c \in Devices : new # doc[c].refresh_nonce /\ new # updates[w][c]
      /\ \A c : Run(c, new) \notin Present
  BY <1>1 DEF IsNew, Run
<1> HIDE DEF new
<1>5. /\ \A x : x \in Present' => x \in Present \/ x = Run(d, new)
      /\ \A x : x \in Present => x \in Present'
      /\ jobs' # jobs => Run(d, new) \in Present'
  BY <1>1, <1>2, PresentNext
<1>6. RunsDiffer'
  BY <1>1, <1>2, <1>4, DifferNext DEF Rest
<1>7. ReadIsStored' /\ TogglesEnqueue'
  BY <1>3, NotActing
<1>8. \A c \in Devices : \A n : n # new /\ IsOwed(c, n) => Run(c, n) \in Present' \/ n \in lost'
  BY <1>2, <1>5 DEF IsOwed
<1>9. StoredIsOwed'
  BY <1>2, <1>4, <1>8, StoredStays DEF Rest
<1>10. RunOnce'
  <2>1. \A c \in Devices : Run(c, doc[c].refresh_nonce) # Run(d, new)
    BY <1>4 DEF Run
  <2> QED
    BY <1>2, <1>5, <2>1, OnceStays DEF Rest
<1>11. DueIsNotRun'
  BY <1>2 DEF Rest, DueIsNotRun, Due
<1>12. Run(d, new) \in Present' \/ new \in lost'
  <2>1. CASE jobs' = Append(jobs, Run(d, new)) /\ lost' = lost \ {new}
    <3>1. jobs \in Seq(Jobs)
      BY TypeParts
    <3>2. jobs' # jobs
      BY <1>1, <2>1, <3>1
    <3> QED
      BY <1>5, <3>2
  <2>2. CASE lost' = lost \cup {new}
    BY <2>2
  <2> QED
    BY <1>2, <2>1, <2>2
<1>13. UpdatesAreOwed'
  <2>1. updates[w] \in [Devices -> AnyNonce]
    BY TypeParts
  <2>2. ASSUME NEW c \in Devices
        PROVE  /\ c \in todo'[w] => Due(c)
               /\ updates'[w][c] # NoNonce =>
                    /\ Due(c)
                    /\ Run(c, updates'[w][c]) \in Present' \/ updates'[w][c] \in lost'
    <3>1. /\ c \in todo[w] => Due(c)
          /\ updates[w][c] # NoNonce => Due(c) /\ IsOwed(c, updates[w][c])
      BY DEF Rest, UpdatesAreOwed
    <3>2. CASE c = d
      <4>1. Due(d)
        BY <1>1 DEF Rest, UpdatesAreOwed
      <4> QED
        BY <1>1, <1>3, <1>12, <2>1, <3>2, <4>1
    <3>3. CASE c # d
      BY <1>3, <1>4, <1>8, <2>1, <3>1, <3>3
    <3> QED
      BY <3>2, <3>3
  <2>3. \A v \in Workers : v = w
    BY DEF OneWorker
  <2> QED
    BY <1>2, <2>2, <2>3 DEF UpdatesAreOwed, IsOwed, Run, Due
<1> QED
  BY <1>6, <1>7, <1>9, <1>10, <1>11, <1>13 DEF Rest

LEMMA StoreKeeps ==
    ASSUME OneWorker, TypeOK, TypeOK', Rest,
           NEW w \in Workers, NEW d \in Devices, StoreNonce(w, d)
    PROVE  Rest'
<1> DEFINE n == updates[w][d]
<1>1. /\ jobs' = jobs /\ job' = job /\ runs' = runs /\ lost' = lost
      /\ doc' = [doc EXCEPT ![d].refresh_nonce = n] \/ doc' = doc
      /\ n # NoNonce /\ n \in AnyNonce
  BY TypeParts DEF StoreNonce, jobVars, historyVars
<1>2. /\ pc'[w] = "check" /\ todo'[w] = todo[w]
      /\ updates'[w] = [updates[w] EXCEPT ![d] = NoNonce]
  <2>1. pc[w] = "check"
    BY DEF StoreNonce
  <2> QED
    BY <2>1, CheckMoves, Arrives
<1>3. \A x : x \in Present' <=> x \in Present
  BY <1>1 DEF Present, Waiting
<1>4. RunsDiffer'
  BY <1>1 DEF Rest, RunsDiffer
<1>5. ReadIsStored' /\ TogglesEnqueue'
  BY <1>2, NotActing
<1>6. Due(d) /\ IsOwed(d, n) /\ runs[d] = 0
  BY <1>1 DEF Rest, UpdatesAreOwed, DueIsNotRun
<1>7. /\ \A c \in Devices : /\ doc'[c].last_executed = doc[c].last_executed
                            /\ doc'[c].latest_refresh_nonce = doc[c].latest_refresh_nonce
                            /\ c # d => doc'[c] = doc[c]
      /\ doc'[d].refresh_nonce = n \/ doc'[d] = doc[d]
  <2>1. doc \in [Devices -> Documents]
    BY TypeParts
  <2> QED
    BY <1>1, <2>1 DEF Documents
<1> HIDE DEF n
<1>8. StoredIsOwed'
  <2>1. ASSUME NEW c \in Devices, ~(doc'[c].refresh_nonce = doc'[c].latest_refresh_nonce)
        PROVE  /\ doc'[c].refresh_nonce # NoNonce
               /\ IsOwed(c, doc'[c].refresh_nonce)
    <3>1. ~Eligible(c) => doc[c].refresh_nonce # NoNonce /\ IsOwed(c, doc[c].refresh_nonce)
      BY DEF Rest, StoredIsOwed
    <3>2. CASE doc'[c] = doc[c]
      BY <2>1, <3>1, <3>2 DEF Eligible
    <3>3. CASE doc'[c] # doc[c]
      BY <1>1, <1>6, <1>7, <3>3
    <3> QED
      BY <3>2, <3>3
  <2> QED
    BY <1>1, <1>3, <2>1 DEF StoredIsOwed, IsOwed, Eligible, Run
<1>9. RunOnce'
  <2>1. ASSUME NEW c \in Devices, doc'[c].refresh_nonce # NoNonce
        PROVE  /\ runs[c] <= 1
               /\ runs[c] = 1 => Run(c, doc'[c].refresh_nonce) \notin Present
    <3>1. doc[c].refresh_nonce # NoNonce =>
            runs[c] <= 1 /\ (runs[c] = 1 => Run(c, doc[c].refresh_nonce) \notin Present)
      BY DEF Rest, RunOnce
    <3>2. CASE doc'[c] = doc[c]
      BY <2>1, <3>1, <3>2
    <3>3. CASE doc'[c] # doc[c]
      BY <1>6, <1>7, <3>3
    <3> QED
      BY <3>2, <3>3
  <2> QED
    BY <1>1, <1>3, <2>1 DEF RunOnce, Run
<1>10. DueIsNotRun'
  BY <1>1, <1>7, DueStays DEF Rest, DueIsNotRun, Due
<1>11. UpdatesAreOwed'
  <2>1. updates[w] \in [Devices -> AnyNonce]
    BY TypeParts
  <2>2. ASSUME NEW c \in Devices
        PROVE  /\ c \in todo'[w] => Due(c)
               /\ updates'[w][c] # NoNonce => Due(c) /\ IsOwed(c, updates'[w][c])
    BY <1>2, <2>1 DEF Rest, UpdatesAreOwed
  <2>3. \A v \in Workers : v = w
    BY DEF OneWorker
  <2> QED
    BY <1>1, <1>3, <1>7, <2>2, <2>3 DEF UpdatesAreOwed, IsOwed, Run, Due
<1> QED
  BY <1>4, <1>5, <1>8, <1>9, <1>10, <1>11 DEF Rest

LEMMA BeginKeeps ==
    ASSUME OneWorker, TypeOK, TypeOK', Rest, NEW w \in Workers, Begin(w)
    PROVE  Rest'
<1>1. /\ doc' = doc /\ jobs' = jobs /\ job' = job /\ runs' = runs /\ lost' = lost
  BY DEF Begin, historyVars
<1>2. pc'[w] = "act" /\ read'[w] = doc[job[w].device]
  BY BatchMoves, Arrives
<1>3. (\A x : x \in Present' <=> x \in Present) /\ RunsDiffer'
  BY <1>1 DEF Rest, Present, Waiting, RunsDiffer
<1>4. UpdatesAreOwed'
  BY <1>2, NotChecking
<1>5. ReadIsStored' /\ TogglesEnqueue'
  <2>1. ~Stale(job[w])
    BY DEF Begin
  <2>2. \A v \in Workers : v = w
    BY DEF OneWorker
  <2> QED
    BY <1>1, <1>2, <2>1, <2>2 DEF ReadIsStored, TogglesEnqueue, Stale, Due
<1> QED
  BY <1>1, <1>3, <1>4, <1>5, QuietKeeps DEF Rest

LEMMA ReplaceKeeps ==
    ASSUME OneWorker, TypeOK, TypeOK', Rest, NEW w \in Workers, ToggleReplace(w)
    PROVE  Rest'
<1> DEFINE d == job[w].device
<1>1. /\ jobs' = jobs /\ job' = job /\ runs' = runs /\ lost' = lost
      /\ doc' = [doc EXCEPT ![d] = [read[w] EXCEPT !.on = job[w].on]]
      /\ pc[w] = "act" /\ job[w].what = "toggle"
  BY DEF ToggleReplace, jobVars, historyVars
<1>2. pc'[w] = "enqueue"
  BY BatchMoves, Arrives
<1>3. d \in Devices
  BY <1>1, TypeParts, JobForms DEF Busy
<1>4. (\A x : x \in Present' <=> x \in Present) /\ RunsDiffer'
  BY <1>1 DEF Rest, Present, Waiting, RunsDiffer
<1>5. /\ read[w].refresh_nonce = doc[d].refresh_nonce
      /\ read[w].latest_refresh_nonce = doc[d].latest_refresh_nonce
      /\ read[w].last_executed = "old" => Due(d)
  BY <1>1 DEF Rest, ReadIsStored
<1>6. \A c \in Devices : /\ doc'[c].refresh_nonce = doc[c].refresh_nonce
                         /\ doc'[c].latest_refresh_nonce = doc[c].latest_refresh_nonce
                         /\ doc'[c].last_executed = "old" => Due(c)
  <2>1. doc \in [Devices -> Documents] /\ read[w] \in Documents
    BY TypeParts
  <2>2. doc'[d] = [read[w] EXCEPT !.on = job[w].on] /\ \A c \in Devices \ {d} : doc'[c] = doc[c]
    BY <1>1, <1>3, <2>1
  <2>3. /\ doc'[d].refresh_nonce = read[w].refresh_nonce
        /\ doc'[d].latest_refresh_nonce = read[w].latest_refresh_nonce
        /\ doc'[d].last_executed = read[w].last_executed
    BY <2>1, <2>2 DEF Documents
  <2> QED
    BY <1>5, <2>2, <2>3 DEF Due
<1> HIDE DEF d
<1>7. UpdatesAreOwed'
  BY <1>2, NotChecking
<1>8. StoredIsOwed'
  BY <1>1, <1>4, <1>6, StoredStays DEF Rest, IsOwed
<1>9. RunOnce'
  BY <1>1, <1>4, <1>6, OnceStays DEF Rest
<1>10. DueIsNotRun'
  BY <1>1, <1>6, DueStays DEF Rest
<1>11. ReadIsStored' /\ TogglesEnqueue'
  BY <1>1, <1>2 DEF OneWorker, ReadIsStored, TogglesEnqueue
<1> QED
  BY <1>4, <1>7, <1>8, <1>9, <1>10, <1>11 DEF Rest

\* The ways in which a job ends have in common that the worker has none then.
LEMMA EndKeeps ==
    ASSUME OneWorker, TypeOK, TypeOK', Rest, NEW w \in Workers,
           \/ Ignore(w) \/ Finish(w) \/ JobFails(w) \/ Crash(w)
           \/ \E o \in Outcomes : ToggleEnqueue(w, o)
    PROVE  /\ ReadIsStored' /\ TogglesEnqueue' /\ UpdatesAreOwed' /\ RunsDiffer'
           /\ \A c \in Devices, n \in Nonces : Run(c, n) \in Present' => Run(c, n) \in Present
           /\ \A x : x \in Present => x \in Present' \/ x = job[w]
<1> DEFINE j == Run(job[w].device, NoNonce)
<1>1. job' = [job EXCEPT ![w] = NoJob]
  BY DEF Ignore, Finish, JobFails, Crash, ToggleEnqueue, EndJob
<1>2. jobs' = jobs \/ (j \in Jobs /\ jobs' = Append(jobs, j))
  <2>1. CASE \E o \in Outcomes : ToggleEnqueue(w, o)
    <3>1. job[w] \in Jobs
      BY <2>1, TypeParts DEF ToggleEnqueue, Busy
    <3>2. j \in Jobs
      BY <3>1, JobForms, JobKinds DEF AnyNonce
    <3> QED
      BY <2>1, <3>2 DEF ToggleEnqueue, Push
  <2>2. CASE ~ \E o \in Outcomes : ToggleEnqueue(w, o)
    BY <2>2 DEF Ignore, Finish, JobFails, Crash
  <2> QED
    BY <2>1, <2>2
<1>3. ~IsNonced(j) /\ \A c \in Devices, n \in Nonces : Run(c, n) # j
  BY ScheduleAssumption DEF IsNonced, Run
<1> HIDE DEF j
<1>4. /\ \A x : x \in Present' => x \in Present \/ x = j
      /\ \A x : x \in Present => x \in Present' \/ x = job[w]
  BY <1>1, <1>2, PresentNext
<1>5. RunsDiffer'
  BY <1>1, <1>2, <1>3, DifferNext DEF Rest
<1>6. pc'[w] \notin {"check", "act", "enqueue"}
  <2>1. \/ Moves(w, "batch", todo[w], updates[w], NoJob, Fresh)
        \/ Moves(w, "find", {}, [d \in Devices |-> NoNonce], NoJob, Fresh)
    BY BatchMoves
  <2> QED
    BY <2>1, Arrives
<1>7. ReadIsStored' /\ TogglesEnqueue' /\ UpdatesAreOwed'
  BY <1>6, NotActing, NotChecking
<1> QED
  BY <1>3, <1>4, <1>5, <1>7

\* A nonce in a document is one of Nonces or none.
LEMMA StoredNonces ==
    ASSUME TypeOK, NEW d \in Devices, doc[d].refresh_nonce # NoNonce
    PROVE  doc[d].refresh_nonce \in Nonces
  BY TypeParts DEF Documents, AnyNonce

\* A job that ends without having run is stale, or is counted among the lost,
\* or was a toggle.
LEMMA DropKeeps ==
    ASSUME OneWorker, TypeOK, TypeOK', Rest, NEW w \in Workers,
           \/ Ignore(w) \/ JobFails(w) \/ Crash(w)
           \/ \E o \in Outcomes : ToggleEnqueue(w, o)
    PROVE  Rest'
<1>1. doc' = doc /\ runs' = runs
  BY DEF Ignore, JobFails, Crash, ToggleEnqueue, historyVars
<1>2. \A n \in Nonces : n \in lost => n \in lost'
  BY DEF Ignore, JobFails, Crash, ToggleEnqueue, historyVars
<1>3. ASSUME NEW d \in Devices, doc[d].refresh_nonce # NoNonce,
             job[w] = Run(d, doc[d].refresh_nonce)
      PROVE  doc[d].refresh_nonce \in lost'
  <2>1. /\ doc[d].refresh_nonce \in AnyNonce
    BY TypeParts DEF Documents
  <2>2. /\ job[w] # NoJob /\ job[w].what = "run" /\ job[w].device = d
        /\ job[w].nonce = doc[d].refresh_nonce
    BY <1>3, <2>1, JobKinds
  <2>3. ~Ignore(w)
    BY <2>2 DEF Ignore, Stale
  <2>4. ~ \E o \in Outcomes : ToggleEnqueue(w, o)
    BY <2>2 DEF ToggleEnqueue, Rest, TogglesEnqueue
  <2>5. lost' = lost \cup NonceOf(job[w])
    BY <2>3, <2>4 DEF JobFails, Crash
  <2>6. doc[d].refresh_nonce \in NonceOf(job[w])
    BY <1>3, <2>2 DEF NonceOf
  <2> QED
    BY <2>5, <2>6
<1>4. StoredIsOwed'
  <2>1. ASSUME NEW d \in Devices, doc[d].refresh_nonce # NoNonce,
               IsOwed(d, doc[d].refresh_nonce)
        PROVE  Run(d, doc[d].refresh_nonce) \in Present' \/ doc[d].refresh_nonce \in lost'
    BY <1>2, <1>3, <2>1, EndKeeps, StoredNonces DEF IsOwed
  <2> QED
    BY <1>1, <2>1, StoredStays DEF Rest
<1>5. RunOnce'
  <2>1. ASSUME NEW d \in Devices, doc[d].refresh_nonce # NoNonce,
               Run(d, doc[d].refresh_nonce) \in Present'
        PROVE  Run(d, doc[d].refresh_nonce) \in Present
    BY <2>1, EndKeeps, StoredNonces
  <2> QED
    BY <1>1, <2>1, OnceStays DEF Rest
<1>6. DueIsNotRun'
  BY <1>1 DEF Rest, DueIsNotRun, Due
<1>7. ReadIsStored' /\ TogglesEnqueue' /\ UpdatesAreOwed' /\ RunsDiffer'
  BY EndKeeps
<1> QED
  BY <1>4, <1>5, <1>6, <1>7 DEF Rest

LEMMA FinishKeeps ==
    ASSUME OneWorker, TypeOK, TypeOK', Rest, NEW w \in Workers, Finish(w)
    PROVE  Rest'
<1> DEFINE d == job[w].device
<1>1. /\ pc[w] = "act" /\ job[w].what = "run" /\ lost' = lost /\ jobs' = jobs
      /\ doc' = [[doc EXCEPT ![d].last_executed = "recent"] EXCEPT ![d].latest_refresh_nonce =
                   read[w].refresh_nonce]
      /\ runs' = [runs EXCEPT ![d] = IF job[w].nonce = NoNonce THEN @ ELSE @ + 1]
      /\ job' = [job EXCEPT ![w] = NoJob]
  BY DEF Finish, Executed, EndJob
<1>2. /\ d \in Devices /\ job[w] # NoJob /\ job[w].nonce \in AnyNonce
      /\ job[w] = Run(d, job[w].nonce)
  <2>1. job[w] \in Jobs /\ job[w] # NoJob
    BY <1>1, TypeParts DEF Busy
  <2> QED
    BY <1>1, <2>1, JobForms
<1>3. ~Stale(job[w]) /\ read[w].refresh_nonce = doc[d].refresh_nonce
  BY <1>1 DEF Rest, ReadIsStored
<1>4. /\ \A c \in Devices : /\ doc'[c].refresh_nonce = doc[c].refresh_nonce
                            /\ c # d => doc'[c] = doc[c] /\ runs'[c] = runs[c]
      /\ doc'[d].latest_refresh_nonce = doc[d].refresh_nonce
      /\ doc'[d].last_executed = "recent"
      /\ runs'[d] = IF job[w].nonce = NoNonce THEN runs[d] ELSE runs[d] + 1
  <2>1. doc \in [Devices -> Documents] /\ runs \in [Devices -> Nat]
    BY TypeParts
  <2>2. runs'[d] = IF job[w].nonce = NoNonce THEN runs[d] ELSE runs[d] + 1
    BY <1>1, <1>2, <2>1
  <2>3. \A c \in Devices \ {d} : doc'[c] = doc[c] /\ runs'[c] = runs[c]
    BY <1>1, <1>2, <2>1
  <2>4. doc'[d] = [doc[d] EXCEPT !.last_executed = "recent",
                                 !.latest_refresh_nonce = read[w].refresh_nonce]
    BY <1>1, <1>2, <2>1
  <2>5. /\ doc'[d].refresh_nonce = doc[d].refresh_nonce
        /\ doc'[d].latest_refresh_nonce = read[w].refresh_nonce
        /\ doc'[d].last_executed = "recent"
    BY <1>2, <2>1, <2>4 DEF Documents
  <2> QED
    BY <1>3, <2>2, <2>3, <2>5
<1> HIDE DEF d
<1>5. \A c \in Devices : \A n : c # d => Run(c, n) # job[w]
  BY <1>2 DEF Run
<1>6. StoredIsOwed'
  <2>1. ASSUME NEW c \in Devices, c # d, IsOwed(c, doc[c].refresh_nonce)
        PROVE  Run(c, doc[c].refresh_nonce) \in Present' \/ doc[c].refresh_nonce \in lost'
    BY <1>1, <1>5, <2>1, EndKeeps DEF IsOwed
  <2> QED
    BY <1>4, <2>1, StoredStays DEF Rest
<1>7. DueIsNotRun'
  BY <1>4, DueStays DEF Rest, DueIsNotRun, Due
<1>8. RunOnce'
  <2>1. ASSUME NEW c \in Devices, doc[c].refresh_nonce # NoNonce
        PROVE  /\ runs'[c] <= 1
               /\ runs'[c] = 1 => Run(c, doc[c].refresh_nonce) \notin Present'
    <3> DEFINE n == doc[c].refresh_nonce
    <3>1. /\ runs[c] <= 1 /\ (runs[c] = 1 => Run(c, n) \notin Present) /\ runs[c] \in Nat
      BY <2>1, TypeParts DEF Rest, RunOnce
    <3>2. n \in Nonces
      BY <2>1, StoredNonces
    <3>3. Run(c, n) \in Present' => Run(c, n) \in Present
      BY <3>2, EndKeeps
    <3>4. CASE c # d \/ job[w].nonce = NoNonce
      BY <1>4, <3>1, <3>3, <3>4
    <3>5. CASE c = d /\ job[w].nonce # NoNonce
      <4>1. job[w] = Run(c, n) /\ IsNonced(job[w])
        BY <1>1, <1>2, <1>3, <2>1, <3>5 DEF Stale, IsNonced, d
      <4>2. Run(c, n) \in Present
        BY <1>2, <4>1, PresentMembers
      <4>3. runs[c] = 0
        BY <3>1, <4>2
      <4>4. Run(c, n) \notin Present'
        <5>1. \A i \in DOMAIN jobs : jobs[i] # Run(c, n)
          BY <4>1 DEF Rest, RunsDiffer
        <5>2. \A v \in Workers : job'[v] = NoJob
          BY <1>1, TypeParts DEF OneWorker
        <5>3. Run(c, n) # NoJob
          BY <1>2, <4>1
        <5> QED
          BY <1>1, <5>1, <5>2, <5>3, PresentMembersNext
      <4> QED
        BY <1>4, <3>5, <4>3, <4>4
    <3> QED
      BY <3>4, <3>5
  <2> QED
    BY <1>4, <2>1 DEF RunOnce, Run
<1>9. ReadIsStored' /\ TogglesEnqueue' /\ UpdatesAreOwed' /\ RunsDiffer'
  BY EndKeeps
<1> QED
  BY <1>6, <1>7, <1>8, <1>9 DEF Rest

LEMMA StutterKeeps ==
    ASSUME Rest, UNCHANGED vars
    PROVE  Rest'
<1>1. /\ doc' = doc /\ jobs' = jobs /\ pc' = pc /\ todo' = todo /\ updates' = updates
      /\ job' = job /\ read' = read /\ runs' = runs /\ lost' = lost
  BY DEF vars, checkVars, jobVars, historyVars
<1>2. ReadIsStored' /\ TogglesEnqueue' /\ RunsDiffer' /\ DueIsNotRun'
  BY <1>1 DEF Rest, ReadIsStored, TogglesEnqueue, RunsDiffer, DueIsNotRun, Stale, Due
<1>3. Present' = Present
  BY <1>1 DEF Present, Waiting
<1>4. StoredIsOwed' /\ UpdatesAreOwed' /\ RunOnce'
  BY <1>1, <1>3 DEF Rest, StoredIsOwed, UpdatesAreOwed, RunOnce, IsOwed, Eligible, Due, Run
<1> QED
  BY <1>2, <1>4 DEF Rest

LEMMA InvNext ==
    ASSUME OneWorker, UuidsSuffice, IInv, [Next]_vars
    PROVE  IInv'
<1>1. TypeOK /\ Rest
  BY DEF IInv, Rest
<1>2. TypeOK'
  BY <1>1, TypeNext
<1>3. ASSUME NEW w \in Workers, Check(w)
      PROVE  Rest'
  BY <1>1, <1>2, <1>3, FindKeeps, RefreshKeeps, StoreKeeps, QuietBatchKeeps DEF Check
<1>4. ASSUME NEW w \in Workers, Batch(w) \/ Crash(w)
      PROVE  Rest'
  BY <1>1, <1>2, <1>4, QuietBatchKeeps, BeginKeeps, ReplaceKeeps, DropKeeps, FinishKeeps DEF Batch
<1>5. ASSUME NEW d \in Devices, Elapse(d) \/ \E b \in BOOLEAN : RequestToggle(d, b)
      PROVE  Rest'
  BY <1>1, <1>2, <1>5, ElapseKeeps, RequestKeeps
<1>6. ASSUME UNCHANGED vars
      PROVE  Rest'
  BY <1>1, <1>6, StutterKeeps
<1>7. Rest'
  BY <1>3, <1>4, <1>5, <1>6 DEF Next
<1> QED
  BY <1>2, <1>7 DEF IInv, Rest

LEMMA InvInit == Init => IInv
<1> SUFFICES ASSUME Init
             PROVE  IInv
  OBVIOUS
<1>1. /\ \A d \in Devices : doc[d] = Fresh /\ runs[d] = 0
      /\ jobs = <<>> /\ lost = {}
      /\ \A w \in Workers : /\ pc[w] = "find" /\ todo[w] = {} /\ job[w] = NoJob
                            /\ \A d \in Devices : updates[w][d] = NoNonce
  BY DEF Init
<1>2. TypeOK
  <2>1. doc \in [Devices -> Documents] /\ read \in [Workers -> Documents]
    BY FreshIsDocument DEF Init
  <2>2. updates \in [Workers -> [Devices -> AnyNonce]]
    BY DEF Init, AnyNonce
  <2>3. jobs \in Seq(Jobs)
    BY <1>1
  <2>4. 0 \in 0..MaxToggles /\ 0 \in 0..MaxFaults
    BY ScheduleAssumption, FaultsAssumption
  <2>5. /\ link \in [Workers -> {"up", "broken"}]
        /\ pc \in [Workers -> {"find", "check", "batch", "begin", "act", "enqueue"}]
        /\ todo \in [Workers -> SUBSET Devices] /\ job \in [Workers -> Jobs \cup {NoJob}]
        /\ runs \in [Devices -> Nat] /\ lost \in SUBSET Nonces
    BY DEF Init
  <2>6. toggles \in 0..MaxToggles /\ faults \in 0..MaxFaults
    BY <2>4 DEF Init
  <2> QED
    BY <1>1, <2>1, <2>2, <2>3, <2>5, <2>6 DEF TypeOK
<1>3. ReadIsStored /\ TogglesEnqueue /\ StoredIsOwed /\ UpdatesAreOwed
  BY <1>1 DEF ReadIsStored, TogglesEnqueue, StoredIsOwed, UpdatesAreOwed, Eligible, Fresh
<1>4. DueIsNotRun /\ RunsDiffer /\ RunOnce
  BY <1>1 DEF DueIsNotRun, RunsDiffer, RunOnce, Fresh
<1> QED
  BY <1>2, <1>3, <1>4 DEF IInv

\* With one process: what a device is owed exists, and what was run has no
\* second job.
THEOREM NoncesAgree ==
    ASSUME OneWorker, UuidsSuffice
    PROVE  Spec => []IInv
<1>1. Init => IInv
  BY InvInit
<1>2. IInv /\ [Next]_vars => IInv'
  BY InvNext
<1> QED
  BY <1>1, <1>2, PTL DEF Spec

\* For any number of processes, no variable loses its type.
THEOREM Types ==
    ASSUME UuidsSuffice
    PROVE  Spec => []TypeOK
<1>1. Init => TypeOK
  BY InvInit DEF IInv
<1>2. TypeOK /\ [Next]_vars => TypeOK'
  BY TypeNext
<1> QED
  BY <1>1, <1>2, PTL DEF Spec

\* With one process, a due schedule that the check passes over has a job that
\* will run it, unless the run of its nonce failed or was lost.
THEOREM SkippedAreOwed ==
    ASSUME OneWorker, UuidsSuffice
    PROVE  Spec => []SkippedIsOwed
<1>1. IInv => SkippedIsOwed
  BY DEF IInv, StoredIsOwed, SkippedIsOwed, IsOwed, HasRun
<1> QED
  BY <1>1, NoncesAgree, PTL

\* With one process, of the runs that were queued in a row at most one is
\* carried out until the device is due again.
THEOREM RunsAreRationed ==
    ASSUME OneWorker, UuidsSuffice
    PROVE  Spec => []OncePerPeriod
<1>1. IInv => OncePerPeriod
  BY DEF IInv, RunOnce, OncePerPeriod
<1> QED
  BY <1>1, NoncesAgree, PTL
=============================================================================

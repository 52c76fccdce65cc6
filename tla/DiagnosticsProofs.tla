------------------------- MODULE DiagnosticsProofs -------------------------
(***************************************************************************)
(* Claims are kept and only silent devices are cut off, for every number   *)
(* of devices, workers, chores and faults.                                 *)
(*                                                                         *)
(* Neither is inductive.  mark_active sets the state of a diagnostic that  *)
(* it read before, and what makes that harmless is that a worker on its    *)
(* way there holds no id whose claim counts.  The clean up deletes users   *)
(* whom it named before, and those of them that were heard from since are  *)
(* excused already when it names them.                                     *)
(***************************************************************************)
EXTENDS Diagnostics, TLAPS

\* A worker that has found a device unclaimed holds no claim that counts.
NoClaimInHand ==
    \A w \in Workers : pc[w] \in {"welcome", "pending"} => held[w] \notin claimed \ overtaken

\* Whom the operator has named was not heard from since.
NamedAreSilent ==
    \A i \in names : lastSeen[i] = "recently" => i \in excused

IInv == TypeOK /\ ClaimIsKept /\ NoClaimInHand /\ SilentOnlyAreCut /\ NamedAreSilent

-----------------------------------------------------------------------------
(* Types                                                                   *)

\* What the constants are.
LEMMA Numbers ==
    /\ MaxChores \in Nat /\ MaxFaults \in Nat /\ NoId \notin Ids
    /\ 0 \in 0..MaxChores /\ 0 \in 0..MaxFaults
  BY DiagnosticsAssumption, FaultsAssumption

\* Taking the first report.
LEMMA Taken ==
    ASSUME NEW s \in Seq(Ids), s # <<>>
    PROVE  Head(s) \in Ids /\ Tail(s) \in Seq(Ids)
  OBVIOUS

\* What a command or a fault leaves of the budget of faults.
LEMMA FaultTypes ==
    ASSUME faults \in 0..MaxFaults
    PROVE  /\ Fault => faults' \in 0..MaxFaults
           /\ \A l \in {"none", "up", "broken"}, o \in Outcomes :
                Issue(l, o) => faults' \in 0..MaxFaults /\ LinkAfter(o) \in {"up", "broken"}
  BY FaultsAssumption DEF Issue, Fault, LinkAfter, Outcomes

\* What a worker and its report may be.
Places ==
    /\ link \in [Workers -> {"none", "up", "broken"}]
    /\ pc \in [Workers -> {"frame", "take", "upsert", "welcome", "pending", "index", "claim"}]
    /\ held \in [Workers -> Ids \cup {NoId}]
    /\ \A w \in Workers :
         /\ held[w] \in Ids <=> pc[w] \in {"upsert", "welcome", "pending", "index", "claim"}
         /\ pc[w] # "frame" => link[w] # "none"

\* A frame that ends leaves its worker with nothing.
LEMMA FrameEnds ==
    ASSUME TypeOK, NEW w \in Workers, EndFrame(w)
    PROVE  /\ Places' /\ pc'[w] = "frame"
           /\ \A x \in Workers \ {w} : pc'[x] = pc[x] /\ held'[x] = held[x]
  BY Numbers DEF TypeOK, Places, EndFrame, To, Relink, Drop

\* The steps of a worker.
Moves(w) == Work(w) \/ Crash(w) \/ \E i \in Ids : FindDevice(w, i)

\* What a worker does to the places of workers, and to the rest.
LEMMA WorkPlaces ==
    ASSUME TypeOK, NEW w \in Workers, Moves(w)
    PROVE  Places'
<1>1. CASE Begin(w)
  <2>1. CASE link[w] = "none"
    BY <1>1, <2>1 DEF TypeOK, Places, Begin, Relink
  <2>2. CASE link[w] # "none"
    <3>1. /\ held' = held /\ link' = link /\ pc[w] = "frame"
          /\ pc' = [pc EXCEPT ![w] = "take"]
      BY <1>1, <2>2 DEF Begin, To
    <3>2. /\ pc' \in [Workers -> {"frame", "take", "upsert", "welcome", "pending", "index", "claim"}]
          /\ pc'[w] = "take" /\ \A x \in Workers \ {w} : pc'[x] = pc[x]
      BY <3>1 DEF TypeOK
    <3> QED
      BY <2>2, <3>1, <3>2 DEF TypeOK, Places
  <2> QED
    BY <2>1, <2>2
<1>2. ASSUME NEW o \in Outcomes, Take(w, o)
      PROVE  Places'
  <2>1. CASE EndFrame(w)
    BY <2>1, FrameEnds
  <2>2. CASE reports # <<>> /\ To(w, "upsert") /\ held' = [held EXCEPT ![w] = Head(reports)]
             /\ UNCHANGED link
    <3>1. Head(reports) \in Ids
      BY <2>2, Taken DEF TypeOK
    <3> QED
      BY <1>2, <2>2, <3>1 DEF TypeOK, Places, Take, To
  <2>3. CASE To(w, "frame") /\ UNCHANGED <<held, link>>
    BY <1>2, <2>3 DEF TypeOK, Places, Take, To
  <2> QED
    BY <1>2, <2>1, <2>2, <2>3 DEF Take
<1>3. CASE Upsert(w)
  <2>1. CASE EndFrame(w)
    BY <2>1, FrameEnds
  <2>2. CASE To(w, After(known[held[w]])) /\ UNCHANGED <<link, held>>
    <3>1. After(known[held[w]]) \in {"welcome", "index"}
      BY DEF After
    <3> QED
      BY <1>3, <2>2, <3>1 DEF TypeOK, Places, Upsert, To
  <2> QED
    BY <1>3, <2>1, <2>2 DEF Upsert
<1>4. CASE UpsertFails(w) \/ Crash(w)
  BY <1>4, FrameEnds DEF UpsertFails, Crash
<1>5. ASSUME NEW o \in Outcomes, Welcome(w, o)
      PROVE  Places'
  <2>1. LinkAfter(o) \in {"up", "broken"}
    BY <1>5 DEF LinkAfter
  <2> QED
    BY <1>5, <2>1 DEF TypeOK, Places, Welcome, To, Relink
<1>6. CASE SetPending(w) \/ SetPendingFails(w)
  <2>1. UNCHANGED <<link, held>> /\ pc[w] = "pending" /\ To(w, "index")
    BY <1>6 DEF SetPending, SetPendingFails
  <2> QED
    BY <2>1 DEF TypeOK, Places, To
<1>7. ASSUME NEW o \in Outcomes, Index(w, o)
      PROVE  Places'
  <2>1. CASE EndFrame(w)
    BY <2>1, FrameEnds
  <2>2. ASSUME NEW place \in {"take", "frame"}, To(w, place), Drop(w), UNCHANGED link
        PROVE  Places'
    BY <1>7, <2>2, Numbers DEF TypeOK, Places, Index, To, Drop
  <2> QED
    BY <1>7, <2>1, <2>2 DEF Index
<1>8. CASE Claim(w) \/ Refuse(w)
  <2>1. EndClaim(w)
    BY <1>8 DEF Claim, Refuse
  <2> QED
    BY <2>1, Numbers DEF TypeOK, Places, EndClaim, To, Drop
<1>9. ASSUME NEW i \in Ids, FindDevice(w, i)
      PROVE  Places'
  BY <1>9 DEF TypeOK, Places, FindDevice, To
<1> QED
  BY <1>1, <1>2, <1>3, <1>4, <1>5, <1>6, <1>7, <1>8, <1>9 DEF Work, Moves

\* Recording a state in the diagnostic of a device, old or new.
LEMMA Recorded ==
    ASSUME TypeOK, NEW i \in Ids, NEW state \in {"initial", "pending", "owned"},
           Record(i, state)
    PROVE  /\ known' \in [Ids -> {"absent", "initial", "pending", "owned"}]
           /\ unreadable' \in SUBSET Ids
           /\ \A j \in Ids : known'[j] = IF j = i THEN state ELSE known[j]
           /\ \A j \in Ids : lastSeen[j] # "never" \/ j \in unreadable' => known'[j] # "absent"
  BY DEF TypeOK, Record

\* What a worker leaves of the rest.
LEMMA WorkTypes ==
    ASSUME TypeOK, NEW w \in Workers, Moves(w)
    PROVE  TypeOK'
<1> USE DEF mongoVars, operatorVars, historyVars, workerVars
<1>1. Places'
  BY WorkPlaces
<1>2. faults' \in 0..MaxFaults
  <2>1. \/ faults' = faults
        \/ Fault
        \/ \E o \in Outcomes : Issue(link[w], o)
    BY DEF Moves, Work, Begin, Take, Upsert, UpsertFails, Welcome, SetPending,
           SetPendingFails, Index, Crash, Claim, Refuse, FindDevice
  <2>2. link[w] \in {"none", "up", "broken"} /\ faults \in 0..MaxFaults
    BY DEF TypeOK
  <2> QED
    BY <2>1, <2>2, FaultTypes
<1>3. reports' \in Seq(Ids)
  <2>1. reports' = reports \/ (reports # <<>> /\ reports' = Tail(reports))
    BY DEF Moves, Work, Begin, Take, Upsert, UpsertFails, Welcome, SetPending,
           SetPendingFails, Index, Crash, Claim, Refuse, FindDevice
  <2> QED
    BY <2>1, Taken DEF TypeOK
<1>4. UNCHANGED <<users, operatorVars>>
  BY DEF Moves, Work, Begin, Take, Upsert, UpsertFails, Welcome, SetPending,
         SetPendingFails, Index, Crash, Claim, Refuse, FindDevice
<1>5. CASE Upsert(w)
  <2>1. held[w] \in Ids
    BY <1>5 DEF TypeOK, Upsert
  <2>2. /\ known' \in [Ids -> {"absent", "initial", "pending", "owned"}]
        /\ lastSeen' \in [Ids -> {"never", "recently", "long ago"}]
        /\ excused' \in SUBSET Ids /\ UNCHANGED <<unreadable, welcomed, claimed, overtaken>>
        /\ \A i \in Ids : lastSeen'[i] # "never" \/ i \in unreadable => known'[i] # "absent"
    BY <1>5, <2>1 DEF TypeOK, Upsert
  <2> QED
    BY <1>1, <1>2, <1>3, <1>4, <2>2 DEF TypeOK, Places
<1>6. ASSUME NEW o \in Outcomes, Welcome(w, o)
      PROVE  TypeOK'
  <2>1. held[w] \in Ids
    BY <1>6 DEF TypeOK, Welcome
  <2>2. /\ welcomed' \in SUBSET Ids
        /\ UNCHANGED <<known, unreadable, lastSeen, excused, claimed, overtaken>>
    BY <1>6, <2>1 DEF TypeOK, Welcome
  <2> QED
    BY <1>1, <1>2, <1>3, <1>4, <2>2 DEF TypeOK, Places
<1>7. CASE SetPending(w)
  <2>1. held[w] \in Ids /\ Record(held[w], "pending")
    BY <1>7 DEF TypeOK, SetPending
  <2>2. UNCHANGED <<lastSeen, excused, welcomed, claimed, overtaken>>
    BY <1>7 DEF SetPending
  <2> QED
    BY <1>1, <1>2, <1>3, <1>4, <2>1, <2>2, Recorded DEF TypeOK, Places
<1>8. CASE Claim(w)
  <2>1. held[w] \in Ids /\ Record(held[w], "owned")
    BY <1>8 DEF TypeOK, Claim
  <2>2. /\ claimed' \in SUBSET Ids /\ overtaken' \in SUBSET Ids
        /\ UNCHANGED <<lastSeen, excused, welcomed>>
    BY <1>8, <2>1 DEF TypeOK, Claim
  <2> QED
    BY <1>1, <1>2, <1>3, <1>4, <2>1, <2>2, Recorded DEF TypeOK, Places
<1>9. CASE UNCHANGED <<mongoVars, historyVars>>
  BY <1>1, <1>2, <1>3, <1>4, <1>9 DEF TypeOK, Places
<1> QED
  BY <1>5, <1>6, <1>7, <1>8, <1>9
     DEF Moves, Work, Begin, Take, UpsertFails, SetPendingFails, Index, Crash, Refuse, FindDevice

\* Every step keeps the types.
LEMMA NextTypes ==
    ASSUME TypeOK, [Next]_vars
    PROVE  TypeOK'
<1> USE DEF mongoVars, operatorVars, historyVars, workerVars
<1>1. ASSUME NEW i \in Ids, Report(i) \/ Age(i)
      PROVE  TypeOK'
  <2>1. CASE Report(i)
    <3>1. reports' \in Seq(Ids)
      <4>1. reports \in Seq(Ids) /\ reports' = Append(reports, i)
        BY <2>1 DEF TypeOK, Report
      <4> QED
        BY <4>1
    <3> QED
      BY <2>1, <3>1 DEF TypeOK, Report
  <2>2. CASE Age(i)
    BY <2>2 DEF TypeOK, Age
  <2> QED
    BY <1>1, <2>1, <2>2
<1>2. ASSUME NEW w \in Workers, Moves(w)
      PROVE  TypeOK'
  BY <1>2, WorkTypes
<1>3. CASE Operate
  <2>0. ASSUME StartChore
        PROVE  chores' \in 0..MaxChores
    <3>1. chores \in 0..MaxChores /\ chores < MaxChores /\ chores' = chores + 1
      BY <2>0 DEF TypeOK, StartChore
    <3>2. MaxChores \in Nat
      BY DiagnosticsAssumption
    <3> QED
      BY <3>1, <3>2
  <2>1. ASSUME NEW i \in Ids, ResetRegistration(i)
        PROVE  TypeOK'
    <3>1. Record(i, "initial") /\ lastSeen' = lastSeen
      BY <2>1 DEF ResetRegistration
    <3>2. welcomed' \in SUBSET Ids /\ claimed' \in SUBSET Ids /\ overtaken' \in SUBSET Ids
      BY <2>1 DEF TypeOK, ResetRegistration, Forget
    <3>3. UNCHANGED <<users, reports, link, pc, held, chore, names, excused, faults>>
      BY <2>1 DEF ResetRegistration
    <3>4. chores' \in 0..MaxChores
      BY <2>0, <2>1 DEF ResetRegistration
    <3> QED
      BY <3>1, <3>2, <3>3, <3>4, Recorded DEF TypeOK
  <2>2. CASE FindSilent
    BY <2>0, <2>2 DEF TypeOK, FindSilent, Chore, Silent
  <2>3. CASE DeleteSilent
    <3>1. /\ known' \in [Ids -> {"absent", "initial", "pending", "owned"}]
          /\ lastSeen' \in [Ids -> {"never", "recently", "long ago"}]
          /\ unreadable' \in SUBSET Ids
          /\ \A j \in Ids : lastSeen'[j] # "never" \/ j \in unreadable' => known'[j] # "absent"
      BY <2>3 DEF TypeOK, DeleteSilent
    <3>2. welcomed' \in SUBSET Ids /\ claimed' \in SUBSET Ids /\ overtaken' \in SUBSET Ids
      BY <2>3 DEF TypeOK, DeleteSilent, Forget
    <3> QED
      BY <2>3, <3>1, <3>2 DEF TypeOK, DeleteSilent, Chore
  <2>4. CASE DisconnectSilent \/ GiveUp
    BY <2>4 DEF TypeOK, DisconnectSilent, GiveUp, Chore
  <2> QED
    BY <1>3, <2>1, <2>2, <2>3, <2>4 DEF Operate
<1>4. CASE UNCHANGED vars
  BY <1>4 DEF TypeOK, vars
<1> QED
  BY <1>1, <1>2, <1>3, <1>4 DEF Next, Moves

-----------------------------------------------------------------------------
(* Claims                                                                  *)

\* What a step leaves of the claims that count when it leaves them, and the
\* states they are recorded in, alone, and no worker finds a device unclaimed.
LEMMA ClaimsStay ==
    ASSUME ClaimIsKept, NoClaimInHand,
           claimed' \ overtaken' \subseteq claimed \ overtaken,
           \A i \in claimed' \ overtaken' : known[i] = "owned" => known'[i] = "owned",
           \A w \in Workers : pc'[w] \in {"welcome", "pending"} =>
               (pc[w] \in {"welcome", "pending"} /\ held'[w] = held[w])
    PROVE  ClaimIsKept' /\ NoClaimInHand'
  BY DEF ClaimIsKept, NoClaimInHand

\* The steps of a worker keep the claims.
LEMMA WorkKeepsClaims ==
    ASSUME TypeOK, ClaimIsKept, NoClaimInHand, NEW w \in Workers, Moves(w)
    PROVE  ClaimIsKept' /\ NoClaimInHand'
<1> USE DEF mongoVars, operatorVars, historyVars, workerVars
<1>0. CASE EndFrame(w) /\ UNCHANGED <<known, claimed, overtaken>>
  BY <1>0, FrameEnds, ClaimsStay
<1>1. CASE Upsert(w)
  <2>1. claimed' = claimed /\ overtaken' = overtaken
    BY <1>1 DEF Upsert
  <2>2. \A i \in claimed : known[i] = "owned" => known'[i] = "owned"
    BY <1>1 DEF TypeOK, Upsert
  <2>3. CASE EndFrame(w)
    BY <2>1, <2>2, <2>3, FrameEnds, ClaimsStay
  <2>4. CASE To(w, After(known[held[w]])) /\ UNCHANGED <<link, held>>
    <3>1. /\ pc'[w] = After(known[held[w]])
          /\ \A x \in Workers \ {w} : pc'[x] = pc[x]
      BY <2>4 DEF TypeOK, To
    <3>2. held[w] \in claimed \ overtaken => After(known[held[w]]) = "index"
      BY DEF ClaimIsKept, After
    <3> QED
      BY <2>1, <2>2, <2>4, <3>1, <3>2 DEF ClaimIsKept, NoClaimInHand
  <2> QED
    BY <1>1, <2>3, <2>4 DEF Upsert
<1>2. CASE SetPending(w)
  <2>1. held[w] \notin claimed \ overtaken
    BY <1>2 DEF NoClaimInHand, SetPending
  <2>2. \A i \in claimed \ overtaken : known[i] = "owned" => known'[i] = "owned"
    BY <1>2, <2>1 DEF TypeOK, SetPending, Record
  <2>3. \A x \in Workers : pc'[x] \in {"welcome", "pending"} =>
          (pc[x] \in {"welcome", "pending"} /\ held'[x] = held[x])
    BY <1>2 DEF TypeOK, SetPending, To
  <2>4. claimed' = claimed /\ overtaken' = overtaken
    BY <1>2 DEF SetPending
  <2> QED
    BY <2>2, <2>3, <2>4, ClaimsStay
<1>3. CASE Begin(w) \/ (\E o \in Outcomes : Welcome(w, o)) \/ SetPendingFails(w)
  <2>1. UNCHANGED <<known, claimed, overtaken, held>>
    BY <1>3 DEF Begin, Welcome, SetPendingFails
  <2>2. \A x \in Workers : pc'[x] \in {"welcome", "pending"} => pc[x] \in {"welcome", "pending"}
    BY <1>3 DEF TypeOK, Begin, Welcome, SetPendingFails, To
  <2> QED
    BY <2>1, <2>2, ClaimsStay
<1>5. ASSUME UNCHANGED <<known, claimed, overtaken>>,
             NEW place \in {"take", "frame", "upsert", "claim"}, To(w, place),
             \A x \in Workers \ {w} : held'[x] = held[x]
      PROVE  ClaimIsKept' /\ NoClaimInHand'
  BY <1>5, ClaimsStay DEF TypeOK, To
<1>6. ASSUME NEW o \in Outcomes, Take(w, o)
      PROVE  ClaimIsKept' /\ NoClaimInHand'
  BY <1>0, <1>5, <1>6 DEF TypeOK, Take
<1>7. ASSUME NEW o \in Outcomes, Index(w, o)
      PROVE  ClaimIsKept' /\ NoClaimInHand'
  BY <1>0, <1>5, <1>7 DEF TypeOK, Index, Drop
<1>8. ASSUME NEW i \in Ids, FindDevice(w, i)
      PROVE  ClaimIsKept' /\ NoClaimInHand'
  BY <1>5, <1>8 DEF TypeOK, FindDevice
<1>9. CASE Refuse(w)
  BY <1>5, <1>9 DEF TypeOK, Refuse, EndClaim, Drop
<1>10. CASE Claim(w)
  <2> DEFINE i == held[w]
             missed == \E x \in Workers : held[x] = i /\ pc[x] \in {"welcome", "pending"}
  <2>1. /\ claimed' = claimed \cup {i}
        /\ overtaken' = IF missed THEN overtaken \cup {i} ELSE overtaken \ {i}
        /\ Record(i, "owned") /\ i \in Ids
    BY <1>10 DEF TypeOK, Claim
  <2>2. /\ pc'[w] = "frame"
        /\ \A x \in Workers \ {w} : pc'[x] = pc[x] /\ held'[x] = held[x]
    BY <1>10 DEF TypeOK, Claim, EndClaim, To, Drop
  <2>3. \A j \in Ids : known'[j] = IF j = i THEN "owned" ELSE known[j]
    BY <2>1, Recorded
  <2>4. ClaimIsKept'
    BY <2>1, <2>3 DEF TypeOK, ClaimIsKept
  <2>5. ASSUME NEW x \in Workers, pc'[x] \in {"welcome", "pending"}
        PROVE  held'[x] \notin claimed' \ overtaken'
    <3>1. pc[x] \in {"welcome", "pending"} /\ held'[x] = held[x]
      BY <2>2, <2>5
    <3>2. held[x] \notin claimed \ overtaken
      BY <3>1 DEF NoClaimInHand
    <3>3. CASE held[x] = i
      BY <2>1, <3>1, <3>3
    <3>4. CASE held[x] # i
      BY <2>1, <3>1, <3>2, <3>4
    <3> QED
      BY <3>3, <3>4
  <2> QED
    BY <2>4, <2>5 DEF NoClaimInHand
<1> QED
  BY <1>0, <1>1, <1>2, <1>3, <1>6, <1>7, <1>8, <1>9, <1>10
     DEF Moves, Work, UpsertFails, Crash

\* So do those of users and operators.
LEMMA NextKeepsClaims ==
    ASSUME TypeOK, ClaimIsKept, NoClaimInHand, [Next]_vars
    PROVE  ClaimIsKept' /\ NoClaimInHand'
<1> USE DEF mongoVars, operatorVars, historyVars, workerVars
<1>1. CASE UNCHANGED <<known, workerVars, claimed, overtaken>>
  BY <1>1, ClaimsStay
<1>2. ASSUME NEW w \in Workers, Moves(w)
      PROVE  ClaimIsKept' /\ NoClaimInHand'
  BY <1>2, WorkKeepsClaims
<1>3. ASSUME NEW is \in SUBSET Ids, Forget(is), UNCHANGED workerVars,
             \A j \in Ids \ is : known'[j] = known[j]
      PROVE  ClaimIsKept' /\ NoClaimInHand'
  <2>1. claimed' \ overtaken' = (claimed \ overtaken) \ is /\ claimed \subseteq Ids
    BY <1>3 DEF TypeOK, Forget
  <2> QED
    BY <1>3, <2>1, ClaimsStay
<1>4. CASE Operate
  <2>1. ASSUME NEW i \in Ids, ResetRegistration(i)
        PROVE  ClaimIsKept' /\ NoClaimInHand'
    <3>1. \A j \in Ids \ {i} : known'[j] = known[j]
      BY <2>1 DEF TypeOK, ResetRegistration, Record
    <3> QED
      BY <1>3, <2>1, <3>1 DEF ResetRegistration
  <2>2. CASE DeleteSilent
    <3>1. Silent \in SUBSET Ids /\ \A j \in Ids \ Silent : known'[j] = known[j]
      BY <2>2 DEF DeleteSilent, Silent
    <3> QED
      BY <1>3, <2>2, <3>1 DEF DeleteSilent
  <2> QED
    BY <1>1, <1>4, <2>1, <2>2 DEF Operate, FindSilent, DisconnectSilent, GiveUp
<1> QED
  BY <1>1, <1>2, <1>4 DEF Next, Moves, Report, Age, vars

-----------------------------------------------------------------------------
(* Silence                                                                 *)

\* Whom the operator cuts off is silent, or was heard from too late.
LEMMA NextCutsSilent ==
    ASSUME TypeOK, SilentOnlyAreCut, NamedAreSilent, [Next]_vars
    PROVE  SilentOnlyAreCut' /\ NamedAreSilent'
<1> USE DEF mongoVars, operatorVars, historyVars, workerVars
<1>1. ASSUME UNCHANGED <<users, names, excused>>,
             \A i \in Ids : lastSeen'[i] = "recently" => lastSeen[i] = "recently"
      PROVE  SilentOnlyAreCut' /\ NamedAreSilent'
  BY <1>1 DEF TypeOK, SilentOnlyAreCut, NamedAreSilent
<1>2. ASSUME NEW w \in Workers, Upsert(w)
      PROVE  SilentOnlyAreCut' /\ NamedAreSilent'
  <2>1. /\ users' = users /\ names' = names /\ excused \subseteq excused'
        /\ held[w] \in names \/ held[w] \notin users => held[w] \in excused'
        /\ \A i \in Ids \ {held[w]} : lastSeen'[i] = lastSeen[i]
    BY <1>2 DEF TypeOK, Upsert
  <2> QED
    BY <2>1 DEF TypeOK, SilentOnlyAreCut, NamedAreSilent
<1>3. ASSUME NEW i \in Ids, Age(i)
      PROVE  SilentOnlyAreCut' /\ NamedAreSilent'
  <2>1. \A j \in Ids : lastSeen'[j] = "recently" => lastSeen[j] = "recently"
    BY <1>3 DEF TypeOK, Age
  <2> QED
    BY <1>1, <1>3, <2>1 DEF Age
<1>4. CASE FindSilent
  BY <1>4 DEF TypeOK, SilentOnlyAreCut, NamedAreSilent, FindSilent, Chore, Silent
<1>5. CASE DeleteSilent
  <2>1. \A j \in Ids : lastSeen'[j] = "recently" => lastSeen[j] = "recently"
    BY <1>5 DEF TypeOK, DeleteSilent
  <2> QED
    BY <1>1, <1>5, <2>1 DEF DeleteSilent, Chore
<1>6. CASE DisconnectSilent
  BY <1>6 DEF TypeOK, SilentOnlyAreCut, NamedAreSilent, DisconnectSilent, Chore
<1>7. CASE GiveUp
  BY <1>7 DEF TypeOK, SilentOnlyAreCut, NamedAreSilent, GiveUp, Chore
<1>8. CASE UNCHANGED <<users, lastSeen, names, excused>>
  BY <1>1, <1>8
<1>9. ASSUME NEW w \in Workers, Moves(w), ~Upsert(w)
      PROVE  UNCHANGED <<users, lastSeen, names, excused>>
  BY <1>9 DEF Moves, Work, Begin, Take, UpsertFails, Welcome, SetPending, SetPendingFails,
              Index, Crash, Claim, Refuse, FindDevice
<1> QED
  BY <1>2, <1>3, <1>4, <1>5, <1>6, <1>7, <1>8, <1>9
     DEF Next, Moves, Operate, Report, ResetRegistration, vars

-----------------------------------------------------------------------------
(* The theorems                                                            *)

\* The inductive invariant of mark_active, claims and clean ups.
THEOREM Knowledge == Spec => []IInv
<1>1. Init => IInv
  BY Numbers DEF Init, IInv, TypeOK, ClaimIsKept, NoClaimInHand, SilentOnlyAreCut, NamedAreSilent
<1>2. IInv /\ [Next]_vars => IInv'
  BY NextTypes, NextKeepsClaims, NextCutsSilent DEF IInv
<1> QED
  BY <1>1, <1>2, PTL DEF Spec

\* Type correctness: what the variables hold stays of the expected form, a
\* worker holds an id exactly while it handles a report, and a device that was
\* heard from has a diagnostic.
THEOREM Types == Spec => []TypeOK
<1>1. IInv => TypeOK
  BY DEF IInv
<1> QED
  BY Knowledge, <1>1, PTL

\* mark_active sets the state of no device whose claim it could have seen,
\* however many reports of it are handled at once.
THEOREM ClaimsAreKept == Spec => []ClaimIsKept
<1>1. IInv => ClaimIsKept
  BY DEF IInv
<1> QED
  BY Knowledge, <1>1, PTL

\* clean_disconnects deletes the user of no device that was heard from and that
\* it had not named before.
THEOREM OnlySilentAreCut == Spec => []SilentOnlyAreCut
<1>1. IInv => SilentOnlyAreCut
  BY DEF IInv
<1> QED
  BY Knowledge, <1>1, PTL
=============================================================================

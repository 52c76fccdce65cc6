------------------------- MODULE DeviceStateProofs -------------------------
(***************************************************************************)
(* What DeviceState promises of one registrar process, for every set of    *)
(* messages and calendars, every limit and every number of faults.  With   *)
(* two processes one can write over what the other wrote.                  *)
(***************************************************************************)
EXTENDS DeviceState, TLAPS

OneWorker == \A v, w \in Workers : v = w

\* The state that a job works on is the one that is stored.
ReadIsStored ==
    \A w \in Workers : pc[w] \in {"write", "render"} => read[w] = rendering

\* Nothing is written for the job that renders.
JobFits ==
    \A w \in Workers : pc[w] \in {"write", "percolate"} => job[w] # Render

\* A change is displayed, or its render is on its way.
RenderIsDue ==
    \/ \E i \in DOMAIN jobs : jobs[i] = Render
    \/ \E w \in Workers : \/ pc[w] \in {"write", "percolate", "render"}
                          \/ pc[w] = "read" /\ job[w] = Render

ChangesShow == unseen \/ display = rendering \/ RenderIsDue

NewestIsStored ==
    applied # <<>> => Last(applied) \in ToSet(rendering.messages)

IInv == TypeOK /\ JobFits /\ ReadIsStored /\ ChangesShow /\ NewestIsStored

-----------------------------------------------------------------------------
(* Types                                                                   *)

\* Adding a message passes the limit by one at most.
LEMMA PushTypes ==
    ASSUME NEW ms \in Seq(Messages), Len(ms) <= MaxMessages + 1, NEW m \in Messages
    PROVE  /\ PushOnto(ms, m) \in Seq(Messages)
           /\ Len(PushOnto(ms, m)) <= MaxMessages + 1
           /\ m \in ToSet(PushOnto(ms, m))
<1> DEFINE kept == IF Len(ms) > MaxMessages THEN SubSeq(ms, 1, MaxMessages) ELSE ms
<1>1. kept \in Seq(Messages) /\ Len(kept) <= MaxMessages
  <2>1. MaxMessages \in Nat /\ Len(ms) \in Nat
    BY DeviceStateAssumption
  <2>2. CASE Len(ms) > MaxMessages
    <3>1. SubSeq(ms, 1, MaxMessages) \in Seq(Messages) /\ Len(SubSeq(ms, 1, MaxMessages)) = MaxMessages
      BY <2>1, <2>2
    <3> QED
      BY <2>1, <2>2, <3>1
  <2>3. CASE ~(Len(ms) > MaxMessages)
    BY <2>1, <2>3
  <2> QED
    BY <2>2, <2>3
<1> HIDE DEF kept
<1>2. PushOnto(ms, m) = Append(kept, m)
  BY DEF PushOnto, kept
<1>3. /\ Append(kept, m) \in Seq(Messages) /\ Len(Append(kept, m)) = Len(kept) + 1
      /\ Append(kept, m)[Len(kept) + 1] = m /\ Len(kept) + 1 \in DOMAIN Append(kept, m)
  BY <1>1
<1>4. m \in ToSet(Append(kept, m))
  BY <1>3 DEF ToSet
<1> QED
  BY <1>1, <1>2, <1>3, <1>4, DeviceStateAssumption

LEMMA StateTypes ==
    ASSUME NEW k \in {"messages", "schedule"}, NEW e, NEW ms \in Seq(Messages),
           Len(ms) <= MaxMessages + 1,
           \/ k = "messages" /\ e = NoEvents
           \/ k = "schedule" /\ e \in Events
    PROVE  IsState(State(k, e, ms))
  BY DeviceStateAssumption DEF IsState, States, State

LEMMA FixedStates ==
    /\ IsState(Absent) /\ IsState(Empty) /\ Absent # Empty
    /\ Absent.messages = <<>> /\ Empty.messages = <<>>
  BY DeviceStateAssumption DEF IsState, States, Absent, Empty, State

\* Every transition leads from a state to a state.
LEMMA NextTypes ==
    ASSUME NEW s, IsState(s), NEW t \in Requests \ {Render}
    PROVE  IsState(NextState(s, t))
<1>1. /\ s.messages \in Seq(Messages) /\ Len(s.messages) <= MaxMessages + 1
      /\ s.kind = "schedule" => s.events \in Events
  BY DEF IsState, States
<1>2. ASSUME NEW m \in Messages, t = PushMessage(m)
      PROVE  IsState(NextState(s, t))
  <2>1. t.what = "message" /\ t.content = m
    BY <1>2 DEF PushMessage
  <2>2. /\ PushOnto(s.messages, m) \in Seq(Messages)
        /\ Len(PushOnto(s.messages, m)) <= MaxMessages + 1
    BY <1>1, PushTypes
  <2>3. CASE s.kind = "schedule"
    <3>1. NextState(s, t) = State("schedule", s.events, PushOnto(s.messages, m))
      BY <2>1, <2>3 DEF NextState
    <3> QED
      BY <1>1, <2>2, <2>3, <3>1, StateTypes
  <2>4. CASE s.kind # "schedule"
    <3>1. NextState(s, t) = State("messages", NoEvents, PushOnto(s.messages, m))
      BY <2>1, <2>4 DEF NextState
    <3> QED
      BY <2>2, <3>1, StateTypes
  <2> QED
    BY <2>3, <2>4
<1>3. ASSUME NEW e \in Events, t = SetSchedule(e)
      PROVE  IsState(NextState(s, t))
  <2> DEFINE kept == IF s.kind = "schedule" THEN s.messages ELSE <<>>
  <2>1. t.what = "schedule" /\ t.events = e
    BY <1>3 DEF SetSchedule
  <2>2. kept \in Seq(Messages) /\ Len(kept) <= MaxMessages + 1
    BY <1>1, DeviceStateAssumption
  <2>3. NextState(s, t) = State("schedule", e, kept)
    BY <2>1 DEF NextState
  <2> HIDE DEF kept
  <2> QED
    BY <2>2, <2>3, StateTypes
<1>4. CASE t = Clear
  <2>1. NextState(s, t) = Empty
    BY <1>4 DEF NextState, Clear
  <2> QED
    BY <2>1, FixedStates
<1> QED
  BY <1>2, <1>3, <1>4 DEF Requests

LEMMA AppliedTypes ==
    ASSUME applied \in Seq(Messages), NEW s, NEW t \in Requests \ {Render}
    PROVE  AppliedWith(s, t) \in Seq(Messages)
<1>1. <<>> \in Seq(Messages)
  OBVIOUS
<1>2. ASSUME NEW m \in Messages, t = PushMessage(m)
      PROVE  AppliedWith(s, t) \in Seq(Messages)
  <2>1. AppliedWith(s, t) = Append(applied, m)
    BY <1>2 DEF AppliedWith, PushMessage
  <2> QED
    BY <2>1
<1>3. ASSUME NEW e \in Events, t = SetSchedule(e)
      PROVE  AppliedWith(s, t) \in Seq(Messages)
  <2>1. AppliedWith(s, t) = IF s.kind = "schedule" THEN applied ELSE <<>>
    BY <1>3 DEF AppliedWith, SetSchedule
  <2> QED
    BY <1>1, <2>1
<1>4. CASE t = Clear
  <2>1. AppliedWith(s, t) = <<>>
    BY <1>4 DEF AppliedWith, Clear
  <2> QED
    BY <1>1, <2>1
<1> QED
  BY <1>2, <1>3, <1>4 DEF Requests

LEMMA InitTypes == Init => TypeOK
<1> SUFFICES ASSUME Init
             PROVE  TypeOK
  OBVIOUS
<1>1. IsState(Absent) /\ Absent \in States
  BY FixedStates DEF IsState
<1>2. /\ rendering = Absent /\ display = Absent /\ jobs = <<>> /\ requested = {}
      /\ applied = <<>> /\ unseen = FALSE /\ faults = 0
  BY DEF Init
<1>3. /\ pc = [w \in Workers |-> "pop"] /\ job = [w \in Workers |-> NoJob]
      /\ read = [w \in Workers |-> Absent]
  BY DEF Init
<1>4. /\ jobs \in Seq(Requests) /\ requested \in SUBSET Requests /\ applied \in Seq(Messages)
      /\ unseen \in BOOLEAN /\ faults \in 0..MaxFaults
  <2>1. 0 \in 0..MaxFaults
    BY FaultsAssumption
  <2>2. <<>> \in Seq(Requests) /\ <<>> \in Seq(Messages)
    OBVIOUS
  <2>3. {} \in SUBSET Requests /\ FALSE \in BOOLEAN
    OBVIOUS
  <2> QED
    BY <1>2, <2>1, <2>2, <2>3, Zenon
<1>5. /\ pc \in [Workers -> {"pop", "read", "write", "percolate", "render"}]
      /\ job \in [Workers -> Requests \cup {NoJob}]
      /\ read \in [Workers -> States]
      /\ \A w \in Workers : IsState(read[w]) /\ job[w] = NoJob /\ pc[w] = "pop"
  BY <1>1, <1>3
<1> QED
  BY <1>1, <1>2, <1>4, <1>5 DEF TypeOK

\* The parts of the type invariant that steps use one at a time.
LEMMA Parts ==
    ASSUME TypeOK
    PROVE  /\ \A w \in Workers : /\ IsState(read[w]) /\ read[w] \in States
                                 /\ job[w] \in Requests \cup {NoJob}
                                 /\ job[w] = NoJob <=> pc[w] = "pop"
           /\ pc \in [Workers -> {"pop", "read", "write", "percolate", "render"}]
           /\ job \in [Workers -> Requests \cup {NoJob}]
           /\ read \in [Workers -> States]
           /\ jobs \in Seq(Requests)
  BY DEF TypeOK

\* What a step changes of one worker leaves the others alone.
LEMMA OneChanges ==
    ASSUME TypeOK, NEW w \in Workers,
           NEW place \in {"pop", "read", "write", "percolate", "render"},
           NEW j \in Requests \cup {NoJob}, NEW s, IsState(s),
           pc' = [pc EXCEPT ![w] = place], job' = [job EXCEPT ![w] = j],
           read' = [read EXCEPT ![w] = s],
           j = NoJob <=> place = "pop"
    PROVE  /\ pc' \in [Workers -> {"pop", "read", "write", "percolate", "render"}]
           /\ job' \in [Workers -> Requests \cup {NoJob}]
           /\ read' \in [Workers -> States]
           /\ \A v \in Workers : /\ IsState(read'[v])
                                 /\ job'[v] = NoJob <=> pc'[v] = "pop"
           /\ pc'[w] = place /\ job'[w] = j /\ read'[w] = s
           /\ \A v \in Workers \ {w} : pc'[v] = pc[v] /\ job'[v] = job[v] /\ read'[v] = read[v]
<1>1. /\ pc' \in [Workers -> {"pop", "read", "write", "percolate", "render"}]
      /\ pc'[w] = place /\ \A v \in Workers \ {w} : pc'[v] = pc[v]
  BY Parts
<1>2. /\ job' \in [Workers -> Requests \cup {NoJob}]
      /\ job'[w] = j /\ \A v \in Workers \ {w} : job'[v] = job[v]
  BY Parts
<1>3. /\ read' \in [Workers -> States]
      /\ read'[w] = s /\ \A v \in Workers \ {w} : read'[v] = read[v]
  <2>1. s \in States
    BY DEF IsState
  <2> QED
    BY <2>1, Parts
<1>4. ASSUME NEW v \in Workers
      PROVE  IsState(read'[v]) /\ (job'[v] = NoJob <=> pc'[v] = "pop")
  <2>1. CASE v = w
    BY <1>1, <1>2, <1>3, <2>1
  <2>2. CASE v # w
    <3>1. IsState(read[v]) /\ (job[v] = NoJob <=> pc[v] = "pop")
      BY Parts, Zenon
    <3>2. pc'[v] = pc[v] /\ job'[v] = job[v] /\ read'[v] = read[v]
      BY <1>1, <1>2, <1>3, <2>2
    <3> QED
      BY <3>1, <3>2
  <2> QED
    BY <2>1, <2>2
<1> QED
  BY <1>1, <1>2, <1>3, <1>4

\* Neither does the rest of the state lose its type.
LEMMA StepTypes ==
    ASSUME TypeOK, IsState(rendering)', IsState(display)', jobs' \in Seq(Requests),
           requested' \in SUBSET Requests, applied' \in Seq(Messages), unseen' \in BOOLEAN,
           faults' \in 0..MaxFaults,
           \/ UNCHANGED jobVars
           \/ \E w \in Workers :
               \E place \in {"pop", "read", "write", "percolate", "render"} :
               \E j \in Requests \cup {NoJob} :
                 /\ pc' = [pc EXCEPT ![w] = place] /\ job' = [job EXCEPT ![w] = j]
                 /\ \/ read' = read /\ place # "pop" /\ j # NoJob
                    \/ read' = [read EXCEPT ![w] = rendering'] /\ place # "pop" /\ j # NoJob
                    \/ read' = [read EXCEPT ![w] = Absent] /\ place = "pop" /\ j = NoJob
    PROVE  TypeOK'
<1>1. CASE UNCHANGED jobVars
  <2>1. pc' = pc /\ job' = job /\ read' = read
    BY <1>1 DEF jobVars
  <2>2. /\ pc' \in [Workers -> {"pop", "read", "write", "percolate", "render"}]
        /\ job' \in [Workers -> Requests \cup {NoJob}]
        /\ read' \in [Workers -> States]
        /\ \A v \in Workers : IsState(read'[v]) /\ (job'[v] = NoJob <=> pc'[v] = "pop")
    <3>1. /\ pc \in [Workers -> {"pop", "read", "write", "percolate", "render"}]
          /\ job \in [Workers -> Requests \cup {NoJob}]
          /\ read \in [Workers -> States]
          /\ \A v \in Workers : IsState(read[v]) /\ (job[v] = NoJob <=> pc[v] = "pop")
      BY Parts, Zenon
    <3> QED
      BY <2>1, <3>1, Zenon
  <2> QED
    BY <2>2 DEF TypeOK
<1>2. ASSUME NEW w \in Workers,
             NEW place \in {"pop", "read", "write", "percolate", "render"},
             NEW j \in Requests \cup {NoJob},
             pc' = [pc EXCEPT ![w] = place], job' = [job EXCEPT ![w] = j],
             \/ read' = read /\ place # "pop" /\ j # NoJob
             \/ read' = [read EXCEPT ![w] = rendering'] /\ place # "pop" /\ j # NoJob
             \/ read' = [read EXCEPT ![w] = Absent] /\ place = "pop" /\ j = NoJob
      PROVE  TypeOK'
  <2>1. \E s : IsState(s) /\ read' = [read EXCEPT ![w] = s]
    <3>1. CASE read' = read
      <4>1. read \in [Workers -> States] /\ IsState(read[w])
        BY Parts, Zenon
      <4>2. read = [read EXCEPT ![w] = read[w]]
        BY <4>1
      <4> QED
        BY <3>1, <4>1, <4>2
    <3>2. CASE read' = [read EXCEPT ![w] = rendering']
      BY <3>2
    <3>3. CASE read' = [read EXCEPT ![w] = Absent]
      BY <3>3, FixedStates
    <3> QED
      BY <1>2, <3>1, <3>2, <3>3
  <2>2. PICK s : IsState(s) /\ read' = [read EXCEPT ![w] = s]
    BY <2>1
  <2>3. /\ pc' \in [Workers -> {"pop", "read", "write", "percolate", "render"}]
        /\ job' \in [Workers -> Requests \cup {NoJob}]
        /\ read' \in [Workers -> States]
        /\ \A v \in Workers : IsState(read'[v]) /\ (job'[v] = NoJob <=> pc'[v] = "pop")
    <3>1. j = NoJob <=> place = "pop"
      BY <1>2
    <3> QED
      BY <1>2, <2>2, <3>1, OneChanges, Zenon
  <2> QED
    BY <2>3 DEF TypeOK
<1> QED
  BY <1>1, <1>2

\* A command counts against the limit of faults or changes nothing.
LEMMA FaultTypes ==
    ASSUME TypeOK, NEW link, NEW o, Issue(link, o) \/ Fault \/ UNCHANGED faults
    PROVE  faults' \in 0..MaxFaults
  BY FaultsAssumption DEF TypeOK, Issue, Fault

LEMMA TypeNext ==
    ASSUME TypeOK, JobFits, [Next]_vars
    PROVE  TypeOK'
<1> USE DEF To, EndJob
<1>1. /\ IsState(rendering) /\ IsState(display) /\ jobs \in Seq(Requests)
      /\ requested \in SUBSET Requests /\ applied \in Seq(Messages) /\ unseen \in BOOLEAN
      /\ faults \in 0..MaxFaults
  BY DEF TypeOK
<1>2. Render \in Requests
  BY DEF Requests
<1>3. ASSUME NEW r \in Requests, Ask(r)
      PROVE  TypeOK'
  <2>1. /\ rendering' = rendering /\ display' = display /\ jobs' = Append(jobs, r)
        /\ requested' = requested \cup {r} /\ applied' = applied /\ unseen' = unseen
        /\ faults' = faults /\ UNCHANGED jobVars
    BY <1>3 DEF Ask
  <2>2. jobs' \in Seq(Requests) /\ requested' \in SUBSET Requests
    BY <1>1, <2>1
  <2> QED
    BY <1>1, <2>1, <2>2, StepTypes DEF IsState
<1>4. ASSUME NEW w \in Workers, Pop(w)
      PROVE  TypeOK'
  <2>1. /\ Head(jobs) \in Requests /\ Tail(jobs) \in Seq(Requests)
    BY <1>1, <1>4 DEF Pop
  <2>2. /\ pc' = [pc EXCEPT ![w] = "read"] /\ job' = [job EXCEPT ![w] = Head(jobs)]
        /\ read' = read /\ jobs' = Tail(jobs)
        /\ rendering' = rendering /\ display' = display /\ requested' = requested
        /\ applied' = applied /\ unseen' = unseen /\ faults' = faults
    BY <1>4 DEF Pop
  <2>3. Head(jobs) # NoJob /\ Head(jobs) \in Requests \cup {NoJob}
    BY <2>1, DeviceStateAssumption
  <2>4. IsState(rendering)' /\ IsState(display)' /\ jobs' \in Seq(Requests)
    BY <1>1, <2>1, <2>2 DEF IsState
  <2> HIDE DEF To, EndJob
  <2> QED
    BY <1>1, <2>2, <2>3, <2>4, StepTypes
<1>5. ASSUME NEW w \in Workers, Load(w)
      PROVE  TypeOK'
  <2>1. /\ pc' = [pc EXCEPT ![w] = "write"] /\ read' = [read EXCEPT ![w] = rendering']
        /\ rendering' = IF rendering = Absent THEN Empty ELSE rendering
        /\ job' = job /\ jobs' = jobs /\ display' = display /\ requested' = requested
        /\ applied' = applied /\ unseen' = unseen /\ faults' = faults
    BY <1>5 DEF Load
  <2>2. job' = [job EXCEPT ![w] = job[w]] /\ job[w] \in Requests \cup {NoJob} /\ job[w] # NoJob
    BY <1>5, <2>1, Parts DEF Load
  <2>3. IsState(rendering')
    BY <1>1, <2>1, FixedStates
  <2>4. IsState(rendering)'
    BY <2>3 DEF IsState
  <2> QED
    BY <1>1, <2>1, <2>2, <2>4, StepTypes DEF IsState
<1>6. ASSUME NEW w \in Workers, Write(w)
      PROVE  TypeOK'
  <2>1. /\ pc' = [pc EXCEPT ![w] = "percolate"] /\ read' = read
        /\ rendering' = NextState(read[w], job[w]) /\ applied' = AppliedWith(read[w], job[w])
        /\ job' = job /\ jobs' = jobs /\ display' = display /\ requested' = requested
        /\ unseen' = unseen /\ faults' = faults
    BY <1>6 DEF Write
  <2>2. /\ job' = [job EXCEPT ![w] = job[w]] /\ job[w] \in Requests /\ job[w] # NoJob
        /\ IsState(read[w])
    BY <1>6, <2>1, Parts DEF Write
  <2>3. job[w] # Render
    BY <1>6 DEF Write, JobFits
  <2>4. IsState(rendering')
    BY <2>1, <2>2, <2>3, NextTypes
  <2>5. applied' \in Seq(Messages)
    BY <1>1, <2>1, <2>2, <2>3, AppliedTypes
  <2>6. IsState(rendering)'
    BY <2>4 DEF IsState
  <2>7. IsState(display)'
    BY <1>1, <2>1 DEF IsState
  <2> HIDE DEF To, EndJob
  <2> QED
    BY <1>1, <2>1, <2>2, <2>5, <2>6, <2>7, StepTypes
<1>7. ASSUME NEW w \in Workers, NEW o \in Outcomes, Percolate(w, o)
      PROVE  TypeOK'
  <2>1. /\ pc' = [pc EXCEPT ![w] = "pop"] /\ job' = [job EXCEPT ![w] = NoJob]
        /\ read' = [read EXCEPT ![w] = Absent]
        /\ jobs' = IF Applied(o) THEN Append(jobs, Render) ELSE jobs
        /\ unseen' = (unseen \/ ~Applied(o)) /\ Issue("up", o)
        /\ rendering' = rendering /\ display' = display /\ requested' = requested
        /\ applied' = applied
    BY <1>7 DEF Percolate
  <2>2. jobs' \in Seq(Requests) /\ unseen' \in BOOLEAN /\ faults' \in 0..MaxFaults
    BY <1>1, <1>2, <2>1, FaultTypes
  <2> QED
    BY <1>1, <2>1, <2>2, StepTypes DEF IsState
<1>8. ASSUME NEW w \in Workers, LoadToRender(w)
      PROVE  TypeOK'
  <2>1. /\ pc' = [pc EXCEPT ![w] = "render"] /\ read' = [read EXCEPT ![w] = rendering]
        /\ rendering' = rendering
        /\ job' = job /\ jobs' = jobs /\ display' = display /\ requested' = requested
        /\ applied' = applied /\ unseen' = unseen /\ faults' = faults
    BY <1>8 DEF LoadToRender
  <2>2. job' = [job EXCEPT ![w] = job[w]] /\ job[w] \in Requests \cup {NoJob} /\ job[w] # NoJob
    BY <1>8, <2>1, Parts DEF LoadToRender
  <2> QED
    BY <1>1, <2>1, <2>2, StepTypes DEF IsState
<1>9. ASSUME NEW w \in Workers, NEW o \in Outcomes, QueueRender(w, o)
      PROVE  TypeOK'
  <2>1. /\ pc' = [pc EXCEPT ![w] = "pop"] /\ job' = [job EXCEPT ![w] = NoJob]
        /\ read' = [read EXCEPT ![w] = Absent]
        /\ display' = IF Applied(o) THEN read[w] ELSE display
        /\ unseen' = ~Applied(o) /\ Issue("up", o)
        /\ rendering' = rendering /\ jobs' = jobs /\ requested' = requested
        /\ applied' = applied
    BY <1>9 DEF QueueRender
  <2>2. unseen' \in BOOLEAN /\ faults' \in 0..MaxFaults
    BY <2>1, FaultTypes
  <2>3. IsState(display')
    BY <1>1, <2>1, Parts
  <2>4. IsState(display)'
    BY <2>3 DEF IsState
  <2> QED
    BY <1>1, <2>1, <2>2, <2>4, StepTypes DEF IsState
<1>10. ASSUME NEW w \in Workers, JobFails(w) \/ Crash(w)
       PROVE  TypeOK'
  <2>1. /\ pc' = [pc EXCEPT ![w] = "pop"] /\ job' = [job EXCEPT ![w] = NoJob]
        /\ read' = [read EXCEPT ![w] = Absent] /\ unseen' = TRUE
        /\ rendering' = rendering /\ display' = display /\ jobs' = jobs
        /\ requested' = requested /\ applied' = applied
    BY <1>10 DEF JobFails, Crash
  <2>2. faults' \in 0..MaxFaults
    BY <1>10, FaultTypes DEF JobFails, Crash
  <2> QED
    BY <1>1, <2>1, <2>2, StepTypes DEF IsState
<1>11. CASE UNCHANGED vars
  BY <1>1, <1>11, StepTypes DEF vars, jobVars, IsState
<1> QED
  BY <1>3, <1>4, <1>5, <1>6, <1>7, <1>8, <1>9, <1>10, <1>11 DEF Next, Work

\* A worker comes to write only from a job that changes the state.
LEMMA FitsNext ==
    ASSUME TypeOK, JobFits, [Next]_vars
    PROVE  JobFits'
<1> USE DEF To, EndJob
<1> SUFFICES ASSUME NEW v \in Workers, pc'[v] \in {"write", "percolate"}
             PROVE  job'[v] # Render
  BY DEF JobFits
<1>1. /\ pc \in [Workers -> {"pop", "read", "write", "percolate", "render"}]
      /\ job \in [Workers -> Requests \cup {NoJob}]
  BY Parts
<1>2. pc[v] \in {"write", "percolate"} => job[v] # Render
  BY DEF JobFits
<1>3. CASE UNCHANGED <<pc, job>>
  BY <1>2, <1>3
<1>4. ASSUME NEW w \in Workers, Pop(w)
      PROVE  job'[v] # Render
  BY <1>1, <1>2, <1>4 DEF Pop
<1>5. ASSUME NEW w \in Workers, Load(w) \/ Write(w) \/ LoadToRender(w)
      PROVE  job'[v] # Render
  BY <1>1, <1>2, <1>5 DEF Load, Write, LoadToRender
<1>6. ASSUME NEW w \in Workers, EndJob(w)
      PROVE  job'[v] # Render
  BY <1>1, <1>2, <1>6
<1>7. ASSUME NEW r \in Requests, Ask(r)
      PROVE  UNCHANGED <<pc, job>>
  BY <1>7 DEF Ask, jobVars
<1>8. UNCHANGED vars => UNCHANGED <<pc, job>>
  BY DEF vars, jobVars
<1> HIDE DEF To, EndJob
<1>9. ASSUME NEW w \in Workers, NEW o \in Outcomes,
             Percolate(w, o) \/ QueueRender(w, o) \/ JobFails(w) \/ Crash(w)
      PROVE  EndJob(w)
  BY <1>9 DEF Percolate, QueueRender, JobFails, Crash
<1>10. Outcomes # {}
  BY DEF Outcomes
<1> QED
  BY <1>3, <1>4, <1>5, <1>6, <1>7, <1>8, <1>9, <1>10 DEF Next, Work

\* The stored state, and all that is read of it, keeps its form; and the
\* list of messages exceeds its limit by one at most.
THEOREM TypesAreKept == Spec => []TypeOK
<1>1. Init => TypeOK /\ JobFits
  BY InitTypes DEF Init, JobFits
<1>2. TypeOK /\ JobFits /\ [Next]_vars => TypeOK' /\ JobFits'
  BY TypeNext, FitsNext
<1> QED
  BY <1>1, <1>2, PTL DEF Spec

-----------------------------------------------------------------------------
(* One process                                                             *)

\* The message that was written last is in the state that was written.
LEMMA NewestIsKept ==
    ASSUME TypeOK, NewestIsStored, NEW t \in Requests \ {Render},
           AppliedWith(rendering, t) # <<>>
    PROVE  Last(AppliedWith(rendering, t)) \in ToSet(NextState(rendering, t).messages)
<1>1. /\ rendering.messages \in Seq(Messages) /\ Len(rendering.messages) <= MaxMessages + 1
      /\ applied \in Seq(Messages)
  BY DEF TypeOK, IsState, States
<1>2. ASSUME NEW m \in Messages, t = PushMessage(m)
      PROVE  Last(AppliedWith(rendering, t)) \in ToSet(NextState(rendering, t).messages)
  <2>1. t.what = "message" /\ t.content = m
    BY <1>2 DEF PushMessage
  <2>2. AppliedWith(rendering, t) = Append(applied, m)
    BY <2>1 DEF AppliedWith
  <2>3. Last(Append(applied, m)) = m
    BY <1>1 DEF Last
  <2>4. NextState(rendering, t).messages = PushOnto(rendering.messages, m)
    BY <2>1 DEF NextState, State
  <2>5. m \in ToSet(PushOnto(rendering.messages, m))
    BY <1>1, PushTypes
  <2> QED
    BY <2>2, <2>3, <2>4, <2>5
<1>3. ASSUME NEW e \in Events, t = SetSchedule(e)
      PROVE  Last(AppliedWith(rendering, t)) \in ToSet(NextState(rendering, t).messages)
  <2>1. t.what = "schedule" /\ t.events = e
    BY <1>3 DEF SetSchedule
  <2>2. AppliedWith(rendering, t) = IF rendering.kind = "schedule" THEN applied ELSE <<>>
    BY <2>1 DEF AppliedWith
  <2>3. rendering.kind = "schedule" /\ AppliedWith(rendering, t) = applied /\ applied # <<>>
    BY <2>2
  <2>4. NextState(rendering, t).messages = rendering.messages
    BY <2>1, <2>3 DEF NextState, State
  <2> QED
    BY <2>3, <2>4 DEF NewestIsStored
<1>4. t # Clear
  BY DEF AppliedWith, Clear
<1> QED
  BY <1>2, <1>3, <1>4 DEF Requests

LEMMA OneNext ==
    ASSUME OneWorker, IInv, [Next]_vars
    PROVE  IInv'
<1> USE DEF To, EndJob
<1>1. TypeOK /\ JobFits /\ ReadIsStored /\ ChangesShow /\ NewestIsStored
  BY DEF IInv
<1>2. TypeOK' /\ JobFits'
  BY <1>1, TypeNext, FitsNext
<1> DEFINE Kept == ReadIsStored' /\ ChangesShow' /\ NewestIsStored'
<1>3. /\ pc \in [Workers -> {"pop", "read", "write", "percolate", "render"}]
      /\ job \in [Workers -> Requests \cup {NoJob}]
      /\ read \in [Workers -> States]
      /\ jobs \in Seq(Requests) /\ Render \in Requests
  BY <1>1, Parts DEF Requests
<1>4. ASSUME UNCHANGED <<rendering, applied>>
      PROVE  NewestIsStored'
  BY <1>1, <1>4 DEF NewestIsStored
<1>5. ASSUME UNCHANGED <<rendering, pc, read>>
      PROVE  ReadIsStored'
  BY <1>1, <1>5 DEF ReadIsStored
<1>6. ASSUME NEW w \in Workers, pc'[w] \notin {"write", "render"}
      PROVE  ReadIsStored'
  BY <1>6 DEF OneWorker, ReadIsStored
<1>7. ASSUME NEW r \in Requests, Ask(r)
      PROVE  Kept
  <2>1. /\ UNCHANGED <<rendering, pc, job, read, display, applied, unseen>>
        /\ jobs' = Append(jobs, r)
    BY <1>7 DEF Ask, jobVars
  <2>2. ASSUME NEW i \in DOMAIN jobs
        PROVE  i \in DOMAIN jobs' /\ jobs'[i] = jobs[i]
    BY <1>3, <2>1
  <2>3. RenderIsDue => RenderIsDue'
    BY <2>1, <2>2 DEF RenderIsDue
  <2> QED
    BY <1>1, <1>4, <1>5, <2>1, <2>3 DEF ChangesShow
<1>8. ASSUME NEW w \in Workers, Pop(w)
      PROVE  Kept
  <2>1. /\ UNCHANGED <<rendering, read, display, applied, unseen>>
        /\ jobs # <<>> /\ jobs' = Tail(jobs) /\ pc'[w] = "read" /\ job'[w] = Head(jobs)
        /\ pc[w] = "pop"
    BY <1>3, <1>8 DEF Pop
  <2>2. ASSUME NEW i \in DOMAIN jobs, jobs[i] = Render
        PROVE  RenderIsDue'
    <3>1. CASE i = 1
      <4>1. job'[w] = Render
        BY <1>3, <2>1, <2>2, <3>1
      <4> QED
        BY <2>1, <4>1 DEF RenderIsDue
    <3>2. CASE i # 1
      <4>1. i - 1 \in DOMAIN jobs' /\ jobs'[i - 1] = Render
        BY <1>3, <2>1, <2>2, <3>2
      <4> QED
        BY <4>1 DEF RenderIsDue
    <3> QED
      BY <3>1, <3>2
  <2>3. \A v \in Workers : pc[v] = "pop"
    BY <2>1 DEF OneWorker
  <2>4. RenderIsDue => RenderIsDue'
    BY <2>2, <2>3 DEF RenderIsDue
  <2>5. pc'[w] \notin {"write", "render"}
    BY <2>1
  <2> QED
    BY <1>1, <1>4, <1>6, <2>1, <2>4, <2>5 DEF ChangesShow
<1>9. ASSUME NEW w \in Workers, Load(w)
      PROVE  Kept
  <2>1. /\ rendering' = IF rendering = Absent THEN Empty ELSE rendering
        /\ pc'[w] = "write" /\ read'[w] = rendering' /\ applied' = applied
    BY <1>3, <1>9 DEF Load
  <2>2. ReadIsStored' /\ RenderIsDue'
    BY <2>1 DEF OneWorker, ReadIsStored, RenderIsDue
  <2>3. rendering'.messages = rendering.messages
    BY <2>1, FixedStates
  <2> QED
    BY <1>1, <2>1, <2>2, <2>3 DEF ChangesShow, NewestIsStored
<1>10. ASSUME NEW w \in Workers, Write(w)
       PROVE  Kept
  <2>1. /\ rendering' = NextState(read[w], job[w]) /\ applied' = AppliedWith(read[w], job[w])
        /\ pc[w] = "write" /\ pc'[w] = "percolate"
    BY <1>3, <1>10 DEF Write
  <2>2. read[w] = rendering /\ job[w] \in Requests \ {Render}
    <3>1. read[w] = rendering
      BY <1>1, <2>1 DEF ReadIsStored
    <3>2. job[w] # Render
      BY <1>1, <2>1 DEF JobFits
    <3>3. job[w] # NoJob
      BY <1>1, <2>1, Parts
    <3> QED
      BY <1>3, <3>1, <3>2, <3>3
  <2>3. NewestIsStored'
    BY <1>1, <2>1, <2>2, NewestIsKept DEF NewestIsStored
  <2>4. RenderIsDue'
    BY <2>1 DEF RenderIsDue
  <2>5. pc'[w] \notin {"write", "render"}
    BY <2>1
  <2> QED
    BY <1>6, <2>3, <2>4, <2>5 DEF ChangesShow
<1>11. ASSUME NEW w \in Workers, NEW o \in Outcomes, Percolate(w, o)
       PROVE  Kept
  <2>1. /\ jobs' = IF Applied(o) THEN Append(jobs, Render) ELSE jobs
        /\ unseen' = (unseen \/ ~Applied(o)) /\ pc'[w] = "pop"
        /\ UNCHANGED <<rendering, display, applied>>
    BY <1>3, <1>11 DEF Percolate
  <2>2. CASE Applied(o)
    <3>1. Len(jobs) + 1 \in DOMAIN jobs' /\ jobs'[Len(jobs) + 1] = Render
      BY <1>3, <2>1, <2>2
    <3> QED
      BY <3>1, <1>4, <1>6, <2>1 DEF ChangesShow, RenderIsDue
  <2>3. CASE ~Applied(o)
    BY <1>4, <1>6, <2>1, <2>3 DEF ChangesShow
  <2> QED
    BY <2>2, <2>3
<1>12. ASSUME NEW w \in Workers, LoadToRender(w)
       PROVE  Kept
  <2>1. /\ rendering' = rendering /\ pc'[w] = "render" /\ read'[w] = rendering
        /\ applied' = applied
    BY <1>3, <1>12 DEF LoadToRender
  <2>2. ReadIsStored' /\ RenderIsDue'
    BY <2>1 DEF OneWorker, ReadIsStored, RenderIsDue
  <2> QED
    BY <1>4, <2>1, <2>2 DEF ChangesShow
<1>13. ASSUME NEW w \in Workers, NEW o \in Outcomes, QueueRender(w, o)
       PROVE  Kept
  <2>1. /\ display' = IF Applied(o) THEN read[w] ELSE display
        /\ unseen' = ~Applied(o) /\ pc[w] = "render" /\ pc'[w] = "pop"
        /\ UNCHANGED <<rendering, applied>>
    BY <1>3, <1>13 DEF QueueRender
  <2>2. read[w] = rendering
    BY <1>1, <2>1 DEF ReadIsStored
  <2> QED
    BY <1>4, <1>6, <2>1, <2>2 DEF ChangesShow
<1>14. ASSUME NEW w \in Workers, JobFails(w) \/ Crash(w)
       PROVE  Kept
  <2>1. unseen' = TRUE /\ pc'[w] = "pop" /\ UNCHANGED <<rendering, applied>>
    BY <1>3, <1>14 DEF JobFails, Crash
  <2> QED
    BY <1>4, <1>6, <2>1 DEF ChangesShow
<1>15. ASSUME UNCHANGED vars
       PROVE  Kept
  <2>1. UNCHANGED <<rendering, jobs, pc, job, read, display, applied, unseen>>
    BY <1>15 DEF vars, jobVars
  <2>2. RenderIsDue => RenderIsDue'
    BY <2>1 DEF RenderIsDue
  <2>3. NewestIsStored' /\ ReadIsStored'
    BY <1>4, <1>5, <2>1
  <2>4. ChangesShow'
    BY <1>1, <2>1, <2>2 DEF ChangesShow
  <2> QED
    BY <2>3, <2>4
<1> HIDE DEF Kept, To, EndJob
<1>16. ASSUME NEW w \in Workers, Work(w) \/ Crash(w)
       PROVE  Kept
  BY <1>8, <1>9, <1>10, <1>11, <1>12, <1>13, <1>14, <1>16 DEF Work
<1>17. Kept
  BY <1>7, <1>15, <1>16 DEF Next
<1> QED
  BY <1>2, <1>17 DEF IInv, Kept

LEMMA OneInit == Init => IInv
<1> SUFFICES ASSUME Init
             PROVE  IInv
  OBVIOUS
<1>1. /\ TypeOK /\ display = rendering /\ applied = <<>>
      /\ \A w \in Workers : pc[w] = "pop"
  BY InitTypes DEF Init
<1> QED
  BY <1>1 DEF IInv, JobFits, ReadIsStored, ChangesShow, NewestIsStored

LEMMA AllIsDisplayed ==
    ASSUME IInv
    PROVE  DisplayIsCurrent /\ NewestIsDisplayed
<1>1. ASSUME Quiet, ~unseen
      PROVE  display = rendering
  <2>1. ~RenderIsDue
    BY <1>1 DEF Quiet, RenderIsDue
  <2> QED
    BY <1>1, <2>1 DEF IInv, ChangesShow
<1> QED
  BY <1>1 DEF IInv, NewestIsStored, DisplayIsCurrent, NewestIsDisplayed

LEMMA OneInv ==
    ASSUME OneWorker
    PROVE  Spec => []IInv
<1>1. Init => IInv
  BY OneInit
<1>2. IInv /\ [Next]_vars => IInv'
  BY OneNext
<1> QED
  BY <1>1, <1>2, PTL DEF Spec

\* With one process, and no render failed or lost since the last change, what
\* the device was last told to show is what is stored.
THEOREM ChangesAreDisplayed ==
    ASSUME OneWorker
    PROVE  Spec => []DisplayIsCurrent
<1>1. IInv => DisplayIsCurrent
  BY AllIsDisplayed
<1> QED
  BY <1>1, OneInv, PTL

\* And the message that was written last is part of it.
THEOREM NewestReachesDisplay ==
    ASSUME OneWorker
    PROVE  Spec => []NewestIsDisplayed
<1>1. IInv => NewestIsDisplayed
  BY AllIsDisplayed
<1> QED
  BY <1>1, OneInv, PTL
=============================================================================

---------------------------- MODULE RenderProofs ----------------------------
(***************************************************************************)
(* The backlog of a device is bounded, what a client reads of a render is  *)
(* true, and a device never goes back in time, for every number of         *)
(* renderers, renders, devices and faults.                                 *)
(*                                                                         *)
(* BacklogBounded is not inductive: a list that is full may still be       *)
(* pushed on by a renderer that has emptied it before.  What is inductive  *)
(* counts those renderers too: they have seen the list empty, or have      *)
(* emptied it, and their connection is up, so that their push will be run. *)
(* A renderer whose command failed is not among them, because every later  *)
(* command on its broken connection fails as well.                         *)
(*                                                                         *)
(* The other two rest on where a render can be: waiting once, or in the    *)
(* hands of one renderer, which has not sent it before it tries to, and    *)
(* which knows what came of that unless its connection is broken by then.  *)
(* A device's list holds at most one render of each renderer, because a    *)
(* renderer that is about to push has seen none there since, or will not   *)
(* be heard.                                                               *)
(***************************************************************************)
EXTENDS RenderPipeline, FiniteSetTheorems, TLAPS

\* The renderers whose next command may put a render on the list of d.
Senders(d) ==
    {w \in Renderers : pc[w] = "send" /\ link[w] = "up" /\ Target[held[w]] = d}

Room ==
    \A d \in Devices :
        Len(messages[d]) + Cardinality(Senders(d)) <= Cardinality(Renderers)

IInv == TypeOK /\ Room

-----------------------------------------------------------------------------
(* Types                                                                   *)

\* Entries of a list, and what is left of it, keep the list's type.
LEMMA QueueTypes ==
    ASSUME NEW S, NEW s \in Seq(S)
    PROVE  /\ s # <<>> => Head(s) \in S /\ Tail(s) \in Seq(S)
           /\ s # <<>> => Len(Tail(s)) = Len(s) - 1
           /\ Len(s) \in Nat
           /\ \A r \in S : /\ Append(s, r) \in Seq(S)
                           /\ <<r>> \o s \in Seq(S)
                           /\ Len(<<r>> \o s) = Len(s) + 1
           /\ <<>> \in Seq(S) /\ Len(<<>>) = 0
  OBVIOUS

\* The steps of whoever queues a render keep the types.
LEMMA EnqueueTypes ==
    ASSUME TypeOK, NEW r \in Renders, Enqueue(r)
    PROVE  TypeOK'
<1> USE FaultsAssumption, RendersAssumption
<1>0. \A q \in Renders : Append(queue, q) \in Seq(Renders)
  BY QueueTypes DEF TypeOK
<1>1. ASSUME NEW o \in Outcomes, WebPush(r, o)
      PROVE  TypeOK'
  BY <1>0, <1>1 DEF TypeOK, WebPush, PushRender, Issue, Fault, LinkAfter, Outcomes,
                    deviceVars, tickVars, historyVars
<1>2. ASSUME NEW o \in Outcomes, WebMark(r, o)
      PROVE  TypeOK'
  BY <1>2 DEF TypeOK, WebMark, Issue, Fault, LinkAfter, Outcomes,
              deviceVars, tickVars, historyVars
<1>3. CASE WebTimeout(r)
  BY <1>3 DEF TypeOK, WebTimeout, deviceVars, tickVars, historyVars
<1>4. CASE OtherPush(r)
  BY <1>0, <1>4 DEF TypeOK, OtherPush, PushRender, Applied, deviceVars, tickVars, historyVars
<1> QED
  BY <1>1, <1>2, <1>3, <1>4 DEF Enqueue

\* What a redis command leaves of a connection and of the budget of faults.
LEMMA IssueTypes ==
    ASSUME NEW l, NEW o \in Outcomes, faults \in 0..MaxFaults, Issue(l, o)
    PROVE  faults' \in 0..MaxFaults /\ LinkAfter(o) \in {"up", "broken"}
  BY FaultsAssumption DEF Issue, Fault, LinkAfter, Outcomes

\* The steps of a renderer keep the types: the pop ...
LEMMA PopTypes ==
    ASSUME TypeOK, NEW w \in Renderers,
           \/ Connect(w)
           \/ Pop(w)
           \/ PopExpired(w)
           \/ \E o \in Outcomes : PopFails(w, o)
    PROVE  TypeOK'
<1>0. /\ queue # <<>> => Head(queue) \in Renders /\ Tail(queue) \in Seq(Renders)
      /\ \A x \in Renderers, r \in Renders : Append(taken[x], r) \in Seq(Renders)
  BY QueueTypes DEF TypeOK
<1>1. CASE Connect(w)
  BY <1>1 DEF TypeOK, Connect, Relink, queueVars, deviceVars, historyVars
<1>2. CASE Pop(w)
  BY <1>0, <1>2, RendersAssumption DEF TypeOK, Pop, To, deviceVars
<1>3. CASE PopExpired(w)
  BY <1>0, <1>3 DEF TypeOK, PopExpired, Drop, deviceVars, tickVars
<1>4. ASSUME NEW o \in Outcomes, PopFails(w, o)
      PROVE  TypeOK'
  <2>1. faults' \in 0..MaxFaults
    BY <1>4, IssueTypes DEF TypeOK, PopFails
  <2>2. queue' \in Seq(Renders) /\ lost' \in SUBSET Renders
    <3>1. CASE Applied(o) /\ queue # <<>>
      <4>1. queue' = Tail(queue) /\ lost' = lost \cup {Head(queue)}
        BY <1>4, <3>1 DEF PopFails, Drop
      <4> QED
        BY <1>0, <3>1, <4>1 DEF TypeOK
    <3>2. CASE ~(Applied(o) /\ queue # <<>>)
      BY <1>4, <3>2 DEF TypeOK, PopFails
    <3> QED
      BY <3>1, <3>2
  <2> QED
    BY <1>4, <2>1, <2>2 DEF TypeOK, PopFails, Relink, deviceVars
<1> QED
  BY <1>1, <1>2, <1>3, <1>4

\* ... what is done to the device's list ...
LEMMA SendTypes ==
    ASSUME TypeOK, NEW w \in Renderers,
           \/ \E o \in Outcomes : Measure(w, o) \/ Trim(w, o) \/ Send(w, o)
           \/ RasterizeFails(w)
    PROVE  TypeOK'
<1>0. /\ <<>> \in Seq(Renders)
      /\ \A d \in Devices, r \in Renders : <<r>> \o messages[d] \in Seq(Renders)
  BY QueueTypes DEF TypeOK
<1>1. ASSUME NEW o \in Outcomes, Measure(w, o)
      PROVE  TypeOK'
  <2>1. faults' \in 0..MaxFaults /\ LinkAfter(o) \in {"up", "broken"}
    BY <1>1, IssueTypes DEF TypeOK, Measure
  <2> QED
    BY <1>1, <2>1 DEF TypeOK, Measure, Relink, To, queueVars, deviceVars, historyVars
<1>2. ASSUME NEW o \in Outcomes, Trim(w, o)
      PROVE  TypeOK'
  <2>1. faults' \in 0..MaxFaults /\ LinkAfter(o) \in {"up", "broken"}
    BY <1>2, IssueTypes DEF TypeOK, Trim
  <2> QED
    BY <1>0, <1>2, <2>1 DEF TypeOK, Trim, Relink, To, queueVars, historyVars
<1>3. ASSUME NEW o \in Outcomes, Send(w, o)
      PROVE  TypeOK'
  <2>1. faults' \in 0..MaxFaults /\ LinkAfter(o) \in {"up", "broken"}
    BY <1>3, IssueTypes DEF TypeOK, Send
  <2>2. held[w] \in Renders
    BY <1>3 DEF TypeOK, Send
  <2>3. messages' \in [Devices -> Seq(Renders)] /\ sent' \in SUBSET Renders
    <3>1. Target[held[w]] \in Devices
      BY <2>2, RendersAssumption
    <3>2. <<held[w]>> \o messages[Target[held[w]]] \in Seq(Renders)
      BY <1>0, <2>2, <3>1
    <3>3. CASE Applied(o)
      BY <1>3, <2>2, <3>2, <3>3 DEF TypeOK, Send
    <3>4. CASE ~Applied(o)
      BY <1>3, <3>4 DEF TypeOK, Send
    <3> QED
      BY <3>3, <3>4
  <2> QED
    BY <1>3, <2>1, <2>3 DEF TypeOK, Send, Relink, To, queueVars
<1>4. CASE RasterizeFails(w)
  BY <1>4 DEF TypeOK, RasterizeFails, To, queueVars, deviceVars, historyVars
<1> QED
  BY <1>1, <1>2, <1>3, <1>4

\* ... and the outcome.
LEMMA RecordTypes ==
    ASSUME TypeOK, NEW w \in Renderers,
           \/ Forget(w)
           \/ \E o \in Outcomes : Record(w, o)
           \/ Crash(w)
    PROVE  TypeOK'
<1>1. CASE Forget(w)
  BY <1>1, RendersAssumption
  DEF TypeOK, Forget, Drop, Relink, To, queueVars, deviceVars
<1>2. ASSUME NEW o \in Outcomes, Record(w, o)
      PROVE  TypeOK'
  <2>1. faults' \in 0..MaxFaults /\ LinkAfter(o) \in {"up", "broken"}
    BY <1>2, IssueTypes DEF TypeOK, Record
  <2>2. held[w] \in Renders
    BY <1>2 DEF TypeOK, Record
  <2>3. /\ results' \in [Renders -> {"absent", "pending"} \cup Verdicts]
        /\ recorded' \in SUBSET Renders
        /\ lost' \in SUBSET Renders
    BY <1>2, <2>2 DEF TypeOK, Record, Drop, Verdicts
  <2> QED
    BY <1>2, <2>1, <2>3, RendersAssumption DEF TypeOK, Record, Relink, To, deviceVars
<1>3. CASE Crash(w)
  BY <1>3, RendersAssumption, FaultsAssumption
  DEF TypeOK, Crash, Fault, Drop, Relink, To, queueVars, deviceVars
<1> QED
  BY <1>1, <1>2, <1>3

\* A device's pop keeps the types.
LEMMA DeviceTypes ==
    ASSUME TypeOK, NEW d \in Devices, Show(d) \/ Miss(d)
    PROVE  TypeOK'
<1>0. /\ Head(messages[d]) \in Renders /\ Tail(messages[d]) \in Seq(Renders)
      /\ \A r \in Renders : Append(shown[d], r) \in Seq(Renders)
  BY QueueTypes DEF TypeOK, Show, Miss
<1>1. CASE Show(d)
  BY <1>0, <1>1 DEF TypeOK, Show, queueVars, tickVars, historyVars
<1>2. CASE Miss(d)
  BY <1>0, <1>2, FaultsAssumption DEF TypeOK, Miss, Fault, queueVars, tickVars, historyVars
<1> QED
  BY <1>1, <1>2

LEMMA TypeNext == TypeOK /\ [Next]_vars => TypeOK'
<1> SUFFICES ASSUME TypeOK, [Next]_vars PROVE TypeOK'
  OBVIOUS
<1>1. CASE UNCHANGED vars
  BY <1>1 DEF TypeOK, vars, queueVars, deviceVars, tickVars, historyVars
<1>2. ASSUME NEW r \in Renders, Enqueue(r) PROVE TypeOK'
  BY <1>2, EnqueueTypes
<1>3. ASSUME NEW w \in Renderers, Tick(w) \/ Crash(w) PROVE TypeOK'
  BY <1>3, PopTypes, SendTypes, RecordTypes DEF Tick
<1>4. ASSUME NEW d \in Devices, Show(d) \/ Miss(d) PROVE TypeOK'
  BY <1>4, DeviceTypes
<1> QED
  BY <1>1, <1>2, <1>3, <1>4 DEF Next

-----------------------------------------------------------------------------
(* Room                                                                    *)

\* A list that does not grow keeps its room if no renderer joins.
LEMMA RoomKept ==
    ASSUME NEW S, IsFiniteSet(S), NEW T \in SUBSET S,
           NEW n \in Nat, NEW m \in Nat, NEW bound \in Nat,
           n + Cardinality(S) <= bound, m <= n
    PROVE  m + Cardinality(T) <= bound
<1>1. Cardinality(T) <= Cardinality(S) /\ IsFiniteSet(T)
  BY FS_Subset
<1>2. Cardinality(T) \in Nat /\ Cardinality(S) \in Nat
  BY <1>1, FS_CardinalityType
<1> QED
  BY <1>1, <1>2

\* A renderer that pushes takes the place it had been given.
LEMMA RoomUsed ==
    ASSUME NEW S, IsFiniteSet(S), NEW w \in S, NEW T \in SUBSET (S \ {w}),
           NEW n \in Nat, NEW bound \in Nat, n + Cardinality(S) <= bound
    PROVE  n + 1 + Cardinality(T) <= bound
<1>1. IsFiniteSet(S \ {w}) /\ Cardinality(S \ {w}) = Cardinality(S) - 1
  BY FS_RemoveElement
<1>2. Cardinality(T) <= Cardinality(S \ {w}) /\ IsFiniteSet(T)
  BY <1>1, FS_Subset
<1>3. Cardinality(T) \in Nat /\ Cardinality(S) \in Nat
  BY <1>2, FS_CardinalityType
<1> QED
  BY <1>1, <1>2, <1>3

LEMMA SendersFinite ==
    ASSUME NEW d
    PROVE  /\ Senders(d) \subseteq Renderers
           /\ IsFiniteSet(Senders(d))
           /\ Cardinality(Senders(d)) \in Nat
           /\ Cardinality(Senders(d)) <= Cardinality(Renderers)
           /\ Cardinality(Renderers) \in Nat
<1>1. Senders(d) \subseteq Renderers
  BY DEF Senders
<1>2. IsFiniteSet(Renderers)
  BY RendersAssumption
<1>3. IsFiniteSet(Senders(d)) /\ Cardinality(Senders(d)) <= Cardinality(Renderers)
  BY <1>1, <1>2, FS_Subset
<1> QED
  BY <1>1, <1>2, <1>3, FS_CardinalityType

\* The room of one device is kept by a step after which its list is no longer
\* and no renderer has joined those that may push on it ...
LEMMA DeviceKept ==
    ASSUME IInv, TypeOK', NEW d \in Devices,
           Len(messages'[d]) <= Len(messages[d]),
           Senders(d)' \subseteq Senders(d)
    PROVE  Len(messages'[d]) + Cardinality(Senders(d)') <= Cardinality(Renderers)
<1>1. Len(messages[d]) \in Nat /\ Len(messages'[d]) \in Nat
  BY QueueTypes DEF IInv, TypeOK
<1>2. Len(messages[d]) + Cardinality(Senders(d)) <= Cardinality(Renderers)
  BY DEF IInv, Room
<1> QED
  BY <1>1, <1>2, SendersFinite, RoomKept

\* ... and given by one that leaves the list empty.
LEMMA DeviceEmptied ==
    ASSUME NEW d \in Devices, messages'[d] = <<>>
    PROVE  Len(messages'[d]) + Cardinality(Senders(d)') <= Cardinality(Renderers)
<1>1. Senders(d)' \subseteq Renderers
  BY DEF Senders
<1>2. IsFiniteSet(Senders(d)') /\ Cardinality(Senders(d)') <= Cardinality(Renderers)
  BY <1>1, RendersAssumption, FS_Subset
<1>3. Cardinality(Senders(d)') \in Nat
  BY <1>2, FS_CardinalityType
<1> QED
  BY <1>2, <1>3, QueueTypes

\* Steps that neither lengthen a list nor bring a renderer to its push.
LEMMA QuietSteps ==
    ASSUME IInv, TypeOK',
           \/ UNCHANGED vars
           \/ \E r \in Renders : Enqueue(r)
           \/ \E w \in Renderers :
                \/ Connect(w)
                \/ Pop(w)
                \/ PopExpired(w)
                \/ \E o \in Outcomes : PopFails(w, o) \/ Record(w, o)
                \/ RasterizeFails(w)
                \/ Forget(w)
                \/ Crash(w)
    PROVE  Room'
<1>1. messages' = messages /\ \A d \in Devices : Senders(d)' \subseteq Senders(d)
  <2>1. CASE UNCHANGED vars
    BY <2>1 DEF vars, deviceVars, tickVars, Senders
  <2>2. ASSUME NEW r \in Renders, Enqueue(r)
        PROVE  messages' = messages /\ \A d \in Devices : Senders(d)' \subseteq Senders(d)
    BY <2>2 DEF Enqueue, WebPush, WebMark, WebTimeout, OtherPush,
                deviceVars, tickVars, Senders
  <2>3. ASSUME NEW w \in Renderers, Connect(w)
        PROVE  messages' = messages /\ \A d \in Devices : Senders(d)' \subseteq Senders(d)
    BY <2>3 DEF IInv, TypeOK, Connect, Relink, deviceVars, Senders
  <2>4. ASSUME NEW w \in Renderers, Pop(w)
        PROVE  messages' = messages /\ \A d \in Devices : Senders(d)' \subseteq Senders(d)
    BY <2>4 DEF IInv, TypeOK, Pop, To, deviceVars, Senders
  <2>5. ASSUME NEW w \in Renderers, PopExpired(w)
        PROVE  messages' = messages /\ \A d \in Devices : Senders(d)' \subseteq Senders(d)
    BY <2>5 DEF IInv, TypeOK, PopExpired, deviceVars, tickVars, Senders
  <2>6. ASSUME NEW w \in Renderers, NEW o \in Outcomes, PopFails(w, o)
        PROVE  messages' = messages /\ \A d \in Devices : Senders(d)' \subseteq Senders(d)
    BY <2>6 DEF IInv, TypeOK, PopFails, Relink, deviceVars, Senders
  <2>7. ASSUME NEW w \in Renderers, NEW o \in Outcomes, Record(w, o)
        PROVE  messages' = messages /\ \A d \in Devices : Senders(d)' \subseteq Senders(d)
    BY <2>7 DEF IInv, TypeOK, Record, To, Relink, deviceVars, Senders
  <2>8. ASSUME NEW w \in Renderers, RasterizeFails(w)
        PROVE  messages' = messages /\ \A d \in Devices : Senders(d)' \subseteq Senders(d)
    BY <2>8 DEF IInv, TypeOK, RasterizeFails, To, deviceVars, Senders
  <2>9. ASSUME NEW w \in Renderers, Forget(w)
        PROVE  messages' = messages /\ \A d \in Devices : Senders(d)' \subseteq Senders(d)
    BY <2>9 DEF IInv, TypeOK, Forget, To, Relink, deviceVars, Senders
  <2>10. ASSUME NEW w \in Renderers, Crash(w)
        PROVE  messages' = messages /\ \A d \in Devices : Senders(d)' \subseteq Senders(d)
    BY <2>10 DEF IInv, TypeOK, Crash, To, Relink, deviceVars, Senders
  <2> QED
    BY <2>1, <2>2, <2>3, <2>4, <2>5, <2>6, <2>7, <2>8, <2>9, <2>10
<1>2. \A d \in Devices : Len(messages[d]) \in Nat
  BY QueueTypes DEF IInv, TypeOK
<1> QED
  BY <1>1, <1>2, DeviceKept DEF Room

\* A renderer reads the length of the list of its device: one that goes on to
\* push has read that it was empty, or its connection is broken.
LEMMA MeasureRoom ==
    ASSUME IInv, TypeOK', NEW w \in Renderers, NEW o \in Outcomes, Measure(w, o)
    PROVE  Room'
<1>1. messages' = messages
  BY DEF Measure, deviceVars
<1>2. ASSUME NEW d \in Devices
      PROVE  messages[d] = <<>> \/ Senders(d)' \subseteq Senders(d)
  BY DEF IInv, TypeOK, Measure, To, Relink, LinkAfter, Senders
<1>3. \A d \in Devices : Len(messages[d]) \in Nat
  BY QueueTypes DEF IInv, TypeOK
<1> QED
  BY <1>1, <1>2, <1>3, DeviceKept, DeviceEmptied DEF Room

\* A renderer empties the list, or its connection is broken.
LEMMA TrimRoom ==
    ASSUME IInv, TypeOK', NEW w \in Renderers, NEW o \in Outcomes, Trim(w, o)
    PROVE  Room'
<1>1. \A d \in Devices : messages'[d] = messages[d] \/ messages'[d] = <<>>
  BY DEF IInv, TypeOK, Trim
<1>2. ASSUME NEW d \in Devices, messages'[d] # <<>>
      PROVE  Senders(d)' \subseteq Senders(d)
  <2>1. CASE Applied(o)
    <3>1. Target[held[w]] # d
      BY <1>2, <2>1 DEF IInv, TypeOK, Trim
    <3> QED
      BY <3>1 DEF IInv, TypeOK, Trim, To, Relink, Senders
  <2>2. CASE ~Applied(o)
    BY <2>2 DEF IInv, TypeOK, Trim, To, Relink, Applied, LinkAfter, Senders
  <2> QED
    BY <2>1, <2>2
<1>3. \A d \in Devices : Len(messages[d]) \in Nat
  BY QueueTypes DEF IInv, TypeOK
<1> QED
  BY <1>1, <1>2, <1>3, DeviceKept, DeviceEmptied DEF Room

\* A renderer pushes once, and only if it was among those counted.
LEMMA SendRoom ==
    ASSUME IInv, TypeOK', NEW w \in Renderers, NEW o \in Outcomes, Send(w, o)
    PROVE  Room'
<1> DEFINE r == held[w]
<1>1. r \in Renders /\ Target[r] \in Devices
  BY RendersAssumption DEF IInv, TypeOK, Send
<1>2. \A d \in Devices : Senders(d)' \subseteq Senders(d) \ {w}
  BY DEF IInv, TypeOK, Send, To, Relink, Senders
<1>3. \A d \in Devices : Len(messages[d]) \in Nat
  BY QueueTypes DEF IInv, TypeOK
<1>4. ASSUME NEW d \in Devices
      PROVE  Len(messages'[d]) + Cardinality(Senders(d)') <= Cardinality(Renderers)
  <2>1. CASE Applied(o) /\ Target[r] = d
    <3>1. w \in Senders(d)
      BY <2>1 DEF Send, Issue, Applied, Senders
    <3>2. messages'[d] = <<r>> \o messages[d]
      BY <2>1 DEF IInv, TypeOK, Send
    <3>3. Len(messages'[d]) = Len(messages[d]) + 1
      BY <1>1, <3>2, QueueTypes DEF IInv, TypeOK
    <3>4. Len(messages[d]) + Cardinality(Senders(d)) <= Cardinality(Renderers)
      BY DEF IInv, Room
    <3> QED
      BY <1>2, <1>3, <3>1, <3>3, <3>4, SendersFinite, RoomUsed
  <2>2. CASE ~(Applied(o) /\ Target[r] = d)
    <3>1. messages'[d] = messages[d]
      BY <2>2 DEF IInv, TypeOK, Send
    <3> QED
      BY <1>2, <1>3, <3>1, DeviceKept
  <2> QED
    BY <2>1, <2>2
<1> QED
  BY <1>4 DEF Room

\* A device takes from its list.
LEMMA DeviceRoom ==
    ASSUME IInv, TypeOK', NEW x \in Devices, Show(x) \/ Miss(x)
    PROVE  Room'
<1>1. \A d \in Devices : Len(messages[d]) \in Nat
  BY QueueTypes DEF IInv, TypeOK
<1>2. Len(Tail(messages[x])) = Len(messages[x]) - 1
  BY QueueTypes DEF IInv, TypeOK, Show, Miss
<1>3. messages' = [messages EXCEPT ![x] = Tail(messages[x])]
  BY DEF Show, Miss
<1>4. \A d \in Devices : Len(messages'[d]) <= Len(messages[d])
  BY <1>1, <1>2, <1>3 DEF IInv, TypeOK
<1>5. \A d \in Devices : Senders(d)' \subseteq Senders(d)
  BY DEF Show, Miss, tickVars, Senders
<1> QED
  BY <1>4, <1>5, DeviceKept DEF Room

-----------------------------------------------------------------------------
(* The theorems                                                            *)

LEMMA InitInv == Init => IInv
<1> SUFFICES ASSUME Init PROVE IInv
  OBVIOUS
<1>1. TypeOK
  BY RendersAssumption, FaultsAssumption DEF Init, TypeOK
<1>2. ASSUME NEW d \in Devices
      PROVE  Len(messages[d]) + Cardinality(Senders(d)) <= Cardinality(Renderers)
  BY SendersFinite, QueueTypes DEF Init
<1> QED
  BY <1>1, <1>2 DEF IInv, Room

LEMMA NextInv == IInv /\ [Next]_vars => IInv'
<1> SUFFICES ASSUME IInv, [Next]_vars PROVE IInv'
  OBVIOUS
<1>1. TypeOK'
  BY TypeNext DEF IInv
<1>2. Room'
  <2>1. CASE UNCHANGED vars
    BY <1>1, <2>1, QuietSteps
  <2>2. ASSUME NEW r \in Renders, Enqueue(r) PROVE Room'
    BY <1>1, <2>2, QuietSteps
  <2>3. ASSUME NEW w \in Renderers, Tick(w) \/ Crash(w) PROVE Room'
    BY <1>1, <2>3, QuietSteps, MeasureRoom, TrimRoom, SendRoom DEF Tick
  <2>4. ASSUME NEW d \in Devices, Show(d) \/ Miss(d) PROVE Room'
    BY <1>1, <2>4, DeviceRoom
  <2> QED
    BY <2>1, <2>2, <2>3, <2>4 DEF Next
<1> QED
  BY <1>1, <1>2 DEF IInv

\* Every reachable state is well typed and leaves room, in every device's
\* list, for the renderers that are about to push on it.
THEOREM Inductive == Spec => []IInv
<1>1. Init => IInv
  BY InitInv
<1>2. IInv /\ [Next]_vars => IInv'
  BY NextInv
<1> QED
  BY <1>1, <1>2, PTL DEF Spec

\* Whatever fails in the middle of a tick, a renderer holds a render exactly
\* while it works on it, and works on it with a connection of its own.
THEOREM TypeCorrect == Spec => []TypeOK
<1>1. IInv => TypeOK
  BY DEF IInv
<1> QED
  BY <1>1, Inductive, PTL

\* However many renders are queued for a device that is away, and however the
\* renderers' reads, trims and pushes interleave and fail, no more of them
\* wait for it than there are renderer processes.
THEOREM BacklogIsBounded == Spec => []BacklogBounded
<1>1. IInv => BacklogBounded
  <2> SUFFICES ASSUME IInv, NEW d \in Devices
               PROVE  Len(messages[d]) <= Cardinality(Renderers)
    BY DEF BacklogBounded
  <2>1. Len(messages[d]) + Cardinality(Senders(d)) <= Cardinality(Renderers)
    BY DEF IInv, Room
  <2>2. Len(messages[d]) \in Nat
    BY QueueTypes DEF IInv, TypeOK
  <2> QED
    BY <2>1, <2>2, SendersFinite
<1> QED
  BY <1>1, Inductive, PTL

-----------------------------------------------------------------------------
(* Where a render can be                                                   *)

\* A render that was not pushed, or waits: nobody has touched it.
Untouched(r) ==
    /\ r \notin sent /\ results[r] \notin Verdicts
    /\ \A w \in Renderers : held[w] # r /\ r \notin Entries(taken[w])

Waiting ==
    /\ \A j, k \in DOMAIN queue : queue[j] = queue[k] => j = k
    /\ \A r \in Renders : request[r] = "new" => r \notin Entries(queue) /\ Untouched(r)
    /\ \A r \in Entries(queue) : Untouched(r)

\* A render in hand is in one renderer's hands, without an answer yet, and
\* what that renderer believes of it is right as long as it can say so.
InHand ==
    /\ \A v, w \in Renderers : held[v] = held[w] /\ held[v] # NoRender => v = w
    /\ \A w \in Renderers : pc[w] # "pop" =>
         /\ results[held[w]] \notin Verdicts
         /\ pc[w] # "record" => held[w] \notin sent
         /\ (pc[w] = "record" /\ sendError[w]) => (held[w] \notin sent \/ link[w] = "broken")
         /\ (pc[w] = "record" /\ ~sendError[w]) => held[w] \in sent

-----------------------------------------------------------------------------
(* Data                                                                    *)

\* Taking the first of a list, and adding to its end.
LEMMA Lists ==
    ASSUME NEW s \in Seq(Renders)
    PROVE  /\ s # <<>> =>
                /\ Head(s) \in Entries(s) /\ Entries(Tail(s)) \subseteq Entries(s)
                /\ \A r \in Entries(s) : r = Head(s) \/ r \in Entries(Tail(s))
                /\ (\A j, k \in DOMAIN s : s[j] = s[k] => j = k) =>
                     /\ Head(s) \notin Entries(Tail(s))
                     /\ \A j, k \in DOMAIN Tail(s) : Tail(s)[j] = Tail(s)[k] => j = k
           /\ \A r \in Renders :
                /\ Entries(Append(s, r)) = Entries(s) \cup {r}
                /\ (\A j, k \in DOMAIN s : s[j] = s[k] => j = k) /\ r \notin Entries(s) =>
                     \A j, k \in DOMAIN Append(s, r) : Append(s, r)[j] = Append(s, r)[k] => j = k
           /\ Entries(s) \subseteq Renders
<1>1. Len(s) \in Nat /\ DOMAIN s = 1..Len(s) /\ \A k \in DOMAIN s : s[k] \in Renders
  OBVIOUS
<1>2. ASSUME s # <<>>
      PROVE  /\ Head(s) \in Entries(s) /\ Entries(Tail(s)) \subseteq Entries(s)
             /\ \A r \in Entries(s) : r = Head(s) \/ r \in Entries(Tail(s))
             /\ (\A j, k \in DOMAIN s : s[j] = s[k] => j = k) =>
                  /\ Head(s) \notin Entries(Tail(s))
                  /\ \A j, k \in DOMAIN Tail(s) : Tail(s)[j] = Tail(s)[k] => j = k
  <2>1. /\ Head(s) = s[1] /\ 1 \in DOMAIN s
        /\ DOMAIN Tail(s) = 1..(Len(s) - 1)
        /\ \A k \in DOMAIN Tail(s) : Tail(s)[k] = s[k + 1] /\ k + 1 \in DOMAIN s
        /\ \A k \in DOMAIN s : k = 1 \/ (k - 1 \in DOMAIN Tail(s) /\ Tail(s)[k - 1] = s[k])
    BY <1>1, <1>2
  <2>2. Entries(Tail(s)) \subseteq Entries(s)
    BY <2>1 DEF Entries
  <2>3. \A r \in Entries(s) : r = Head(s) \/ r \in Entries(Tail(s))
    <3>1. ASSUME NEW k \in DOMAIN s
          PROVE  s[k] = Head(s) \/ s[k] \in Entries(Tail(s))
      <4>1. CASE k = 1
        BY <2>1, <4>1
      <4>2. CASE k - 1 \in DOMAIN Tail(s) /\ Tail(s)[k - 1] = s[k]
        BY <4>2, Zenon DEF Entries
      <4> QED
        BY <2>1, <4>1, <4>2
    <3> QED
      BY <3>1 DEF Entries
  <2>4. ASSUME \A j, k \in DOMAIN s : s[j] = s[k] => j = k
        PROVE  /\ Head(s) \notin Entries(Tail(s))
               /\ \A j, k \in DOMAIN Tail(s) : Tail(s)[j] = Tail(s)[k] => j = k
    <3>1. \A k \in DOMAIN Tail(s) : s[k + 1] # s[1]
      BY <1>1, <2>1, <2>4
    <3>2. \A j, k \in DOMAIN Tail(s) : Tail(s)[j] = Tail(s)[k] => j = k
      BY <1>1, <2>1, <2>4
    <3> QED
      BY <2>1, <3>1, <3>2 DEF Entries
  <2> QED
    BY <2>1, <2>2, <2>3, <2>4 DEF Entries
<1>3. ASSUME NEW r \in Renders
      PROVE  /\ Entries(Append(s, r)) = Entries(s) \cup {r}
             /\ (\A j, k \in DOMAIN s : s[j] = s[k] => j = k) /\ r \notin Entries(s) =>
                  \A j, k \in DOMAIN Append(s, r) : Append(s, r)[j] = Append(s, r)[k] => j = k
  <2>1. /\ DOMAIN Append(s, r) = DOMAIN s \cup {Len(s) + 1} /\ Len(s) + 1 \notin DOMAIN s
        /\ \A k \in DOMAIN s : Append(s, r)[k] = s[k]
        /\ Append(s, r)[Len(s) + 1] = r
    BY <1>1
  <2>2. Entries(Append(s, r)) = Entries(s) \cup {r}
    BY <2>1 DEF Entries
  <2>3. ASSUME \A j, k \in DOMAIN s : s[j] = s[k] => j = k, r \notin Entries(s),
               NEW j \in DOMAIN Append(s, r), NEW k \in DOMAIN Append(s, r),
               Append(s, r)[j] = Append(s, r)[k]
        PROVE  j = k
    BY <2>1, <2>3 DEF Entries
  <2> QED
    BY <2>2, <2>3
<1>4. Entries(s) \subseteq Renders
  BY <1>1 DEF Entries
<1> QED
  BY <1>2, <1>3, <1>4

\* What a command that erred, and one that did not, say of a connection.
LEMMA Commands ==
    ASSUME NEW l, NEW o \in Outcomes, Issue(l, o)
    PROVE  /\ Applied(o) => l = "up"
           /\ o = "ok" => Applied(o)
           /\ o # "ok" => LinkAfter(o) = "broken"
  BY DEF Issue, Outcomes, Applied, LinkAfter

-----------------------------------------------------------------------------
(* Places and answers                                                      *)

\* Steps that bring no render anywhere it was not.
LEMMA Nowhere ==
    ASSUME TypeOK, Waiting, InHand, AnswerIsTrue,
           sent' = sent, taken' = taken,
           \A r \in Renders : results'[r] = results[r] \/ results'[r] = "pending",
           \/ queue' = queue
           \/ queue # <<>> /\ queue' = Tail(queue),
           \A r \in Renders : request'[r] = "new" => request[r] = "new",
           \A w \in Renderers : pc'[w] # "pop" =>
               /\ pc[w] # "pop" /\ held'[w] = held[w]
               /\ \/ pc[w] # "record" /\ pc'[w] # "record"
                  \/ pc[w] = pc'[w] /\ sendError'[w] = sendError[w] /\ link'[w] = link[w]
                  \/ pc[w] # "record" /\ pc'[w] = "record" /\ sendError'[w] = TRUE,
           \A w \in Renderers : held'[w] = held[w] \/ held'[w] = NoRender
    PROVE  Waiting' /\ InHand' /\ AnswerIsTrue'
<1>1. \A r \in Renders : results'[r] \in Verdicts => results'[r] = results[r]
  BY DEF Verdicts
<1>2. \A r \in Renders : Untouched(r) => Untouched(r)'
  BY <1>1, RendersAssumption DEF Untouched
<1>3. /\ Entries(queue') \subseteq Entries(queue) /\ Entries(queue) \subseteq Renders
      /\ \A j, k \in DOMAIN queue' : queue'[j] = queue'[k] => j = k
  <2>1. queue \in Seq(Renders) /\ \A j, k \in DOMAIN queue : queue[j] = queue[k] => j = k
    BY DEF TypeOK, Waiting
  <2>2. Entries(queue) \subseteq Renders
    BY <2>1, Lists
  <2>3. CASE queue' = queue
    BY <2>1, <2>2, <2>3
  <2>4. CASE queue # <<>> /\ queue' = Tail(queue)
    <3>1. /\ Entries(Tail(queue)) \subseteq Entries(queue)
          /\ \A j, k \in DOMAIN Tail(queue) : Tail(queue)[j] = Tail(queue)[k] => j = k
      BY <2>1, <2>4, Lists
    <3> QED
      BY <2>2, <2>4, <3>1
  <2> QED
    BY <2>3, <2>4
<1>4. Waiting'
  <2>1. Entries(queue)' = Entries(queue')
    BY DEF Entries
  <2> QED
    BY <1>2, <1>3, <2>1 DEF Waiting
<1>5. AnswerIsTrue'
  BY <1>1 DEF AnswerIsTrue
<1>6. InHand'
  <2>1. \A v, w \in Renderers : held'[v] = held'[w] /\ held'[v] # NoRender => v = w
    BY DEF InHand
  <2>2. ASSUME NEW w \in Renderers, pc'[w] # "pop"
        PROVE  /\ results'[held'[w]] \notin Verdicts
               /\ pc'[w] # "record" => held'[w] \notin sent'
               /\ pc'[w] = "record" /\ sendError'[w] => held'[w] \notin sent' \/ link'[w] = "broken"
               /\ pc'[w] = "record" /\ ~sendError'[w] => held'[w] \in sent'
    <3>1. held'[w] = held[w] /\ held[w] \in Renders /\ pc[w] # "pop"
      BY <2>2 DEF TypeOK
    <3> QED
      BY <1>1, <2>2, <3>1 DEF InHand
  <2> QED
    BY <2>1, <2>2 DEF InHand
<1> QED
  BY <1>4, <1>5, <1>6

\* A render that is pushed waits from now on, and one that is popped is in the
\* hands of who popped it.
LEMMA PushKeeps ==
    ASSUME TypeOK, Waiting, InHand, AnswerIsTrue,
           NEW r \in Renders, request[r] = "new", queue' = Append(queue, r),
           \A q \in Renders : request'[q] = "new" => request[q] = "new" /\ q # r,
           UNCHANGED <<results, tickVars, historyVars>>
    PROVE  Waiting' /\ InHand' /\ AnswerIsTrue'
<1> USE DEF tickVars, historyVars
<1>1. /\ Untouched(r) /\ r \notin Entries(queue)
      /\ \A j, k \in DOMAIN queue : queue[j] = queue[k] => j = k
  BY DEF Waiting
<1>2. /\ Entries(queue)' = Entries(queue) \cup {r}
      /\ \A j, k \in DOMAIN queue' : queue'[j] = queue'[k] => j = k
  <2>1. queue \in Seq(Renders)
    BY DEF TypeOK
  <2>2. /\ Entries(Append(queue, r)) = Entries(queue) \cup {r}
        /\ \A j, k \in DOMAIN Append(queue, r) :
             Append(queue, r)[j] = Append(queue, r)[k] => j = k
    BY <1>1, <2>1, Lists
  <2>3. Entries(queue)' = Entries(Append(queue, r))
    BY DEF Entries
  <2> QED
    BY <2>2, <2>3
<1>3. \A q \in Renders : Untouched(q)' = Untouched(q)
  BY DEF Untouched, Entries
<1>4. Entries(queue) \subseteq Renders
  BY Lists DEF TypeOK
<1>5. Waiting'
  BY <1>1, <1>2, <1>3, <1>4 DEF Waiting
<1> QED
  BY <1>5 DEF InHand, AnswerIsTrue

LEMMA PopKeeps ==
    ASSUME TypeOK, Waiting, InHand, AnswerIsTrue, NEW w \in Renderers, Pop(w)
    PROVE  Waiting' /\ InHand' /\ AnswerIsTrue'
<1> DEFINE r == Head(queue)
<1>1. /\ queue # <<>> /\ queue' = Tail(queue) /\ pc[w] = "pop"
      /\ UNCHANGED <<results, request, sendError, link, sent>>
      /\ held' = [held EXCEPT ![w] = r] /\ taken' = [taken EXCEPT ![w] = Append(@, r)]
      /\ pc' = [pc EXCEPT ![w] = "measure"]
  BY DEF Pop, To
<1>2. /\ r \in Entries(queue) /\ r \in Renders /\ Untouched(r) /\ request[r] # "new"
      /\ Entries(queue) \subseteq Renders
  BY <1>1, Lists DEF TypeOK, Waiting
<1>3. /\ Entries(queue)' \subseteq Entries(queue) /\ r \notin Entries(queue)'
      /\ \A j, k \in DOMAIN queue' : queue'[j] = queue'[k] => j = k
  <2>1. /\ Entries(Tail(queue)) \subseteq Entries(queue) /\ r \notin Entries(Tail(queue))
        /\ \A j, k \in DOMAIN Tail(queue) : Tail(queue)[j] = Tail(queue)[k] => j = k
    BY <1>1, Lists DEF TypeOK, Waiting
  <2> QED
    BY <1>1, <2>1 DEF Entries
<1>4. /\ \A x \in Renderers : held'[x] = IF x = w THEN r ELSE held[x]
      /\ \A x \in Renderers : pc'[x] = IF x = w THEN "measure" ELSE pc[x]
      /\ \A x \in Renderers : Entries(taken'[x]) \subseteq Entries(taken[x]) \cup {r}
  <2>1. \A x \in Renderers : held'[x] = IF x = w THEN r ELSE held[x]
    BY <1>1 DEF TypeOK
  <2>2. \A x \in Renderers : pc'[x] = IF x = w THEN "measure" ELSE pc[x]
    BY <1>1 DEF TypeOK
  <2>3. Entries(Append(taken[w], r)) = Entries(taken[w]) \cup {r}
    BY <1>2, Lists DEF TypeOK
  <2>4. \A x \in Renderers : taken'[x] = IF x = w THEN Append(taken[w], r) ELSE taken[x]
    BY <1>1 DEF TypeOK
  <2>5. ASSUME NEW x \in Renderers
        PROVE  Entries(taken'[x]) \subseteq Entries(taken[x]) \cup {r}
    BY <2>3, <2>4
  <2> QED
    BY <2>1, <2>2, <2>5
<1>5. \A q \in Renders \ {r} : Untouched(q) => Untouched(q)'
  BY <1>1, <1>4 DEF Untouched, Entries
<1>6. Waiting'
  BY <1>1, <1>2, <1>3, <1>5 DEF Waiting
<1>7. InHand'
  <2>1. \A x \in Renderers : held[x] # r
    BY <1>2 DEF Untouched
  <2>2. r \notin sent /\ results[r] \notin Verdicts
    BY <1>2 DEF Untouched
  <2> QED
    BY <1>1, <1>4, <2>1, <2>2 DEF InHand
<1> QED
  BY <1>1, <1>6, <1>7 DEF AnswerIsTrue

\* Who sends a render knows what came of it, or can tell nobody.
LEMMA SendKeeps ==
    ASSUME TypeOK, Waiting, InHand, AnswerIsTrue,
           NEW w \in Renderers, NEW o \in Outcomes, Send(w, o)
    PROVE  Waiting' /\ InHand' /\ AnswerIsTrue'
<1> USE DEF queueVars
<1> DEFINE r == held[w]
<1>1. /\ pc[w] = "send" /\ r \in Renders /\ results[r] \notin Verdicts /\ r \notin sent
  BY DEF TypeOK, InHand, Send
<1>2. /\ o = "ok" => Applied(o)
      /\ o # "ok" => LinkAfter(o) = "broken"
  BY Commands DEF Send
<1>3. /\ UNCHANGED <<queue, results, request, held, taken>>
      /\ sent' = IF Applied(o) THEN sent \cup {r} ELSE sent
      /\ pc' = [pc EXCEPT ![w] = "record"] /\ link' = [link EXCEPT ![w] = LinkAfter(o)]
      /\ sendError' = [sendError EXCEPT ![w] = o # "ok"]
  BY DEF Send, To, Relink
<1>7. \A x \in Renderers \ {w} : pc'[x] = pc[x] /\ link'[x] = link[x]
  BY <1>3 DEF TypeOK
<1>8. pc'[w] = "record" /\ link'[w] = LinkAfter(o)
  BY <1>3 DEF TypeOK
<1>9. /\ \A x \in Renderers \ {w} : sendError'[x] = sendError[x]
      /\ sendError'[w] <=> o # "ok"
  <2>1. sendError \in [Renderers -> BOOLEAN]
    BY DEF TypeOK
  <2> QED
    BY <1>3, <2>1, Zenon
<1>4. \A q \in Renders : Untouched(q) => Untouched(q)'
  BY <1>3 DEF Untouched, Entries
<1>5. Waiting'
  <2>1. Entries(queue) \subseteq Renders
    BY Lists DEF TypeOK
  <2> QED
    BY <1>3, <1>4, <2>1 DEF Waiting, Entries
<1>6. InHand'
  <2>1. \A x \in Renderers \ {w} : held[x] # r
    BY <1>1, RendersAssumption DEF InHand
  <2>2. \A u, v \in Renderers : held'[u] = held'[v] /\ held'[u] # NoRender => u = v
    BY <1>3 DEF InHand
  <2>3. ASSUME NEW x \in Renderers \ {w}, pc'[x] # "pop"
        PROVE  /\ results'[held'[x]] \notin Verdicts
               /\ pc'[x] # "record" => held'[x] \notin sent'
               /\ (pc'[x] = "record" /\ sendError'[x]) =>
                    (held'[x] \notin sent' \/ link'[x] = "broken")
               /\ (pc'[x] = "record" /\ ~sendError'[x]) => held'[x] \in sent'
    <3>1. /\ held'[x] = held[x] /\ pc'[x] = pc[x] /\ link'[x] = link[x]
          /\ results' = results /\ sendError'[x] = sendError[x]
      BY <1>3, <1>7, <1>9
    <3>2. held[x] \in sent' <=> held[x] \in sent
      BY <1>3, <2>1
    <3>3. /\ results[held[x]] \notin Verdicts
          /\ pc[x] # "record" => held[x] \notin sent
          /\ (pc[x] = "record" /\ sendError[x]) => (held[x] \notin sent \/ link[x] = "broken")
          /\ (pc[x] = "record" /\ ~sendError[x]) => held[x] \in sent
      BY <2>3, <3>1, Zenon DEF InHand
    <3> QED
      BY <3>1, <3>2, <3>3, Zenon
  <2>4. /\ results'[held'[w]] \notin Verdicts
        /\ pc'[w] = "record"
        /\ sendError'[w] => (held'[w] \notin sent' \/ link'[w] = "broken")
        /\ ~sendError'[w] => held'[w] \in sent'
    <3>1. held'[w] = r /\ results'[held'[w]] \notin Verdicts /\ pc'[w] = "record"
      BY <1>1, <1>3, <1>8
    <3>2. CASE o = "ok"
      BY <1>2, <1>3, <1>9, <3>1, <3>2
    <3>3. CASE o # "ok"
      BY <1>2, <1>8, <1>9, <3>1, <3>3
    <3> QED
      BY <3>1, <3>2, <3>3
  <2> QED
    BY <2>2, <2>3, <2>4 DEF InHand
<1>10. AnswerIsTrue'
  <2>1. results' = results /\ sent \subseteq sent' /\ sent' \subseteq sent \cup {r}
    BY <1>3
  <2>2. results[r] # "failure"
    BY <1>1 DEF Verdicts
  <2> QED
    BY <2>1, <2>2 DEF AnswerIsTrue
<1> QED
  BY <1>5, <1>6, <1>10

\* What is recorded is what came of it.
LEMMA RecordKeeps ==
    ASSUME TypeOK, Waiting, InHand, AnswerIsTrue,
           NEW w \in Renderers, NEW o \in Outcomes, Record(w, o)
    PROVE  Waiting' /\ InHand' /\ AnswerIsTrue'
<1> DEFINE r == held[w]
           answer == IF sendError[w] THEN "failure" ELSE "success"
<1>1. /\ pc[w] = "record" /\ r \in Renders
      /\ sendError[w] => r \notin sent \/ link[w] = "broken"
      /\ ~sendError[w] => r \in sent
  BY DEF TypeOK, InHand, Record
<1>2. Applied(o) => link[w] = "up"
  BY Commands DEF Record
<1>0. /\ UNCHANGED <<queue, request, sendError, taken, sent>>
      /\ results' = IF Applied(o) THEN [results EXCEPT ![r] = answer] ELSE results
      /\ pc' = [pc EXCEPT ![w] = "pop"] /\ held' = [held EXCEPT ![w] = NoRender]
      /\ link' = [link EXCEPT ![w] = LinkAfter(o)]
  BY DEF Record, To, Relink
<1>3. /\ UNCHANGED <<queue, request, sendError, taken, sent>>
      /\ pc'[w] = "pop" /\ held'[w] = NoRender
      /\ \A x \in Renderers \ {w} : pc'[x] = pc[x] /\ held'[x] = held[x] /\ link'[x] = link[x]
  BY <1>0 DEF TypeOK
<1>8. /\ \A q \in Renders \ {r} : results'[q] = results[q]
      /\ Applied(o) => results'[r] = answer
      /\ ~Applied(o) => results'[r] = results[r]
  <2>1. results \in [Renders -> {"absent", "pending"} \cup Verdicts]
    BY DEF TypeOK
  <2> QED
    BY <1>0, <1>1, <2>1
<1>4. \A q \in Renders : Untouched(q) => Untouched(q)'
  <2>1. ~Untouched(r)
    BY DEF Untouched
  <2>2. ASSUME NEW q \in Renders, Untouched(q)
        PROVE  Untouched(q)'
    <3>1. /\ q # r /\ q \notin sent' /\ results'[q] \notin Verdicts
          /\ \A x \in Renderers : held'[x] # q
      BY <1>3, <1>8, <2>1, <2>2, RendersAssumption DEF Untouched
    <3>2. \A x \in Renderers : q \notin Entries(taken'[x])
      BY <1>3, <2>2 DEF Untouched
    <3> QED
      BY <3>1, <3>2 DEF Untouched, Entries
  <2> QED
    BY <2>2
<1>5. Waiting'
  <2>1. Entries(queue) \subseteq Renders
    BY Lists DEF TypeOK
  <2> QED
    BY <1>3, <1>4, <2>1 DEF Waiting, Entries
<1>6. InHand'
  <2>1. \A x \in Renderers \ {w} : pc[x] # "pop" => held[x] # r /\ held[x] \in Renders
    BY <1>1, RendersAssumption DEF TypeOK, InHand
  <2>2. \A u, v \in Renderers : held'[u] = held'[v] /\ held'[u] # NoRender => u = v
    BY <1>3 DEF InHand
  <2>3. ASSUME NEW x \in Renderers, pc'[x] # "pop"
        PROVE  /\ results'[held'[x]] \notin Verdicts
               /\ pc'[x] # "record" => held'[x] \notin sent'
               /\ (pc'[x] = "record" /\ sendError'[x]) =>
                    (held'[x] \notin sent' \/ link'[x] = "broken")
               /\ (pc'[x] = "record" /\ ~sendError'[x]) => held'[x] \in sent'
    <3>1. /\ x # w /\ pc[x] # "pop"
          /\ held'[x] = held[x] /\ pc'[x] = pc[x] /\ link'[x] = link[x]
          /\ sent' = sent /\ sendError' = sendError
      BY <1>3, <2>3
    <3>2. results'[held[x]] = results[held[x]]
      BY <1>8, <2>1, <3>1
    <3>3. /\ results[held[x]] \notin Verdicts
          /\ pc[x] # "record" => held[x] \notin sent
          /\ (pc[x] = "record" /\ sendError[x]) => (held[x] \notin sent \/ link[x] = "broken")
          /\ (pc[x] = "record" /\ ~sendError[x]) => held[x] \in sent
      BY <3>1, Zenon DEF InHand
    <3> QED
      BY <3>1, <3>2, <3>3, Zenon
  <2> QED
    BY <2>2, <2>3 DEF InHand
<1>7. AnswerIsTrue'
  <2>1. CASE Applied(o)
    <3>1. link[w] # "broken"
      BY <1>2, <2>1
    <3>2. CASE sendError[w]
      BY <1>1, <1>3, <1>8, <2>1, <3>1, <3>2 DEF AnswerIsTrue
    <3>3. CASE ~sendError[w]
      BY <1>1, <1>3, <1>8, <2>1, <3>3 DEF AnswerIsTrue
    <3> QED
      BY <3>2, <3>3
  <2>2. CASE ~Applied(o)
    BY <1>3, <1>8, <2>2 DEF AnswerIsTrue
  <2> QED
    BY <2>1, <2>2
<1> QED
  BY <1>5, <1>6, <1>7

\* Every step leaves renders where one can tell what came of them.
LEMMA TruthNext ==
    ASSUME TypeOK, Waiting, InHand, AnswerIsTrue, [Next]_vars
    PROVE  Waiting' /\ InHand' /\ AnswerIsTrue'
<1> USE DEF queueVars, deviceVars, tickVars, historyVars
<1>1. ASSUME UNCHANGED <<results, request, tickVars, sent, taken>>,
             queue' = queue \/ (queue # <<>> /\ queue' = Tail(queue))
      PROVE  Waiting' /\ InHand' /\ AnswerIsTrue'
  BY <1>1, Nowhere
<1>2. ASSUME NEW r \in Renders, Enqueue(r)
      PROVE  Waiting' /\ InHand' /\ AnswerIsTrue'
  <2>1. ASSUME NEW o \in Outcomes, WebPush(r, o)
        PROVE  Waiting' /\ InHand' /\ AnswerIsTrue'
    <3>1. /\ \A q \in Renders : request'[q] = "new" => request[q] = "new" /\ q # r
          /\ request[r] = "new" /\ UNCHANGED <<results, tickVars, historyVars>>
      BY <2>1 DEF TypeOK, WebPush
    <3>2. CASE Applied(o)
      BY <2>1, <3>1, <3>2, PushKeeps DEF WebPush, PushRender
    <3>3. CASE ~Applied(o)
      <4>1. queue' = queue
        BY <2>1, <3>3 DEF WebPush, PushRender
      <4> QED
        BY <3>1, <4>1, Nowhere
    <3> QED
      BY <3>2, <3>3
  <2>2. ASSUME NEW o \in Outcomes, WebMark(r, o)
        PROVE  Waiting' /\ InHand' /\ AnswerIsTrue'
    <3>1. /\ \A q \in Renders : request'[q] = "new" => request[q] = "new"
          /\ \A q \in Renders : results'[q] = results[q] \/ results'[q] = "pending"
          /\ UNCHANGED <<queue, tickVars, historyVars>>
      BY <2>2 DEF TypeOK, WebMark
    <3> QED
      BY <3>1, Nowhere
  <2>3. CASE WebTimeout(r)
    <3>1. /\ \A q \in Renders : request'[q] = "new" => request[q] = "new"
          /\ UNCHANGED <<queue, results, tickVars, historyVars>>
      BY <2>3 DEF TypeOK, WebTimeout
    <3> QED
      BY <3>1, Nowhere
  <2>4. CASE OtherPush(r)
    <3>1. /\ \A q \in Renders : request'[q] = "new" => request[q] = "new" /\ q # r
          /\ request[r] = "new" /\ UNCHANGED <<results, tickVars, historyVars>>
          /\ queue' = Append(queue, r)
      BY <2>4 DEF TypeOK, OtherPush, PushRender, Applied
    <3> QED
      BY <3>1, PushKeeps
  <2> QED
    BY <1>2, <2>1, <2>2, <2>3, <2>4 DEF Enqueue
<1>3. ASSUME NEW w \in Renderers, Tick(w) \/ Crash(w)
      PROVE  Waiting' /\ InHand' /\ AnswerIsTrue'
  <2>0. ASSUME UNCHANGED <<results, request, sent, taken>>,
               queue' = queue \/ (queue # <<>> /\ queue' = Tail(queue)),
               \A x \in Renderers \ {w} : /\ pc'[x] = pc[x] /\ held'[x] = held[x]
                                           /\ sendError'[x] = sendError[x] /\ link'[x] = link[x],
               \/ pc'[w] = "pop"
               \/ pc[w] \in {"measure", "trim"} /\ pc'[w] \in {"trim", "send"}
               \/ pc[w] = "send" /\ pc'[w] = "record" /\ sendError'[w] = TRUE,
               held'[w] = held[w] \/ (held'[w] = NoRender /\ pc'[w] = "pop")
        PROVE  Waiting' /\ InHand' /\ AnswerIsTrue'
    <3>1. \A x \in Renderers : pc'[x] # "pop" =>
            /\ pc[x] # "pop" /\ held'[x] = held[x]
            /\ \/ pc[x] # "record" /\ pc'[x] # "record"
               \/ pc[x] = pc'[x] /\ sendError'[x] = sendError[x] /\ link'[x] = link[x]
               \/ pc[x] # "record" /\ pc'[x] = "record" /\ sendError'[x] = TRUE
      BY <2>0
    <3>2. \A x \in Renderers : held'[x] = held[x] \/ held'[x] = NoRender
      BY <2>0
    <3> QED
      BY <2>0, <3>1, <3>2, Nowhere
  <2>1. CASE Connect(w)
    BY <2>0, <2>1 DEF TypeOK, Connect, Relink
  <2>2. CASE PopExpired(w)
    BY <1>1, <2>2 DEF PopExpired
  <2>3. ASSUME NEW o \in Outcomes, PopFails(w, o)
        PROVE  Waiting' /\ InHand' /\ AnswerIsTrue'
    BY <2>0, <2>3 DEF TypeOK, PopFails, Relink
  <2>4. ASSUME NEW o \in Outcomes, Measure(w, o)
        PROVE  Waiting' /\ InHand' /\ AnswerIsTrue'
    BY <2>0, <2>4 DEF TypeOK, Measure, Relink, To
  <2>5. ASSUME NEW o \in Outcomes, Trim(w, o)
        PROVE  Waiting' /\ InHand' /\ AnswerIsTrue'
    BY <2>0, <2>5 DEF TypeOK, Trim, Relink, To
  <2>6. CASE RasterizeFails(w)
    BY <2>0, <2>6 DEF TypeOK, RasterizeFails, To
  <2>7. CASE Forget(w) \/ Crash(w)
    BY <2>0, <2>7 DEF TypeOK, Forget, Crash, Relink, To
  <2> QED
    BY <1>3, <2>1, <2>2, <2>3, <2>4, <2>5, <2>6, <2>7, PopKeeps, SendKeeps, RecordKeeps DEF Tick
<1>4. ASSUME NEW d \in Devices, Show(d) \/ Miss(d)
      PROVE  Waiting' /\ InHand' /\ AnswerIsTrue'
  BY <1>1, <1>4 DEF Show, Miss
<1>5. CASE UNCHANGED vars
  BY <1>1, <1>5 DEF vars
<1> QED
  BY <1>2, <1>3, <1>4, <1>5 DEF Next

-----------------------------------------------------------------------------
(* Conclusions                                                             *)

LEMMA TruthInit == Init => Waiting /\ InHand /\ AnswerIsTrue
<1> SUFFICES ASSUME Init
             PROVE  Waiting /\ InHand /\ AnswerIsTrue
  OBVIOUS
<1>1. Entries(<<>>) = {}
  BY DEF Entries
<1>2. \A r \in Renders : Untouched(r)
  BY <1>1, RendersAssumption DEF Init, Untouched, Verdicts
<1>3. Waiting
  BY <1>1, <1>2 DEF Init, Waiting
<1>4. InHand
  BY DEF Init, InHand
<1>5. AnswerIsTrue
  BY DEF Init, AnswerIsTrue
<1> QED
  BY <1>3, <1>4, <1>5

\* Every reachable state has each render in one place, and what is known of
\* it there is right: pushed once (Worker::queue_render), popped by one
\* renderer, sent at most once in that tick (rendering/renderer.rs).
THEOREM Places == Spec => [](TypeOK /\ Waiting /\ InHand /\ AnswerIsTrue)
<1>1. Init => Waiting /\ InHand /\ AnswerIsTrue
  BY TruthInit
<1>2. TypeOK /\ Waiting /\ InHand /\ AnswerIsTrue /\ [Next]_vars =>
        (Waiting /\ InHand /\ AnswerIsTrue)'
  BY TruthNext
<1>3. Spec => []TypeOK
  BY TypeCorrect
<1> QED
  BY <1>1, <1>2, <1>3, PTL DEF Spec

\* An answer in the results hash tells the truth, whatever was cut: the
\* attempt's error is what a renderer records, and where the error itself may
\* be mistaken the connection is broken and nothing can be recorded.
THEOREM AnswersAreTrue == Spec => []AnswerIsTrue
  BY Places, PTL

-----------------------------------------------------------------------------
(* Order                                                                   *)

Mine(w, x) == x \in Entries(taken[w])

\* Renderer w did not pop y before x, nor are they the same.
Older(w, x, y) ==
    \A a, b \in DOMAIN taken[w] : x = taken[w][a] /\ y = taken[w][b] => a < b

\* No render is popped twice, and the one in hand was popped last.
Lineage ==
    /\ \A w \in Renderers : \A a, b \in DOMAIN taken[w] : taken[w][a] = taken[w][b] => a = b
    /\ \A v, w \in Renderers : \A x \in Renders : Mine(v, x) /\ Mine(w, x) => v = w
    /\ \A w \in Renderers : pc[w] # "pop" =>
         /\ Len(taken[w]) > 0
         /\ held[w] = taken[w][Len(taken[w])]

\* A device only has what was sent.
Placed == \A d \in Devices : Entries(messages[d]) \cup Entries(shown[d]) \subseteq sent

\* At most one render of each renderer waits in a device's list, ...
OneEach ==
    \A d \in Devices : \A i, k \in DOMAIN messages[d] : \A w \in Renderers :
        Mine(w, messages[d][i]) /\ Mine(w, messages[d][k]) => i = k

\* ... for a renderer that can push again has made sure that none is there.
NoneLeft ==
    \A w \in Renderers : pc[w] = "send" /\ link[w] = "up" =>
        \A x \in Entries(messages[Target[held[w]]]) : ~Mine(w, x)

NewerWaits ==
    \A d \in Devices : \A x \in Entries(shown[d]) : \A y \in Entries(messages[d]) :
        \A w \in Renderers : Older(w, x, y)

Order == Lineage /\ Placed /\ OneEach /\ NoneLeft /\ NewerWaits

\* The first, the rest, and what comes before the first of a list.
LEMMA Fronts ==
    ASSUME NEW s \in Seq(Renders)
    PROVE  /\ s # <<>> =>
                /\ Head(s) = s[1] /\ 1 \in DOMAIN s
                /\ DOMAIN Tail(s) = 1..(Len(s) - 1)
                /\ \A k \in DOMAIN Tail(s) : Tail(s)[k] = s[k + 1] /\ k + 1 \in DOMAIN s
           /\ \A r \in Renders :
                /\ DOMAIN (<<r>> \o s) = 1..(Len(s) + 1)
                /\ (<<r>> \o s)[1] = r
                /\ \A k \in DOMAIN (<<r>> \o s) :
                     k = 1 \/ (k - 1 \in DOMAIN s /\ (<<r>> \o s)[k] = s[k - 1])
                /\ Entries(<<r>> \o s) = {r} \cup Entries(s)
           /\ DOMAIN s = 1..Len(s) /\ Len(s) \in Nat
<1>1. /\ Len(s) \in Nat /\ DOMAIN s = 1..Len(s)
      /\ s # <<>> =>
           /\ Head(s) = s[1] /\ 1 \in DOMAIN s
           /\ DOMAIN Tail(s) = 1..(Len(s) - 1)
           /\ \A k \in DOMAIN Tail(s) : Tail(s)[k] = s[k + 1] /\ k + 1 \in DOMAIN s
  OBVIOUS
<1>2. ASSUME NEW r \in Renders
      PROVE  /\ DOMAIN (<<r>> \o s) = 1..(Len(s) + 1)
             /\ (<<r>> \o s)[1] = r
             /\ \A k \in DOMAIN (<<r>> \o s) :
                  k = 1 \/ (k - 1 \in DOMAIN s /\ (<<r>> \o s)[k] = s[k - 1])
             /\ Entries(<<r>> \o s) = {r} \cup Entries(s)
  <2> DEFINE t == <<r>> \o s
  <2>1. /\ DOMAIN t = 1..(Len(s) + 1) /\ t[1] = r
        /\ \A k \in DOMAIN s : k + 1 \in DOMAIN t /\ t[k + 1] = s[k]
    BY <1>1
  <2>2. \A k \in DOMAIN t : k = 1 \/ (k - 1 \in DOMAIN s /\ t[k] = s[k - 1])
    BY <1>1
  <2> HIDE DEF t
  <2>3. Entries(t) \subseteq {r} \cup Entries(s)
    BY <2>1, <2>2 DEF Entries
  <2>4. \A k \in DOMAIN s : s[k] \in Entries(t)
    BY <2>1 DEF Entries
  <2>5. r \in Entries(t)
    BY <1>1, <2>1 DEF Entries
  <2>6. {r} \cup Entries(s) \subseteq Entries(t)
    BY <2>4, <2>5 DEF Entries
  <2> QED
    BY <2>1, <2>2, <2>3, <2>6 DEF t
<1> QED
  BY <1>1, <1>2

\* Steps that pop, push and show nothing; a list may be emptied.
LEMMA QuietOrder ==
    ASSUME TypeOK, Order, NeverBackwards,
           UNCHANGED <<taken, sent, shown>>,
           \A d \in Devices : messages'[d] = messages[d] \/ messages'[d] = <<>>,
           \A w \in Renderers : pc'[w] # "pop" => pc[w] # "pop" /\ held'[w] = held[w],
           \A w \in Renderers : pc'[w] = "send" /\ link'[w] = "up" =>
               \/ pc[w] = "send" /\ link[w] = "up"
               \/ messages'[Target[held[w]]] = <<>>
    PROVE  Order' /\ NeverBackwards'
<1>1. Lineage'
  BY DEF Order, Lineage, Mine, Entries
<1>2. ASSUME NEW d \in Devices
      PROVE  Entries(messages'[d]) \subseteq Entries(messages[d])
  BY DEF Entries
<1>3. Placed'
  <2>1. ASSUME NEW d \in Devices
        PROVE  Entries(messages'[d]) \cup Entries(shown'[d]) \subseteq sent'
    BY <1>2 DEF Order, Placed
  <2> QED
    BY <2>1 DEF Placed, Entries
<1>4. OneEach'
  <2>1. ASSUME NEW d \in Devices
        PROVE  \A i, k \in DOMAIN messages'[d] : \A w \in Renderers :
                 Mine(w, messages'[d][i]) /\ Mine(w, messages'[d][k]) => i = k
    BY DEF Order, OneEach
  <2> QED
    BY <2>1 DEF OneEach, Mine, Entries
<1>5. NoneLeft'
  <2>1. ASSUME NEW w \in Renderers, pc'[w] = "send", link'[w] = "up"
        PROVE  \A x \in Entries(messages'[Target[held'[w]]]) : ~Mine(w, x)
    <3>1. held'[w] = held[w] /\ Target[held[w]] \in Devices
      BY <2>1, RendersAssumption DEF TypeOK
    <3>2. CASE pc[w] = "send" /\ link[w] = "up"
      BY <1>2, <3>1, <3>2 DEF Order, NoneLeft
    <3>3. CASE messages'[Target[held[w]]] = <<>>
      BY <3>1, <3>3 DEF Entries
    <3> QED
      BY <2>1, <3>2, <3>3
  <2> QED
    BY <2>1 DEF NoneLeft, Mine, Entries
<1>6. NewerWaits'
  <2>1. ASSUME NEW d \in Devices
        PROVE  \A x \in Entries(shown[d]) : \A y \in Entries(messages'[d]) :
                 \A w \in Renderers : Older(w, x, y)
    BY <1>2 DEF Order, NewerWaits
  <2>2. \A w \in Renderers : \A x, y : Older(w, x, y)' <=> Older(w, x, y)
    BY DEF Older
  <2>3. \A d \in Devices : /\ Entries(shown[d])' = Entries(shown[d])
                            /\ Entries(messages[d])' = Entries(messages'[d])
    BY DEF Entries
  <2> QED
    BY <2>1, <2>2, <2>3 DEF NewerWaits
<1>7. NeverBackwards'
  BY DEF NeverBackwards
<1> QED
  BY <1>1, <1>3, <1>4, <1>5, <1>6, <1>7 DEF Order

\* Who pops takes what nobody has taken, sent or shown before.
LEMMA PopOrder ==
    ASSUME TypeOK, Waiting, Order, NeverBackwards, NEW w \in Renderers, Pop(w)
    PROVE  Order' /\ NeverBackwards'
<1> PICK r : r = Head(queue)
  OBVIOUS
<1> DEFINE n == Len(taken[w])
<1>1. /\ queue # <<>> /\ UNCHANGED <<messages, shown, sent, link>>
      /\ held' = [held EXCEPT ![w] = r] /\ taken' = [taken EXCEPT ![w] = Append(@, r)]
      /\ pc' = [pc EXCEPT ![w] = "measure"]
  BY DEF Pop, To, deviceVars
<1>2. r \in Renders /\ Untouched(r)
  BY <1>1, Lists DEF TypeOK, Waiting
<1>3. r \notin sent /\ \A v \in Renderers : ~Mine(v, r)
  BY <1>2 DEF Untouched, Mine
<1>4. /\ taken'[w] = Append(taken[w], r)
      /\ \A v \in Renderers \ {w} : taken'[v] = taken[v] /\ pc'[v] = pc[v] /\ held'[v] = held[v]
      /\ pc'[w] = "measure" /\ held'[w] = r
  BY <1>1 DEF TypeOK
<1>5. taken[w] \in Seq(Renders)
  BY DEF TypeOK
<1>6. /\ n \in Nat /\ DOMAIN taken[w] = 1..n
      /\ DOMAIN taken'[w] = 1..(n + 1)
      /\ \A k \in 1..n : taken'[w][k] = taken[w][k]
      /\ taken'[w][n + 1] = r /\ Len(taken'[w]) = n + 1
  BY <1>4, <1>5
<1>7. \A k \in 1..n : taken[w][k] # r
  BY <1>3, <1>6 DEF Mine, Entries
<1>8. \A v \in Renderers : \A x : x # r => (Mine(v, x)' <=> Mine(v, x))
  <2>1. ASSUME NEW x, x # r
        PROVE  Mine(w, x)' <=> Mine(w, x)
    <3>1. Entries(taken'[w]) = Entries(taken[w]) \cup {r}
      BY <1>2, <1>4, <1>5, Lists
    <3> QED
      BY <2>1, <3>1 DEF Mine, Entries
  <2>2. \A v \in Renderers \ {w} : \A x : Mine(v, x)' <=> Mine(v, x)
    BY <1>4 DEF Mine, Entries
  <2> QED
    BY <2>1, <2>2
<1>9. \A v \in Renderers \ {w} : ~Mine(v, r)'
  BY <1>3, <1>4 DEF Mine, Entries
<1>10. \A v \in Renderers : \A x, y : x # r /\ y # r => (Older(v, x, y)' <=> Older(v, x, y))
  <2>1. ASSUME NEW x, NEW y, x # r, y # r
        PROVE  Older(w, x, y)' <=> Older(w, x, y)
    <3>1. \A a \in DOMAIN taken'[w] : taken'[w][a] # r =>
            a \in DOMAIN taken[w] /\ taken'[w][a] = taken[w][a]
      BY <1>6
    <3>2. \A a \in DOMAIN taken[w] : a \in DOMAIN taken'[w] /\ taken'[w][a] = taken[w][a]
      BY <1>6
    <3> QED
      BY <2>1, <3>1, <3>2 DEF Older
  <2>2. \A v \in Renderers \ {w} : \A x, y : Older(v, x, y)' <=> Older(v, x, y)
    BY <1>4 DEF Older
  <2> QED
    BY <2>1, <2>2
<1>11. \A d \in Devices : r \notin Entries(messages[d]) /\ r \notin Entries(shown[d])
  BY <1>3 DEF Order, Placed
<1>12. Lineage'
  <2>1. \A v \in Renderers : \A a, b \in DOMAIN taken'[v] : taken'[v][a] = taken'[v][b] => a = b
    <3>1. \A a, b \in DOMAIN taken[w] : taken[w][a] = taken[w][b] => a = b
      BY DEF Order, Lineage
    <3>3. \A a, b \in DOMAIN taken'[w] : taken'[w][a] = taken'[w][b] => a = b
      <4>1. ASSUME NEW a \in DOMAIN taken'[w], NEW b \in DOMAIN taken'[w],
                   taken'[w][a] = taken'[w][b]
            PROVE  a = b
        <5>1. CASE a = n + 1 \/ b = n + 1
          BY <1>6, <1>7, <4>1, <5>1
        <5>2. CASE a \in 1..n /\ b \in 1..n
          BY <1>6, <3>1, <4>1, <5>2
        <5> QED
          BY <1>6, <4>1, <5>1, <5>2
      <4> QED
        BY <4>1
    <3>2. ASSUME NEW v \in Renderers \ {w}
          PROVE  \A a, b \in DOMAIN taken'[v] : taken'[v][a] = taken'[v][b] => a = b
      BY <1>4 DEF Order, Lineage
    <3> QED
      BY <3>2, <3>3
  <2>2. ASSUME NEW u \in Renderers, NEW v \in Renderers, NEW x \in Renders,
               Mine(u, x)', Mine(v, x)'
        PROVE  u = v
    <3>1. CASE x = r
      BY <1>9, <2>2, <3>1
    <3>2. CASE x # r
      BY <1>8, <2>2, <3>2 DEF Order, Lineage
    <3> QED
      BY <3>1, <3>2
  <2>3. ASSUME NEW v \in Renderers, pc'[v] # "pop"
        PROVE  Len(taken'[v]) > 0 /\ held'[v] = taken'[v][Len(taken'[v])]
    <3>1. CASE v = w
      BY <1>4, <1>6, <3>1
    <3>2. CASE v # w
      BY <1>4, <2>3, <3>2 DEF Order, Lineage
    <3> QED
      BY <3>1, <3>2
  <2> QED
    BY <2>1, <2>2, <2>3 DEF Lineage
<1>13. Placed'
  BY <1>1 DEF Order, Placed, Entries
<1>14. OneEach'
  <2>1. ASSUME NEW d \in Devices, NEW k \in DOMAIN messages[d], NEW v \in Renderers
        PROVE  Mine(v, messages[d][k])' <=> Mine(v, messages[d][k])
    <3>1. messages'[d] = messages[d] /\ messages[d][k] # r
      BY <1>1, <1>11 DEF Entries
    <3> QED
      BY <1>8, <3>1
  <2>2. messages' = messages
    BY <1>1
  <2> QED
    BY <2>1, <2>2 DEF Order, OneEach
<1>15. NoneLeft'
  <2>1. ASSUME NEW v \in Renderers, pc'[v] = "send", link'[v] = "up",
               NEW x \in Entries(messages[Target[held[v]]])
        PROVE  ~Mine(v, x)'
    <3>1. v # w /\ pc[v] = "send" /\ link[v] = "up"
      BY <1>1, <1>4, <2>1
    <3>2. Target[held[v]] \in Devices
      BY <3>1, RendersAssumption DEF TypeOK
    <3>3. x # r /\ ~Mine(v, x)
      BY <1>11, <2>1, <3>1, <3>2 DEF Order, NoneLeft
    <3> QED
      BY <1>8, <3>3
  <2>2. \A v \in Renderers : pc'[v] = "send" =>
          Entries(messages[Target[held[v]]])' = Entries(messages[Target[held[v]]])
    BY <1>1, <1>4 DEF Entries
  <2> QED
    BY <2>1, <2>2 DEF NoneLeft
<1>16. NewerWaits'
  <2>1. \A d \in Devices : /\ Entries(shown[d])' = Entries(shown[d])
                            /\ Entries(messages[d])' = Entries(messages[d])
    BY <1>1 DEF Entries
  <2> QED
    BY <1>10, <1>11, <2>1 DEF Order, NewerWaits
<1>17. NeverBackwards'
  <2>1. ASSUME NEW d \in Devices, NEW i \in DOMAIN shown[d], NEW k \in DOMAIN shown[d], i < k,
               NEW v \in Renderers
        PROVE  Older(v, shown[d][i], shown[d][k])'
    <3>1. Older(v, shown[d][i], shown[d][k])
      BY <2>1 DEF NeverBackwards, Older
    <3>2. shown'[d] = shown[d] /\ shown[d][i] # r /\ shown[d][k] # r
      BY <1>1, <1>11 DEF Entries
    <3>3. \A x, y : x # r /\ y # r => (Older(v, x, y)' <=> Older(v, x, y))
      BY <1>10
    <3>4. Older(v, shown[d][i], shown[d][k])' <=>
            \A a, b \in DOMAIN taken'[v] :
              shown[d][i] = taken'[v][a] /\ shown[d][k] = taken'[v][b] => a < b
      BY <3>2 DEF Older
    <3> QED
      BY <3>1, <3>2, <3>3, <3>4
  <2>2. shown' = shown
    BY <1>1
  <2> QED
    BY <2>1, <2>2 DEF NeverBackwards, Older
<1> QED
  BY <1>12, <1>13, <1>14, <1>15, <1>16, <1>17 DEF Order

\* Who pushes has none of its own there, and pushes what it popped last.
LEMMA PushOrder ==
    ASSUME TypeOK, InHand, Order, NeverBackwards,
           NEW w \in Renderers, NEW r \in Renders, r = held[w],
           pc[w] = "send", link[w] = "up",
           messages' = [messages EXCEPT ![Target[r]] = <<r>> \o @],
           sent' = sent \cup {r},
           UNCHANGED <<taken, shown, held>>,
           pc'[w] # "send",
           \A v \in Renderers : pc'[v] # "pop" => pc[v] # "pop",
           \A v \in Renderers \ {w} : pc'[v] = pc[v] /\ link'[v] = link[v]
    PROVE  Order' /\ NeverBackwards'
<1> DEFINE e == Target[r]
           n == Len(taken[w])
<1>1. e \in Devices
  BY RendersAssumption
<1>2. r \notin sent
  BY DEF InHand
<1>3. /\ n \in Nat /\ n > 0 /\ DOMAIN taken[w] = 1..n /\ taken[w][n] = r
      /\ \A a, b \in DOMAIN taken[w] : taken[w][a] = taken[w][b] => a = b
  <2>1. taken[w] \in Seq(Renders)
    BY DEF TypeOK
  <2> QED
    BY <2>1 DEF Order, Lineage
<1>4. \A v \in Renderers : Mine(v, r) <=> v = w
  <2>1. Mine(w, r)
    BY <1>3 DEF Mine, Entries
  <2> QED
    BY <2>1 DEF Order, Lineage
<1>5. \A x \in Entries(messages[e]) : ~Mine(w, x)
  BY DEF Order, NoneLeft
<1>6. /\ messages'[e] = <<r>> \o messages[e]
      /\ \A d \in Devices \ {e} : messages'[d] = messages[d]
  BY <1>1 DEF TypeOK
<1>7. /\ Entries(messages'[e]) = {r} \cup Entries(messages[e])
      /\ DOMAIN messages'[e] = 1..(Len(messages[e]) + 1) /\ messages'[e][1] = r
      /\ \A k \in DOMAIN messages'[e] :
           k = 1 \/ (k - 1 \in DOMAIN messages[e] /\ messages'[e][k] = messages[e][k - 1])
      /\ Len(messages[e]) \in Nat
  <2>1. messages[e] \in Seq(Renders)
    BY <1>1 DEF TypeOK
  <2> QED
    BY <1>6, <2>1, Fronts
<1>8. \A v \in Renderers : \A x, y : Older(v, x, y)' <=> Older(v, x, y)
  BY DEF Older
<1>9. \A d \in Devices : /\ Entries(messages[d])' = Entries(messages'[d])
                          /\ Entries(shown[d])' = Entries(shown[d])
  BY DEF Entries
<1>10. Lineage'
  BY DEF Order, Lineage, Mine, Entries
<1>11. Placed'
  <2>1. \A d \in Devices : Entries(messages[d]) \cup Entries(shown[d]) \subseteq sent
    BY DEF Order, Placed
  <2>2. ASSUME NEW d \in Devices
        PROVE  Entries(messages'[d]) \cup Entries(shown[d]) \subseteq sent'
    BY <1>6, <1>7, <2>1
  <2> QED
    BY <1>9, <2>2 DEF Placed
<1>12. OneEach'
  <2>1. ASSUME NEW i \in DOMAIN messages'[e], NEW k \in DOMAIN messages'[e], NEW v \in Renderers,
               Mine(v, messages'[e][i]), Mine(v, messages'[e][k])
        PROVE  i = k
    <3>0. \A j \in DOMAIN messages[e] : messages[e][j] \in Entries(messages[e])
      BY DEF Entries
    <3>1. CASE i = 1 \/ k = 1
      <4>1. v = w
        BY <1>4, <1>7, <2>1, <3>1
      <4> QED
        BY <1>5, <1>7, <2>1, <3>0, <3>1, <4>1
    <3>2. CASE i # 1 /\ k # 1
      <4>1. /\ i - 1 \in DOMAIN messages[e] /\ messages'[e][i] = messages[e][i - 1]
            /\ k - 1 \in DOMAIN messages[e] /\ messages'[e][k] = messages[e][k - 1]
        BY <1>7, <3>2
      <4>2. i - 1 = k - 1
        BY <1>1, <2>1, <4>1 DEF Order, OneEach
      <4> QED
        BY <1>7, <4>2
    <3> QED
      BY <3>1, <3>2
  <2>2. ASSUME NEW d \in Devices \ {e}
        PROVE  \A i, k \in DOMAIN messages'[d] : \A v \in Renderers :
                 Mine(v, messages'[d][i]) /\ Mine(v, messages'[d][k]) => i = k
    BY <1>6 DEF Order, OneEach
  <2> SUFFICES ASSUME NEW d \in Devices, NEW i \in DOMAIN messages'[d],
                      NEW k \in DOMAIN messages'[d], NEW v \in Renderers,
                      Mine(v, messages[d][i])', Mine(v, messages[d][k])'
               PROVE  i = k
    BY ZenonT(60) DEF OneEach
  <2>3. Mine(v, messages'[d][i]) /\ Mine(v, messages'[d][k])
    BY DEF Mine, Entries
  <2>4. CASE d = e
    BY <2>1, <2>3, <2>4
  <2>5. CASE d # e
    BY <2>2, <2>3, <2>5
  <2> QED
    BY <2>4, <2>5
<1>13. NoneLeft'
  <2>1. ASSUME NEW v \in Renderers, pc'[v] = "send", link'[v] = "up"
        PROVE  \A x \in Entries(messages'[Target[held[v]]]) : ~Mine(v, x)
    <3>1. v # w /\ pc[v] = "send" /\ link[v] = "up"
      BY <2>1
    <3>2. Target[held[v]] \in Devices
      BY <3>1, RendersAssumption DEF TypeOK
    <3>3. \A x \in Entries(messages[Target[held[v]]]) : ~Mine(v, x)
      BY <3>1 DEF Order, NoneLeft
    <3>4. ~Mine(v, r)
      BY <1>4, <3>1
    <3>5. Entries(messages'[Target[held[v]]]) \subseteq {r} \cup Entries(messages[Target[held[v]]])
      BY <1>6, <1>7, <3>2
    <3> QED
      BY <3>3, <3>4, <3>5
  <2>2. \A v \in Renderers : pc'[v] = "send" =>
          Entries(messages[Target[held[v]]])' = Entries(messages'[Target[held[v]]])
    BY DEF Entries
  <2>3. \A v \in Renderers : \A x : Mine(v, x)' <=> Mine(v, x)
    BY DEF Mine, Entries
  <2> QED
    BY <2>1, <2>2, <2>3 DEF NoneLeft
<1>14. NewerWaits'
  <2>1. ASSUME NEW x \in Entries(shown[e]), NEW v \in Renderers
        PROVE  Older(v, x, r)
    <3>1. x # r
      BY <1>1, <1>2 DEF Order, Placed
    <3>2. CASE v = w
      <4>1. \A b \in DOMAIN taken[w] : r = taken[w][b] => b = n
        BY <1>3
      <4>2. \A a \in DOMAIN taken[w] : x = taken[w][a] => a < n
        BY <1>3, <3>1
      <4> QED
        BY <3>2, <4>1, <4>2 DEF Older
    <3>3. CASE v # w
      BY <1>4, <3>3 DEF Older, Mine, Entries
    <3> QED
      BY <3>2, <3>3
  <2>2. ASSUME NEW d \in Devices, NEW x \in Entries(shown[d]), NEW y \in Entries(messages'[d]),
               NEW v \in Renderers
        PROVE  Older(v, x, y)
    <3>1. CASE y \in Entries(messages[d])
      BY <3>1 DEF Order, NewerWaits
    <3>2. CASE y \notin Entries(messages[d])
      <4>1. d = e /\ y = r
        BY <1>6, <1>7, <2>2, <3>2
      <4> QED
        BY <2>1, <4>1
    <3> QED
      BY <3>1, <3>2
  <2> QED
    BY <1>8, <1>9, <2>2 DEF NewerWaits
<1>15. NeverBackwards'
  BY DEF NeverBackwards
<1> QED
  BY <1>10, <1>11, <1>12, <1>13, <1>14, <1>15 DEF Order

\* What a device takes off its list is newer than all it has shown.
LEMMA TakeOrder ==
    ASSUME TypeOK, Order, NeverBackwards,
           NEW e \in Devices, NEW r \in Renders,
           messages[e] # <<>>, r = Head(messages[e]),
           messages' = [messages EXCEPT ![e] = Tail(@)],
           shown' = shown \/ shown' = [shown EXCEPT ![e] = Append(@, r)],
           UNCHANGED <<taken, sent, pc, held, link>>
    PROVE  Order' /\ NeverBackwards'
<1> DEFINE n == Len(shown[e])
<1>1. /\ messages'[e] = Tail(messages[e])
      /\ \A d \in Devices \ {e} : messages'[d] = messages[d]
      /\ \A d \in Devices \ {e} : shown'[d] = shown[d]
      /\ shown'[e] = shown[e] \/ shown'[e] = Append(shown[e], r)
  BY DEF TypeOK
<1>2. /\ messages[e] \in Seq(Renders) /\ shown[e] \in Seq(Renders)
      /\ n \in Nat /\ DOMAIN shown[e] = 1..n
  BY DEF TypeOK
<1>3. /\ r = messages[e][1] /\ 1 \in DOMAIN messages[e]
      /\ DOMAIN messages[e] = 1..Len(messages[e])
      /\ \A k \in DOMAIN messages'[e] :
           messages'[e][k] = messages[e][k + 1] /\ k + 1 \in DOMAIN messages[e]
      /\ DOMAIN messages'[e] = 1..(Len(messages[e]) - 1) /\ Len(messages[e]) \in Nat
  <2> DEFINE s == messages[e]
  <2>1. s \in Seq(Renders) /\ s # <<>> /\ r = Head(s)
    BY <1>2
  <2> HIDE DEF s
  <2>2. /\ r = s[1] /\ 1 \in DOMAIN s /\ DOMAIN s = 1..Len(s) /\ Len(s) \in Nat
        /\ DOMAIN Tail(s) = 1..(Len(s) - 1)
        /\ \A k \in DOMAIN Tail(s) : Tail(s)[k] = s[k + 1] /\ k + 1 \in DOMAIN s
    BY <2>1, Fronts
  <2> QED
    BY <1>1, <2>2 DEF s
<1>4. /\ r \in Entries(messages[e])
      /\ \A d \in Devices : Entries(messages'[d]) \subseteq Entries(messages[d])
  BY <1>1, <1>2, Lists
<1>5. \A d \in Devices : Entries(shown'[d]) \subseteq Entries(shown[d]) \cup (IF d = e THEN {r} ELSE {})
  <2>1. Entries(Append(shown[e], r)) = Entries(shown[e]) \cup {r}
    BY <1>2, Lists
  <2> QED
    BY <1>1, <2>1
<1>6. \A v \in Renderers : \A x, y : Older(v, x, y)' <=> Older(v, x, y)
  BY DEF Older
<1>7. \A v \in Renderers : \A x : Mine(v, x)' <=> Mine(v, x)
  BY DEF Mine, Entries
<1>8. \A d \in Devices : /\ Entries(messages[d])' = Entries(messages'[d])
                          /\ Entries(shown[d])' = Entries(shown'[d])
  BY DEF Entries
<1>9. Lineage'
  BY DEF Order, Lineage, Mine, Entries
<1>10. Placed'
  <2>1. \A d \in Devices : Entries(messages[d]) \cup Entries(shown[d]) \subseteq sent
    BY DEF Order, Placed
  <2>2. ASSUME NEW d \in Devices
        PROVE  Entries(messages'[d]) \cup Entries(shown'[d]) \subseteq sent'
    BY <1>4, <1>5, <2>1
  <2> QED
    BY <1>8, <2>2 DEF Placed
<1>11. OneEach'
  <2>1. ASSUME NEW i \in DOMAIN messages'[e], NEW k \in DOMAIN messages'[e], NEW v \in Renderers,
               Mine(v, messages'[e][i]), Mine(v, messages'[e][k])
        PROVE  i = k
    <3>1. i + 1 = k + 1
      BY <1>3, <2>1 DEF Order, OneEach
    <3> QED
      BY <1>3, <3>1
  <2>2. ASSUME NEW d \in Devices \ {e}
        PROVE  \A i, k \in DOMAIN messages'[d] : \A v \in Renderers :
                 Mine(v, messages'[d][i]) /\ Mine(v, messages'[d][k]) => i = k
    BY <1>1 DEF Order, OneEach
  <2> SUFFICES ASSUME NEW d \in Devices, NEW i \in DOMAIN messages'[d],
                      NEW k \in DOMAIN messages'[d], NEW v \in Renderers,
                      Mine(v, messages[d][i])', Mine(v, messages[d][k])'
               PROVE  i = k
    BY ZenonT(60) DEF OneEach
  <2>3. Mine(v, messages'[d][i]) /\ Mine(v, messages'[d][k])
    BY DEF Mine, Entries
  <2>4. CASE d = e
    BY <2>1, <2>3, <2>4
  <2>5. CASE d # e
    BY <2>2, <2>3, <2>5
  <2> QED
    BY <2>4, <2>5
<1>12. NoneLeft'
  <2>1. ASSUME NEW v \in Renderers, pc[v] = "send", link[v] = "up"
        PROVE  \A x \in Entries(messages'[Target[held[v]]]) : ~Mine(v, x)
    <3>1. Target[held[v]] \in Devices
      BY <2>1, RendersAssumption DEF TypeOK
    <3> QED
      BY <1>4, <2>1, <3>1 DEF Order, NoneLeft
  <2>2. \A v \in Renderers :
          Entries(messages[Target[held[v]]])' = Entries(messages'[Target[held[v]]])
    BY DEF Entries
  <2> QED
    BY <1>7, <2>1, <2>2 DEF NoneLeft
<1>13. NewerWaits'
  <2>1. ASSUME NEW y \in Entries(messages'[e]), NEW v \in Renderers
        PROVE  Older(v, r, y)
    <3>1. PICK k \in DOMAIN messages'[e] : y = messages'[e][k]
      BY <2>1 DEF Entries
    <3>2. k + 1 \in DOMAIN messages[e] /\ y = messages[e][k + 1] /\ k + 1 # 1
      BY <1>3, <3>1
    <3>3. ~(Mine(v, r) /\ Mine(v, y))
      BY <1>3, <3>2 DEF Order, OneEach
    <3> QED
      BY <3>3 DEF Older, Mine, Entries
  <2>2. ASSUME NEW d \in Devices, NEW x \in Entries(shown'[d]), NEW y \in Entries(messages'[d]),
               NEW v \in Renderers
        PROVE  Older(v, x, y)
    <3>1. CASE x \in Entries(shown[d])
      BY <1>4, <2>2, <3>1 DEF Order, NewerWaits
    <3>2. CASE x \notin Entries(shown[d])
      BY <1>5, <2>1, <2>2, <3>2
    <3> QED
      BY <3>1, <3>2
  <2> QED
    BY <1>6, <1>8, <2>2 DEF NewerWaits
<1>14. NeverBackwards'
  <2>1. ASSUME NEW d \in Devices, NEW i \in DOMAIN shown'[d], NEW k \in DOMAIN shown'[d], i < k,
               NEW v \in Renderers
        PROVE  Older(v, shown'[d][i], shown'[d][k])
    <3>1. CASE shown'[d] = shown[d]
      BY <2>1, <3>1 DEF NeverBackwards, Older
    <3>2. CASE shown'[d] # shown[d]
      <4>1. d = e /\ shown'[e] = Append(shown[e], r)
        BY <1>1, <3>2
      <4>2. /\ DOMAIN shown'[e] = 1..(n + 1) /\ shown'[e][n + 1] = r
            /\ \A j \in 1..n : shown'[e][j] = shown[e][j]
        BY <1>2, <4>1
      <4>3. i \in 1..n /\ (k \in 1..n \/ k = n + 1)
        BY <1>2, <2>1, <4>1, <4>2
      <4>4. CASE k \in 1..n
        <5>1. /\ i \in DOMAIN shown[d] /\ k \in DOMAIN shown[d]
              /\ shown'[d][i] = shown[d][i] /\ shown'[d][k] = shown[d][k]
          BY <1>2, <4>1, <4>2, <4>3, <4>4
        <5>2. Older(v, shown[d][i], shown[d][k])
          BY <2>1, <5>1 DEF NeverBackwards, Older
        <5> QED
          BY <5>1, <5>2
      <4>5. CASE k = n + 1
        <5>1. shown[e][i] \in Entries(shown[e])
          BY <1>2, <4>3 DEF Entries
        <5>2. Older(v, shown[e][i], r)
          BY <1>4, <5>1 DEF Order, NewerWaits
        <5> QED
          BY <4>1, <4>2, <4>3, <4>5, <5>2
      <4> QED
        BY <4>3, <4>4, <4>5
    <3> QED
      BY <3>1, <3>2
  <2>2. \A d \in Devices : \A i, k \in DOMAIN shown'[d] : i < k =>
          \A v \in Renderers : Older(v, shown'[d][i], shown'[d][k])
    BY <2>1
  <2> QED
    BY <2>2 DEF NeverBackwards, Older
<1> QED
  BY <1>9, <1>10, <1>11, <1>12, <1>13, <1>14 DEF Order

\* Every step keeps the order.
LEMMA OrderNext ==
    ASSUME TypeOK, Waiting, InHand, Order, NeverBackwards, [Next]_vars
    PROVE  Order' /\ NeverBackwards'
<1> USE DEF queueVars, deviceVars, tickVars, historyVars
<1>1. ASSUME UNCHANGED <<messages, shown, taken, sent, pc, held, link>>
      PROVE  Order' /\ NeverBackwards'
  BY <1>1, QuietOrder
<1>2. ASSUME NEW r \in Renders, Enqueue(r)
      PROVE  Order' /\ NeverBackwards'
  <2>1. ASSUME NEW o \in Outcomes, WebPush(r, o) \/ WebMark(r, o)
        PROVE  Order' /\ NeverBackwards'
    BY <1>1, <2>1 DEF WebPush, WebMark
  <2>2. CASE WebTimeout(r)
    BY <1>1, <2>2 DEF WebTimeout
  <2>3. CASE OtherPush(r)
    BY <1>1, <2>3 DEF OtherPush
  <2> QED
    BY <1>2, <2>1, <2>2, <2>3 DEF Enqueue
<1>3. ASSUME NEW w \in Renderers, Tick(w) \/ Crash(w)
      PROVE  Order' /\ NeverBackwards'
  <2>0. ASSUME UNCHANGED <<taken, sent, shown>>,
               \A d \in Devices : messages'[d] = messages[d] \/ messages'[d] = <<>>,
               \A x \in Renderers \ {w} : pc'[x] = pc[x] /\ held'[x] = held[x] /\ link'[x] = link[x],
               \/ pc'[w] = "pop"
               \/ pc[w] # "pop" /\ held'[w] = held[w],
               \/ ~(pc'[w] = "send" /\ link'[w] = "up")
               \/ pc[w] = "send" /\ link[w] = "up"
               \/ messages'[Target[held[w]]] = <<>>
        PROVE  Order' /\ NeverBackwards'
    <3>1. \A x \in Renderers : pc'[x] # "pop" => pc[x] # "pop" /\ held'[x] = held[x]
      BY <2>0
    <3>2. \A x \in Renderers : pc'[x] = "send" /\ link'[x] = "up" =>
            \/ pc[x] = "send" /\ link[x] = "up"
            \/ messages'[Target[held[x]]] = <<>>
      BY <2>0
    <3> QED
      BY <2>0, <3>1, <3>2, QuietOrder
  <2>1. CASE Connect(w)
    BY <2>0, <2>1 DEF TypeOK, Connect, Relink
  <2>2. CASE PopExpired(w)
    BY <1>1, <2>2 DEF PopExpired
  <2>3. ASSUME NEW o \in Outcomes, PopFails(w, o)
        PROVE  Order' /\ NeverBackwards'
    BY <2>0, <2>3 DEF TypeOK, PopFails, Relink
  <2>4. ASSUME NEW o \in Outcomes, Measure(w, o)
        PROVE  Order' /\ NeverBackwards'
    <3>1. /\ UNCHANGED <<taken, sent, shown, messages, held>> /\ pc[w] = "measure"
          /\ \A x \in Renderers \ {w} : pc'[x] = pc[x] /\ link'[x] = link[x]
          /\ link'[w] = LinkAfter(o)
          /\ pc'[w] = IF o = "ok" /\ messages[Target[held[w]]] # <<>> THEN "trim" ELSE "send"
      BY <2>4 DEF TypeOK, Measure, Relink, To
    <3>2. (pc'[w] = "send" /\ link'[w] = "up") => messages'[Target[held[w]]] = <<>>
      BY <3>1 DEF LinkAfter
    <3> QED
      BY <2>0, <3>1, <3>2
  <2>5. ASSUME NEW o \in Outcomes, Trim(w, o)
        PROVE  Order' /\ NeverBackwards'
    <3>1. /\ UNCHANGED <<taken, sent, shown, held>> /\ pc[w] = "trim"
          /\ \A x \in Renderers \ {w} : pc'[x] = pc[x] /\ link'[x] = link[x]
          /\ link'[w] = LinkAfter(o) /\ pc'[w] = "send"
      BY <2>5 DEF TypeOK, Trim, Relink, To
    <3>2. Target[held[w]] \in Devices
      BY <3>1, RendersAssumption DEF TypeOK
    <3>3. \A d \in Devices : messages'[d] = messages[d] \/ messages'[d] = <<>>
      BY <2>5 DEF TypeOK, Trim
    <3>4. link'[w] = "up" => messages'[Target[held[w]]] = <<>>
      BY <2>5, <3>1, <3>2 DEF TypeOK, Trim, LinkAfter, Applied
    <3> QED
      BY <2>0, <3>1, <3>3, <3>4
  <2>6. CASE RasterizeFails(w)
    BY <2>0, <2>6 DEF TypeOK, RasterizeFails, To
  <2>7. ASSUME NEW o \in Outcomes, Send(w, o)
        PROVE  Order' /\ NeverBackwards'
    <3>1. /\ UNCHANGED <<taken, shown, held>> /\ pc[w] = "send" /\ pc'[w] = "record"
          /\ \A x \in Renderers \ {w} : pc'[x] = pc[x] /\ link'[x] = link[x]
          /\ held[w] \in Renders
      BY <2>7 DEF TypeOK, Send, Relink, To
    <3>2. CASE Applied(o)
      <4>1. link[w] = "up"
        BY <2>7, <3>2, Commands DEF Send
      <4>2. /\ messages' = [messages EXCEPT ![Target[held[w]]] = <<held[w]>> \o @]
            /\ sent' = sent \cup {held[w]}
        BY <2>7, <3>2 DEF Send
      <4>3. \A v \in Renderers : pc'[v] # "pop" => pc[v] # "pop"
        BY <3>1
      <4> QED
        BY <3>1, <4>1, <4>2, <4>3, PushOrder
    <3>3. CASE ~Applied(o)
      <4>1. UNCHANGED <<messages, sent>>
        BY <2>7, <3>3 DEF Send
      <4> QED
        BY <2>0, <3>1, <4>1
    <3> QED
      BY <3>2, <3>3
  <2>8. CASE Forget(w) \/ Crash(w)
    BY <2>0, <2>8 DEF TypeOK, Forget, Crash, Relink, To
  <2>9. ASSUME NEW o \in Outcomes, Record(w, o)
        PROVE  Order' /\ NeverBackwards'
    BY <2>0, <2>9 DEF TypeOK, Record, Relink, To
  <2> QED
    BY <1>3, <2>1, <2>2, <2>3, <2>4, <2>5, <2>6, <2>7, <2>8, <2>9, PopOrder DEF Tick
<1>4. ASSUME NEW d \in Devices, Show(d) \/ Miss(d)
      PROVE  Order' /\ NeverBackwards'
  <2>1. Head(messages[d]) \in Renders /\ messages[d] # <<>>
    BY <1>4 DEF TypeOK, Show, Miss
  <2>2. /\ UNCHANGED <<taken, sent, pc, held, link>>
        /\ messages' = [messages EXCEPT ![d] = Tail(@)]
        /\ shown' = shown \/ shown' = [shown EXCEPT ![d] = Append(@, Head(messages[d]))]
    BY <1>4 DEF Show, Miss
  <2> QED
    BY <2>1, <2>2, TakeOrder
<1>5. CASE UNCHANGED vars
  BY <1>1, <1>5 DEF vars
<1> QED
  BY <1>2, <1>3, <1>4, <1>5 DEF Next

LEMMA OrderInit == Init => Order /\ NeverBackwards
<1> SUFFICES ASSUME Init
             PROVE  Order /\ NeverBackwards
  OBVIOUS
<1>1. Entries(<<>>) = {} /\ DOMAIN <<>> = {}
  BY DEF Entries
<1>2. Lineage
  BY <1>1 DEF Init, Lineage, Mine
<1>3. Placed
  BY <1>1 DEF Init, Placed
<1>4. OneEach
  BY <1>1 DEF Init, OneEach
<1>5. NoneLeft
  BY DEF Init, NoneLeft
<1>6. NewerWaits
  BY <1>1 DEF Init, NewerWaits
<1>7. NeverBackwards
  BY <1>1 DEF Init, NeverBackwards
<1> QED
  BY <1>2, <1>3, <1>4, <1>5, <1>6, <1>7 DEF Order

\* Of the renders one process handled, a device never shows an older one
\* after a newer one, nor any twice: clear_pending and the push that follows
\* it (rendering/renderer.rs) do not let two of them wait at once.
THEOREM NeverBack == Spec => []NeverBackwards
<1>1. Init => Order /\ NeverBackwards
  BY OrderInit
<1>2. TypeOK /\ Waiting /\ InHand /\ Order /\ NeverBackwards /\ [Next]_vars =>
        (Order /\ NeverBackwards)'
  BY OrderNext
<1>3. Spec => [](TypeOK /\ Waiting /\ InHand /\ AnswerIsTrue)
  BY Places
<1> QED
  BY <1>1, <1>2, <1>3, PTL DEF Spec
=============================================================================

---------------------------- MODULE DeviceState ----------------------------
(***************************************************************************)
(* What one device is to show: messages, or a calendar with messages.      *)
(* Jobs change the stored rendering state, each by reading all of it,      *)
(* computing the next one and writing that back, and then enqueue a job    *)
(* that renders whatever is stored by the time it is carried out.          *)
(*                                                                         *)
(* Devices do not share any of this, so the module is about one.  The job  *)
(* list is the one of JobQueue, here only a FIFO list; what happens to a   *)
(* render after it was queued is in RenderPipeline.                        *)
(***************************************************************************)
EXTENDS Naturals, Sequences, FiniteSets, SequencesExt, RedisLink

CONSTANTS
    Messages,      \* messages, each sent once
    Events,        \* lists of calendar events, each set once
    Workers,       \* the registrar processes
    MaxMessages,   \* MAX_MESSAGE_LIST_LEN
    NoEvents,
    NoJob

PushMessage(m) == [what |-> "message", content |-> m]
SetSchedule(e) == [what |-> "schedule", events |-> e]
Clear == [what |-> "clear"]
Render == [what |-> "render"]
Requests ==
    {PushMessage(m) : m \in Messages} \cup {SetSchedule(e) : e \in Events}
        \cup {Clear, Render}

ASSUME DeviceStateAssumption ==
    /\ MaxMessages \in Nat \ {0}
    /\ NoEvents \notin Events
    /\ NoJob \notin Requests

VARIABLES
    rendering,   \* the stored rendering state
    jobs,        \* the registrar job list, head first
    requested,   \* what users and schedules have asked for so far
    pc,          \* pc[w]: where worker w is in its job
    job,         \* job[w]: the job worker w popped
    read,        \* read[w]: the state that job read
    display,     \* the last state a render was queued for
    applied,     \* history: messages written, oldest first, since they last began anew
    unseen       \* history: was a change made whose render failed or was lost?

jobVars == <<pc, job, read>>
vars == <<rendering, jobs, requested, jobVars, display, applied, unseen, faults>>

State(k, e, ms) == [kind |-> k, events |-> e, messages |-> ms]
Absent == State("absent", NoEvents, <<>>)
Empty == State("empty", NoEvents, <<>>)

States ==
    [kind : {"absent", "empty", "messages", "schedule"},
     events : Events \cup {NoEvents},
     messages : Seq(Messages)]

IsState(s) ==
    /\ s \in States
    /\ Len(s.messages) <= MaxMessages + 1
    /\ s.kind \in {"absent", "empty"} => s.messages = <<>>
    /\ s.events # NoEvents <=> s.kind = "schedule"

TypeOK ==
    /\ IsState(rendering) /\ IsState(display)
    /\ jobs \in Seq(Requests)
    /\ requested \in SUBSET Requests
    /\ pc \in [Workers -> {"pop", "read", "write", "percolate", "render"}]
    /\ job \in [Workers -> Requests \cup {NoJob}]
    /\ read \in [Workers -> States]
    /\ \A w \in Workers :
         /\ IsState(read[w])
         /\ job[w] = NoJob <=> pc[w] = "pop"
    /\ applied \in Seq(Messages)
    /\ unseen \in BOOLEAN
    /\ faults \in 0..MaxFaults

Init ==
    /\ rendering = Absent
    /\ jobs = <<>>
    /\ requested = {}
    /\ pc = [w \in Workers |-> "pop"]
    /\ job = [w \in Workers |-> NoJob]
    /\ read = [w \in Workers |-> Absent]
    /\ display = Absent
    /\ applied = <<>>
    /\ unseen = FALSE
    /\ faults = 0

-----------------------------------------------------------------------------
(* The transition                                                          *)

\* Mutant: the list is cut after the message was added.
PushOntoThenCut(ms, m) ==
    IF Len(ms) + 1 > MaxMessages THEN SubSeq(Append(ms, m), 1, MaxMessages)
                                 ELSE Append(ms, m)

\* Mutant: off by one, the list is cut too late.
PushOntoLate(ms, m) ==
    Append(IF Len(ms) > MaxMessages + 1 THEN SubSeq(ms, 1, MaxMessages) ELSE ms, m)

\* The end of a list that is too long is cut off first, so that one more
\* message than the limit is kept.
PushOnto(ms, m) ==
    Append(IF Len(ms) > MaxMessages THEN SubSeq(ms, 1, MaxMessages) ELSE ms, m)

NextState(s, t) ==
    CASE t.what = "message" ->
           IF s.kind = "schedule"
           THEN State("schedule", s.events, PushOnto(s.messages, t.content))
           ELSE State("messages", NoEvents, PushOnto(s.messages, t.content))
      [] t.what = "schedule" ->
           State("schedule", t.events, IF s.kind = "schedule" THEN s.messages ELSE <<>>)
      [] t.what = "clear" -> Empty

\* The messages written since the list was last begun anew.
AppliedWith(s, t) ==
    CASE t.what = "message" -> Append(applied, t.content)
      [] t.what = "schedule" -> IF s.kind = "schedule" THEN applied ELSE <<>>
      [] t.what = "clear" -> <<>>

-----------------------------------------------------------------------------
(* Requests and jobs                                                       *)

Ask(r) ==
    /\ r \notin requested
    /\ requested' = requested \cup {r}
    /\ jobs' = Append(jobs, r)
    /\ UNCHANGED <<rendering, jobVars, display, applied, unseen, faults>>

To(w, place) == pc' = [pc EXCEPT ![w] = place]
EndJob(w) ==
    /\ job' = [job EXCEPT ![w] = NoJob]
    /\ read' = [read EXCEPT ![w] = Absent]
    /\ To(w, "pop")

Pop(w) ==
    /\ pc[w] = "pop" /\ jobs # <<>>
    /\ job' = [job EXCEPT ![w] = Head(jobs)]
    /\ jobs' = Tail(jobs)
    /\ To(w, "read")
    /\ UNCHANGED <<rendering, requested, read, display, applied, unseen, faults>>

\* attempt_transition: load the state, or insert an empty one.
Load(w) ==
    /\ pc[w] = "read" /\ job[w] # Render
    /\ rendering' = IF rendering = Absent THEN Empty ELSE rendering
    /\ read' = [read EXCEPT ![w] = rendering']
    /\ To(w, "write")
    /\ UNCHANGED <<jobs, requested, job, display, applied, unseen, faults>>

\* attempt_transition: write back the next state.
Write(w) ==
    /\ pc[w] = "write"
    /\ rendering' = NextState(read[w], job[w])
    /\ applied' = AppliedWith(read[w], job[w])
    /\ To(w, "percolate")
    /\ UNCHANGED <<jobs, requested, job, read, display, unseen, faults>>

\* Mutant: only messages are worth a render.
PercolateMessages(w, o) ==
    /\ pc[w] = "percolate"
    /\ Issue("up", o)
    /\ jobs' = IF Applied(o) /\ job[w].what = "message" THEN Append(jobs, Render) ELSE jobs
    /\ unseen' = (unseen \/ ~Applied(o))
    /\ EndJob(w)
    /\ UNCHANGED <<rendering, requested, display, applied>>

\* attempt_transition: enqueue the job that renders the state.
Percolate(w, o) ==
    /\ pc[w] = "percolate"
    /\ Issue("up", o)
    /\ jobs' = IF Applied(o) THEN Append(jobs, Render) ELSE jobs
    /\ unseen' = (unseen \/ ~Applied(o))
    /\ EndJob(w)
    /\ UNCHANGED <<rendering, requested, display, applied>>

\* render_current: load the state; it is an error that there is none.
LoadToRender(w) ==
    /\ pc[w] = "read" /\ job[w] = Render
    /\ rendering # Absent
    /\ read' = [read EXCEPT ![w] = rendering]
    /\ To(w, "render")
    /\ UNCHANGED <<rendering, jobs, requested, job, display, applied, unseen, faults>>

\* render_current: queue the render.
QueueRender(w, o) ==
    /\ pc[w] = "render"
    /\ Issue("up", o)
    /\ display' = IF Applied(o) THEN read[w] ELSE display
    /\ unseen' = ~Applied(o)
    /\ EndJob(w)
    /\ UNCHANGED <<rendering, jobs, requested, applied>>

\* An error of mongo, or no state to render.
JobFails(w) ==
    /\ pc[w] \in {"read", "write"}
    /\ unseen' = TRUE
    /\ EndJob(w)
    /\ UNCHANGED <<rendering, jobs, requested, display, applied, faults>>

\* The process dies between any two steps and is started again.
Crash(w) ==
    /\ pc[w] # "pop"
    /\ Fault
    /\ unseen' = TRUE
    /\ EndJob(w)
    /\ UNCHANGED <<rendering, jobs, requested, display, applied>>

-----------------------------------------------------------------------------
(* The specification                                                       *)

Work(w) ==
    \/ Pop(w)
    \/ Load(w)
    \/ Write(w)
    \/ \E o \in Outcomes : Percolate(w, o)
    \/ LoadToRender(w)
    \/ \E o \in Outcomes : QueueRender(w, o)
    \/ JobFails(w)

Next ==
    \/ \E r \in Requests : Ask(r)
    \/ \E w \in Workers : Work(w) \/ Crash(w)

Spec == Init /\ [][Next]_vars

-----------------------------------------------------------------------------
(* What must be true                                                       *)

Quiet == jobs = <<>> /\ \A w \in Workers : pc[w] = "pop"

\* Once nothing is left to do, the last render queued shows the state as it
\* is stored, although renders are jobs of their own and other changes may
\* come between a change and its render.
DisplayIsCurrent ==
    Quiet /\ ~unseen => display = rendering

\* And the last message that was written is part of it, however many were
\* sent before it and whether they came with a calendar or without.
NewestIsDisplayed ==
    Quiet /\ ~unseen /\ applied # <<>> => Last(applied) \in ToSet(display.messages)

\* "Older messages are popped off" of a list that is too long: what is
\* retained are the newest messages.
RetainsNewest ==
    IsSuffix(rendering.messages, applied)
=============================================================================

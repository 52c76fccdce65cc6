---------------------------- MODULE Diagnostics ----------------------------
(***************************************************************************)
(* What the system knows of a device that has an identity.                 *)
(*                                                                         *)
(* A device pushes its id on a redis list.  Registrar workers pop the list *)
(* and keep a diagnostic per id: when it was last heard from, and whether  *)
(* it is yet to be sent the code with which a user claims it, was sent it, *)
(* or is owned.  Users claim devices and operators reset or clean up their *)
(* diagnostics in between.  Each redis command and each access to mongo is *)
(* a step.                                                                 *)
(*                                                                         *)
(* How ids are made and taken is in Provisioning.  The redis set of seen   *)
(* ids is left out: nothing reads it.                                      *)
(***************************************************************************)
EXTENDS Naturals, Sequences, RedisLink

CONSTANTS
    Ids,         \* ids that devices have
    NoId,
    Workers,     \* the registrar processes
    MaxChores    \* bound of the model: what operators do

ASSUME DiagnosticsAssumption == NoId \notin Ids /\ MaxChores \in Nat

VARIABLES
    users,       \* the ids that have a redis user
    reports,     \* the incoming list, head first
    known,       \* known[i]: the registration state in the diagnostic of i
    unreadable,  \* the ids whose diagnostic lacks the field first_seen
    lastSeen,    \* lastSeen[i]: when i was last heard from, by its diagnostic
    link,        \* link[w]: the redis connection of worker w
    pc,          \* pc[w]: where worker w is in its frame
    held,        \* held[w]: the id whose report w handles
    chore,       \* where the operator who cleans up is
    names,       \* the ids whose users that operator is about to delete
    chores,      \* what operators did so far, at most MaxChores
    welcomed,    \* history: ids whose registration code was queued
    claimed,     \* history: ids a user has claimed
    overtaken,   \* history: claims that came while a worker handled a report
    excused      \* history: ids handled after the operator named them

mongoVars == <<known, unreadable, lastSeen>>
workerVars == <<link, pc, held>>
operatorVars == <<chore, names, chores>>
historyVars == <<welcomed, claimed, overtaken, excused>>
vars == <<users, reports, mongoVars, workerVars, operatorVars, historyVars, faults>>

Entries(s) == {s[k] : k \in DOMAIN s}

TypeOK ==
    /\ users \in SUBSET Ids
    /\ reports \in Seq(Ids)
    /\ known \in [Ids -> {"absent", "initial", "pending", "owned"}]
    /\ unreadable \in SUBSET Ids
    /\ lastSeen \in [Ids -> {"never", "recently", "long ago"}]
    /\ link \in [Workers -> {"none", "up", "broken"}]
    /\ pc \in [Workers -> {"frame", "take", "upsert", "welcome", "pending", "index", "claim"}]
    /\ held \in [Workers -> Ids \cup {NoId}]
    /\ chore \in {"none", "delete", "disconnect"}
    /\ names \in SUBSET Ids
    /\ chores \in 0..MaxChores
    /\ welcomed \in SUBSET Ids
    /\ claimed \in SUBSET Ids
    /\ overtaken \in SUBSET Ids
    /\ excused \in SUBSET Ids
    /\ faults \in 0..MaxFaults
    /\ \A w \in Workers :
         /\ held[w] \in Ids <=> pc[w] \in {"upsert", "welcome", "pending", "index", "claim"}
         /\ pc[w] # "frame" => link[w] # "none"
    /\ \A i \in Ids : lastSeen[i] # "never" \/ i \in unreadable => known[i] # "absent"

Init ==
    /\ users = Ids
    /\ reports = <<>>
    /\ known = [i \in Ids |-> "absent"]
    /\ unreadable = {}
    /\ lastSeen = [i \in Ids |-> "never"]
    /\ link = [w \in Workers |-> "none"]
    /\ pc = [w \in Workers |-> "frame"]
    /\ held = [w \in Workers |-> NoId]
    /\ chore = "none" /\ names = {} /\ chores = 0
    /\ welcomed = {} /\ claimed = {} /\ overtaken = {} /\ excused = {}
    /\ faults = 0

-----------------------------------------------------------------------------
(* Devices                                                                 *)

\* RPUSH of a device's own id.  (One report of a device waits at a time: a
\* second one would be handled like the first.)
Report(i) ==
    /\ i \in users /\ i \notin Entries(reports)
    /\ reports' = Append(reports, i)
    /\ UNCHANGED <<users, mongoVars, workerVars, operatorVars, historyVars, faults>>

\* Half an hour passes in which no report of the device is handled.
Age(i) ==
    /\ lastSeen[i] = "recently"
    /\ lastSeen' = [lastSeen EXCEPT ![i] = "long ago"]
    /\ UNCHANGED <<users, reports, known, unreadable, workerVars, operatorVars,
                   historyVars, faults>>

-----------------------------------------------------------------------------
(* Registrar workers                                                       *)

To(w, place) == pc' = [pc EXCEPT ![w] = place]
Relink(w, l) == link' = [link EXCEPT ![w] = l]
Drop(w) == held' = [held EXCEPT ![w] = NoId]

\* Mutant: the id is still in hand.
EndFrameKeepsId(w) ==
    /\ To(w, "frame")
    /\ Relink(w, "none")
    /\ UNCHANGED held

\* An error that leaves the frame takes the connection with it.
EndFrame(w) ==
    /\ To(w, "frame")
    /\ Relink(w, "none")
    /\ Drop(w)

\* The registration state is set, in a diagnostic that is made for it if there
\* is none.  That one lacks what only mark_active writes and every read needs.
Record(i, state) ==
    /\ known' = [known EXCEPT ![i] = state]
    /\ unreadable' = IF known[i] = "absent" THEN unreadable \cup {i} ELSE unreadable

\* A frame without a connection makes one; the next goes to the reports.
Begin(w) ==
    /\ pc[w] = "frame"
    /\ IF link[w] = "none"
       THEN Relink(w, "up") /\ UNCHANGED pc
       ELSE To(w, "take") /\ UNCHANGED link
    /\ UNCHANGED <<users, reports, mongoVars, held, operatorVars, historyVars, faults>>

\* mark_active: LPOP; an empty list ends this part of the frame.
Take(w, o) ==
    /\ pc[w] = "take"
    /\ Issue(link[w], o)
    /\ reports' = IF Applied(o) /\ reports # <<>> THEN Tail(reports) ELSE reports
    /\ \/ o # "ok" /\ EndFrame(w)
       \/ /\ o = "ok" /\ reports # <<>>
          /\ To(w, "upsert")
          /\ held' = [held EXCEPT ![w] = Head(reports)]
          /\ UNCHANGED link
       \/ /\ o = "ok" /\ reports = <<>>
          /\ To(w, "frame")
          /\ UNCHANGED <<held, link>>
    /\ UNCHANGED <<users, mongoVars, operatorVars, historyVars>>

\* Mutant: every report is taken for the first one.
AfterAlways(state) == "welcome"

\* What follows from the registration state the upsert returned.
After(state) == IF state \in {"absent", "initial"} THEN "welcome" ELSE "index"

\* mark_active: the diagnostic is updated, or made, and what it is then is read.
\* If that fails the frame ends, with the update done.
Upsert(w) ==
    LET i == held[w] IN
      /\ pc[w] = "upsert"
      /\ known' = [known EXCEPT ![i] = IF @ = "absent" THEN "initial" ELSE @]
      /\ lastSeen' = [lastSeen EXCEPT ![i] = "recently"]
      /\ excused' = IF i \in names \/ i \notin users THEN excused \cup {i} ELSE excused
      /\ IF i \in unreadable
         THEN EndFrame(w)
         ELSE To(w, After(known[i])) /\ UNCHANGED <<link, held>>
      /\ UNCHANGED <<users, reports, unreadable, operatorVars,
                     welcomed, claimed, overtaken, faults>>

\* The database fails.
UpsertFails(w) ==
    /\ pc[w] = "upsert"
    /\ Fault
    /\ EndFrame(w)
    /\ UNCHANGED <<users, reports, mongoVars, operatorVars, historyVars>>

\* Mutant: an error is logged, and the state set nevertheless.
WelcomeGoesOn(w, o) ==
    /\ pc[w] = "welcome"
    /\ Issue(link[w], o)
    /\ Relink(w, LinkAfter(o))
    /\ welcomed' = IF Applied(o) THEN welcomed \cup {held[w]} ELSE welcomed
    /\ To(w, "pending")
    /\ UNCHANGED <<users, reports, mongoVars, held, operatorVars,
                   claimed, overtaken, excused>>

\* mark_active: the registration code is queued for rendering; an error is
\* logged and leaves the state alone, so that the next report tries again.
Welcome(w, o) ==
    /\ pc[w] = "welcome"
    /\ Issue(link[w], o)
    /\ Relink(w, LinkAfter(o))
    /\ welcomed' = IF Applied(o) THEN welcomed \cup {held[w]} ELSE welcomed
    /\ To(w, IF o = "ok" THEN "pending" ELSE "index")
    /\ UNCHANGED <<users, reports, mongoVars, held, operatorVars,
                   claimed, overtaken, excused>>

\* mark_active: whatever the state has become since it was read.
SetPending(w) ==
    /\ pc[w] = "pending"
    /\ Record(held[w], "pending")
    /\ To(w, "index")
    /\ UNCHANGED <<users, reports, lastSeen, link, held, operatorVars, historyVars, faults>>

\* The database fails; the error is logged.
SetPendingFails(w) ==
    /\ pc[w] = "pending"
    /\ Fault
    /\ To(w, "index")
    /\ UNCHANGED <<users, reports, mongoVars, link, held, operatorVars, historyVars>>

\* mark_active: SADD.  Then the next report, unless it was the last of a chunk.
Index(w, o) ==
    /\ pc[w] = "index"
    /\ Issue(link[w], o)
    /\ \/ o # "ok" /\ EndFrame(w)
       \/ /\ o = "ok"
          /\ \E place \in {"take", "frame"} : To(w, place)
          /\ Drop(w)
          /\ UNCHANGED link
    /\ UNCHANGED <<users, reports, mongoVars, operatorVars, historyVars>>

\* The jobs of a frame follow its reports; a claim reads the diagnostic first.
FindDevice(w, i) ==
    /\ pc[w] = "frame" /\ link[w] = "up"
    /\ known[i] # "absent" /\ i \notin unreadable
    /\ To(w, "claim")
    /\ held' = [held EXCEPT ![w] = i]
    /\ UNCHANGED <<users, reports, mongoVars, link, operatorVars, historyVars, faults>>

\* The next job, or the next frame.
EndClaim(w) == To(w, "frame") /\ Drop(w) /\ UNCHANGED link

\* register_device records the owner, whatever became of the diagnostic.
Claim(w) ==
    LET i == held[w]
        missed == \E x \in Workers : held[x] = i /\ pc[x] \in {"welcome", "pending"}
    IN
      /\ pc[w] = "claim"
      /\ Record(i, "owned")
      /\ claimed' = claimed \cup {i}
      /\ overtaken' = IF missed THEN overtaken \cup {i} ELSE overtaken \ {i}
      /\ EndClaim(w)
      /\ UNCHANGED <<users, reports, lastSeen, operatorVars, welcomed, excused, faults>>

\* The user has no access, or the database fails.
Refuse(w) ==
    /\ pc[w] = "claim"
    /\ EndClaim(w)
    /\ UNCHANGED <<users, reports, mongoVars, operatorVars, historyVars, faults>>

\* The process dies between any two steps and is started again.
Crash(w) ==
    /\ Fault
    /\ EndFrame(w)
    /\ UNCHANGED <<users, reports, mongoVars, operatorVars, historyVars>>

-----------------------------------------------------------------------------
(* Operators                                                               *)

Chore(c, is) == chore' = c /\ names' = is

StartChore ==
    /\ chore = "none" /\ chores < MaxChores
    /\ chores' = chores + 1

\* What is forgotten with a state.  A code that a worker queued and has yet to
\* record counts for the state that comes.
Forget(is) ==
    /\ welcomed' = welcomed \ {i \in is : \A w \in Workers : held[w] # i \/ pc[w] # "pending"}
    /\ claimed' = claimed \ is
    /\ overtaken' = overtaken \ is

\* ResetRegistration: the device is to show its registration code again.
ResetRegistration(i) ==
    /\ StartChore
    /\ Record(i, "initial")
    /\ Forget({i})
    /\ UNCHANGED <<users, reports, lastSeen, workerVars, chore, names, excused, faults>>

\* The diagnostics whose last_seen lies before the cutoff.
Silent == {i \in Ids : lastSeen[i] = "long ago"}

\* Mutant: every device that was heard from is found.
FindAll ==
    LET found == {i \in Ids \ unreadable : lastSeen[i] # "never"} IN
      /\ StartChore
      /\ found # {}
      /\ Chore("delete", found)
      /\ UNCHANGED <<users, reports, mongoVars, workerVars, historyVars, faults>>

\* clean_disconnects: those that are silent (fewer than its limit), as far as
\* they can be read, ...
FindSilent ==
    /\ StartChore
    /\ Silent \ unreadable # {}
    /\ Chore("delete", Silent \ unreadable)
    /\ UNCHANGED <<users, reports, mongoVars, workerVars, historyVars, faults>>

\* ... are deleted by the same condition, whoever meets it now ...
DeleteSilent ==
    /\ chore = "delete"
    /\ known' = [i \in Ids |-> IF i \in Silent THEN "absent" ELSE known[i]]
    /\ lastSeen' = [i \in Ids |-> IF i \in Silent THEN "never" ELSE lastSeen[i]]
    /\ unreadable' = unreadable \ Silent
    /\ Forget(Silent)
    /\ Chore("disconnect", names)
    /\ UNCHANGED <<users, reports, workerVars, chores, excused, faults>>

\* ... and the users of those that were found go.
DisconnectSilent ==
    /\ chore = "disconnect"
    /\ users' = users \ names
    /\ Chore("none", {})
    /\ UNCHANGED <<reports, mongoVars, workerVars, chores, historyVars, faults>>

\* A command fails.
GiveUp ==
    /\ chore # "none"
    /\ Chore("none", {})
    /\ UNCHANGED <<users, reports, mongoVars, workerVars, chores, historyVars, faults>>

-----------------------------------------------------------------------------
(* The specification                                                       *)

Work(w) ==
    \/ Begin(w)
    \/ \E o \in Outcomes : Take(w, o)
    \/ Upsert(w)
    \/ UpsertFails(w)
    \/ \E o \in Outcomes : Welcome(w, o)
    \/ SetPending(w)
    \/ SetPendingFails(w)
    \/ \E o \in Outcomes : Index(w, o)
    \/ Claim(w)
    \/ Refuse(w)

Operate ==
    \/ \E i \in Ids : ResetRegistration(i)
    \/ FindSilent
    \/ DeleteSilent
    \/ DisconnectSilent
    \/ GiveUp

Next ==
    \/ \E i \in Ids : Report(i) \/ Age(i)
    \/ \E w \in Workers : Work(w) \/ Crash(w) \/ \E i \in Ids : FindDevice(w, i)
    \/ Operate

Spec == Init /\ [][Next]_vars

\* A device reports every few seconds, a worker runs frame after frame, with so
\* many jobs in each and no more; users need not claim anything.
FairSpec ==
    /\ Spec
    /\ \A w \in Workers : WF_vars(Work(w)) /\ SF_vars(Begin(w))
    /\ \A i \in Ids : WF_vars(Report(i))

-----------------------------------------------------------------------------
(* What must be true                                                       *)

\* A claim stays recorded, unless it came while a report of the device that
\* found it unclaimed was being handled.
ClaimIsKept ==
    \A i \in claimed \ overtaken : known[i] = "owned"

\* Cleaning up costs no device its user whose last report was handled before
\* the operator looked.
SilentOnlyAreCut ==
    \A i \in Ids : lastSeen[i] = "recently" /\ i \notin users => i \in excused

\* A device that reports is sent its registration code, again after a reset or
\* a clean up, although queueing it may fail at any command; unless it is
\* claimed before, has lost its user, or has a diagnostic that was not made by
\* a report and that no worker can read.
WelcomedEventually ==
    \A i \in Ids :
        []<>(i \in welcomed \/ known[i] = "owned" \/ i \notin users \/ i \in unreadable)
=============================================================================

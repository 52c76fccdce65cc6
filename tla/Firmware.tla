------------------------------ MODULE Firmware ------------------------------
(***************************************************************************)
(* The loop of a device: its wifi, its connection to redis, and its screen. *)
(*                                                                         *)
(* Every frame runs the wifi machine, which may send one message, and hands *)
(* that message, or none, to the redis machine in the same frame.  The     *)
(* redis machine logs in (Provisioning says how an id comes and goes) and   *)
(* then asks in turn for its heartbeat to be taken and for a message, which *)
(* is shown.  Replies arrive in parts, in any number of frames; the reader  *)
(* of the parts lives longer than the connections they come from.          *)
(*                                                                         *)
(* A frame reads one part here: what a frame that reads several does is the *)
(* same as that many frames in a row, except that OK counts as one part     *)
(* only if one frame reads it.  Time is left out: a wait may end at once.   *)
(*                                                                         *)
(* Which of the messages in its list comes next is up to the renderers     *)
(* (RenderPipeline); here the list is a number of messages, and a message  *)
(* gets its own number when redis takes it out: they are 1, 2, ... in the   *)
(* order in which the device is handed them.                               *)
(***************************************************************************)
EXTENDS Naturals, Sequences, RedisLink

CONSTANTS
    MaxMessages,   \* bound of the model: messages the device is handed, or to be handed
    MaxOwed        \* bound of the model: answers that fit into a half-read string

ASSUME FirmwareAssumption == MaxMessages \in Nat /\ MaxOwed \in Nat \ {0}

VARIABLES
    wifi,        \* the wifi machine
    stage,       \* the redis machine: disconnected, or how far the login is
    paused,      \* the redis machine waits for the wifi to come back
    task,        \* what it waits for once logged in, or is to ask for next
    due,         \* the strings still due of the array it reads
    owed,        \* the reader: 0, or within a string that lacks that much
    buffer,      \* the parts that the reader put into the buffer
    stored,      \* an id is stored in the flash memory
    screen,      \* the contents of the screen
    user,        \* the redis user of the stored id: none, with half its rights, full
    session,     \* the connection: none, open, or gone although nobody told the device
    request,     \* the command that redis has yet to answer
    wire,        \* the parts of answers on their way, first part first
    pending,     \* so many messages wait in the device's list
    taken,       \* messages 1..taken were popped, in this order
    lost         \* history: messages that were popped for a connection that ended

screenVars == <<screen>>
loginVars == <<stored, user>>
workVars == <<task, due>>
readerVars == <<owed, buffer>>
lineVars == <<session, request, wire>>
queueVars == <<pending, taken, lost>>
vars == <<wifi, stage, paused, workVars, readerVars, loginVars, screenVars,
          lineVars, queueVars, faults>>

Messages == 1..MaxMessages
Part(kind, m) == [kind |-> kind, message |-> m]
Plain(kind) == Part(kind, 0)
Kinds == {"ok", "o", "k", "wrongpass", "error", "int", "nil", "empty", "array", "head", "rest"}
Parts == [kind : Kinds, message : Messages \cup {0}]
Entries(s) == {s[k] : k \in DOMAIN s}
Whole(m) == <<Part("head", m), Part("rest", m)>>

Asking == {"burn-in", "login"}
Waiting == {"beat", "pop"}

TypeOK ==
    /\ wifi \in {"configuring", "connecting", "on", "lost"}
    /\ stage \in {"offline", "backoff", "start", "burn-in", "take", "id", "login", "work"}
    /\ paused \in BOOLEAN
    /\ task \in {"beat-next", "pop-next"} \cup Waiting
    /\ due \in 0..2
    /\ owed \in 0..MaxOwed
    /\ buffer \in Seq(Parts)
    /\ stored \in BOOLEAN
    /\ screen \in Seq(Parts)
    /\ user \in {"none", "half", "full"}
    /\ session \in {"none", "open", "gone"}
    /\ request \in {"none", "burn-in", "id", "login", "beat", "pop"}
    /\ wire \in Seq(Parts)
    /\ pending \in Nat /\ taken \in Nat
    /\ pending + taken <= MaxMessages
    /\ lost \in SUBSET Messages
    /\ faults \in 0..MaxFaults
    /\ session = "none" <=> stage \in {"offline", "backoff", "start"}
    /\ request # "none" => session = "open"
    /\ paused => wifi = "lost"
    /\ due > 0 => task = "pop"

Init ==
    /\ wifi = "configuring"
    /\ stage = "offline" /\ paused = FALSE
    /\ task = "beat-next" /\ due = 0
    /\ owed = 0 /\ buffer = <<>>
    /\ stored = FALSE /\ user = "none"
    /\ screen = <<>>
    /\ session = "none" /\ request = "none" /\ wire = <<>>
    /\ pending = 0 /\ taken = 0 /\ lost = {}
    /\ faults = 0

-----------------------------------------------------------------------------
(* The wifi machine                                                        *)

\* Credentials are stored or given, a network is joined or not, is lost, and
\* comes back or does not.
Wifi(m) ==
    \/ m = "none" /\ UNCHANGED wifi
    \/ m = "AttemptingConnection" /\ wifi = "configuring" /\ wifi' = "connecting"
    \/ m = "Connected" /\ wifi = "connecting" /\ wifi' = "on"
    \/ m = "FailedConnection" /\ wifi = "connecting" /\ wifi' = "configuring"
    \/ m = "ConnectionInterruption" /\ wifi = "on" /\ wifi' = "lost"
    \/ m = "ConnectionResumed" /\ wifi = "lost" /\ wifi' = "on"
    \/ m = "Disconnected" /\ wifi = "lost" /\ wifi' = "configuring"

\* What the network does counts as a fault.
Blame(m) == IF m = "ConnectionInterruption" THEN Fault ELSE UNCHANGED faults

WifiMessages == {"none", "AttemptingConnection", "Connected", "FailedConnection",
                 "ConnectionInterruption", "ConnectionResumed", "Disconnected"}

-----------------------------------------------------------------------------
(* The connection                                                          *)

OnItsWay(w) == {m \in Messages : Part("rest", m) \in Entries(w)}

\* A connection ends, and w is still received.  The messages that are popped
\* and no longer on their way are lost, also one that redis pops for a
\* connection that it does not know has ended.
Lose(w) ==
    /\ \/ UNCHANGED <<pending, taken>>
       \/ /\ request = "pop" /\ user = "full" /\ pending > 0
          /\ pending' = pending - 1 /\ taken' = taken + 1
    /\ lost' = lost \cup ((taken + 1)..taken') \cup (OnItsWay(wire) \ OnItsWay(w))

\* client.stop
HangUp ==
    /\ session' = "none" /\ request' = "none" /\ wire' = <<>>
    /\ Lose(<<>>)

\* The connection ends, with so much of the answer received, and nothing tells
\* the device, or nothing it looks at.
Gone ==
    /\ session' = "gone" /\ request' = "none"
    /\ \E k \in 0..Len(wire) : wire' = SubSeq(wire, 1, k)
    /\ Lose(wire')

Ask(r) ==
    /\ request' = IF session = "open" THEN r ELSE "none"
    /\ UNCHANGED <<session, wire, queueVars>>

\* Mutant: the strings that were due are still due.
LogoutKeepsDue == task' = "beat-next" /\ UNCHANGED due

Logout == task' = "beat-next" /\ due' = 0

-----------------------------------------------------------------------------
(* The reader                                                              *)

\* What the reader makes of a part: a string that lacks something takes in
\* whatever comes, and ends within or after it.
Event(x) ==
    CASE x.kind = "rest" -> "string"
      [] x.kind # "rest" /\ owed > 1 -> "none"
      [] x.kind # "rest" /\ owed = 1 -> "string"
      [] owed = 0 /\ x.kind \in {"head", "o", "nil"} -> "none"
      [] owed = 0 /\ x.kind \in {"ok", "k", "error", "wrongpass"} -> "string"
      [] owed = 0 /\ x.kind \in {"int", "empty", "array"} -> x.kind

\* What a string still lacks.
Owe(x) ==
    CASE x.kind = "rest" -> owed' = 0
      [] x.kind # "rest" /\ owed > 0 -> owed' = owed - 1
      [] owed = 0 /\ x.kind = "head" -> owed' \in 1..MaxOwed
      [] owed = 0 /\ x.kind = "o" -> owed' = 1
      [] OTHER -> UNCHANGED owed

\* Mutant: the header of a string leaves the buffer as it was.
FillAppends(b, x) ==
    /\ buffer' = IF owed > 0 \/ x.kind \notin {"int", "empty", "array"} THEN Append(b, x) ELSE b
    /\ Owe(x)

\* The header of a string clears the buffer, which was b.
Fill(b, x) ==
    /\ buffer' = CASE owed > 0 -> Append(b, x)
                   [] owed = 0 /\ x.kind \in {"int", "empty", "array"} -> b
                   [] OTHER -> <<x>>
    /\ Owe(x)

Receive(b, x) ==
    /\ wire # <<>> /\ x = Head(wire)
    /\ wire' = Tail(wire)
    /\ Fill(b, x)
    /\ UNCHANGED <<session, queueVars>>

-----------------------------------------------------------------------------
(* The redis machine without a connection                                  *)

Disconnected == stage \in {"offline", "backoff"}
Back == {"Connected", "ConnectionResumed"}

\* Mutant: only the wifi has the machine try again.
ReconnectOnMessage(m) ==
    /\ Disconnected
    /\ m \in Back
    /\ stage' = "start"
    /\ Logout
    /\ Blame(m)
    /\ UNCHANGED <<paused, readerVars, loginVars, screenVars, lineVars, queueVars>>

\* A new attempt, because the wifi is back or because the last one failed a
\* while ago.
Reconnect(m) ==
    /\ Disconnected
    /\ m \in Back \/ stage = "backoff"
    /\ stage' = "start"
    /\ Logout
    /\ Blame(m)
    /\ UNCHANGED <<paused, readerVars, loginVars, screenVars, lineVars, queueVars>>

StayDisconnected(m) ==
    /\ Disconnected
    /\ m \notin Back
    /\ Blame(m)
    /\ UNCHANGED <<stage, paused, workVars, readerVars, loginVars, screenVars,
                   lineVars, queueVars>>

\* The wifi is given up, or is back after an interruption.  The message that
\* would have the machine connect again is used up by this.
Stop(m) ==
    /\ ~Disconnected
    /\ m = "Disconnected" \/ (paused /\ m = "ConnectionResumed")
    /\ HangUp
    /\ stage' = "offline" /\ paused' = FALSE
    /\ Logout
    /\ UNCHANGED <<readerVars, loginVars, screenVars, faults>>

Pause(m) ==
    /\ ~Disconnected /\ m = "ConnectionInterruption"
    /\ paused' = TRUE
    /\ Fault
    /\ UNCHANGED <<stage, workVars, readerVars, loginVars, screenVars, lineVars, queueVars>>

-----------------------------------------------------------------------------
(* Logging in                                                              *)

\* initial_auth: a connection, and AUTH with the stored id or as burn-in user.
Connect ==
    /\ stage = "start" /\ wifi' = "on"
    /\ stage' = IF stored THEN "login" ELSE "burn-in"
    /\ session' = "open"
    /\ request' = stage'
    /\ buffer' = <<>>
    /\ UNCHANGED <<workVars, owed, loginVars, screenVars, wire, queueVars, faults>>

ConnectFails ==
    /\ stage = "start"
    /\ IF wifi' = "on" THEN Fault ELSE UNCHANGED faults
    /\ stage' = "backoff"
    /\ UNCHANGED <<workVars, readerVars, loginVars, screenVars, lineVars, queueVars>>

\* read_ok: OK or WRONGPASS, if the reader sees it as one.  The buffer is
\* cleared in every frame, so that half of an OK is never taken for one.
ReadOk(x) ==
    /\ stage \in Asking
    /\ Receive(<<>>, x)
    /\ stage' = IF owed # 0 \/ x # Plain("ok") THEN stage
                ELSE IF stage = "burn-in" THEN "take" ELSE "work"
    /\ stored' = (stored /\ ~(owed = 0 /\ x = Plain("wrongpass")))
    /\ UNCHANGED <<workVars, user, screenVars, request, faults>>

\* read_ok: nothing was read for a while, which is a fault of the network if
\* there is an answer to come.
TimeOut ==
    /\ stage \in Asking
    /\ IF request = "none" /\ wire = <<>> THEN UNCHANGED faults ELSE Fault
    /\ HangUp
    /\ stage' = "start"
    /\ Logout
    /\ UNCHANGED <<readerVars, loginVars, screenVars>>

\* request_id
RequestId ==
    /\ stage = "take"
    /\ Ask("id")
    /\ stage' = "id"
    /\ buffer' = <<>>
    /\ UNCHANGED <<workVars, owed, loginVars, screenVars, faults>>

\* read_id: the id is stored, and tried.  That its user lacks rights is a
\* fault of those who made it.
ReadId(x) ==
    /\ stage = "id"
    /\ Receive(buffer, x)
    /\ \/ /\ Event(x) = "string"
          /\ stage' = "login" /\ stored' = TRUE
          /\ request' = IF session = "open" THEN "login" ELSE "none"
          /\ \/ user' = "full" /\ UNCHANGED faults
             \/ user' = "half" /\ Fault
       \/ /\ Event(x) # "string"
          /\ UNCHANGED <<stage, loginVars, request, faults>>
    /\ UNCHANGED <<workVars, screenVars>>

-----------------------------------------------------------------------------
(* Working                                                                 *)

\* work: the next command.
Write ==
    /\ stage = "work" /\ task \notin Waiting
    /\ task' = IF task = "beat-next" THEN "beat" ELSE "pop"
    /\ Ask(task')
    /\ due' = 0
    /\ buffer' = <<>>
    /\ UNCHANGED <<stage, owed, loginVars, screenVars, faults>>

\* Mutant: a heartbeat follows a heartbeat.
ReadBeatOnly(x) ==
    /\ stage = "work" /\ task = "beat"
    /\ Receive(buffer, x)
    /\ task' = IF Event(x) = "int" THEN "beat-next" ELSE task
    /\ UNCHANGED <<stage, due, loginVars, screenVars, request, faults>>

\* work: the heartbeat is acknowledged by an integer.
ReadBeat(x) ==
    /\ stage = "work" /\ task = "beat"
    /\ Receive(buffer, x)
    /\ task' = IF Event(x) = "int" THEN "pop-next" ELSE task
    /\ UNCHANGED <<stage, due, loginVars, screenVars, request, faults>>

\* Mutant: a message is shown only while its connection is open.
ReadPopWhileOpen(x) ==
    /\ stage = "work" /\ task = "pop"
    /\ Receive(buffer, x)
    /\ CASE Event(x) = "array" -> due' = 2 /\ UNCHANGED <<task, screen>>
         [] Event(x) = "empty" -> task' = "beat-next" /\ due' = 0 /\ UNCHANGED screen
         [] Event(x) = "string" /\ due = 2 -> due' = 1 /\ UNCHANGED <<task, screen>>
         [] Event(x) = "string" /\ due = 1 ->
              /\ task' = "beat-next" /\ due' = 0
              /\ screen' = IF session = "open" THEN buffer' ELSE screen
         [] OTHER -> UNCHANGED <<task, due, screen>>
    /\ UNCHANGED <<stage, loginVars, request, faults>>

\* Mutant: every array is taken for an empty one.
ReadPopGivesUp(x) ==
    /\ stage = "work" /\ task = "pop"
    /\ Receive(buffer, x)
    /\ IF Event(x) \in {"empty", "array"}
       THEN task' = "beat-next" /\ due' = 0 /\ UNCHANGED screen
       ELSE UNCHANGED <<task, due, screen>>
    /\ UNCHANGED <<stage, loginVars, request, faults>>

\* work: an array of the list's name and the message, or none.  The message is
\* shown, from the buffer, in the frame that completes it.
ReadPop(x) ==
    /\ stage = "work" /\ task = "pop"
    /\ Receive(buffer, x)
    /\ CASE Event(x) = "array" -> due' = 2 /\ UNCHANGED <<task, screen>>
         [] Event(x) = "empty" -> task' = "beat-next" /\ due' = 0 /\ UNCHANGED screen
         [] Event(x) = "string" /\ due = 2 -> due' = 1 /\ UNCHANGED <<task, screen>>
         [] Event(x) = "string" /\ due = 1 ->
              task' = "beat-next" /\ due' = 0 /\ screen' = buffer'
         [] OTHER -> UNCHANGED <<task, due, screen>>
    /\ UNCHANGED <<stage, loginVars, request, faults>>

\* A frame in which nothing has arrived, and nothing is due.
Idle ==
    UNCHANGED <<stage, workVars, readerVars, loginVars, screenVars,
                lineVars, queueVars, faults>>

Run ==
    \/ Connect
    \/ ConnectFails
    \/ \E x \in Entries(wire) : ReadOk(x) \/ ReadId(x) \/ ReadBeat(x) \/ ReadPop(x)
    \/ TimeOut
    \/ RequestId
    \/ Write
    \/ Idle

Redis(m) ==
    \/ Reconnect(m)
    \/ StayDisconnected(m)
    \/ Stop(m)
    \/ Pause(m)
    \/ /\ ~Disconnected /\ m \notin {"Disconnected", "ConnectionInterruption"}
       /\ paused => m # "ConnectionResumed"
       /\ IF paused THEN Idle ELSE Run
       /\ UNCHANGED paused

Frame(m) == Wifi(m) /\ Redis(m)

-----------------------------------------------------------------------------
(* The rest of the world                                                   *)

\* send_layout: a renderer pushes a message.
Send ==
    /\ pending + taken < MaxMessages
    /\ pending' = pending + 1
    /\ UNCHANGED <<wifi, stage, paused, workVars, readerVars, loginVars, screenVars,
                   lineVars, taken, lost, faults>>

\* clear_pending: a renderer removes what waits, as it does before it pushes
\* unless that fails.
Clear ==
    /\ pending > 0
    /\ pending' = 0
    /\ UNCHANGED <<wifi, stage, paused, workVars, readerVars, loginVars, screenVars,
                   lineVars, taken, lost, faults>>

Answer(s) == wire' = wire \o s

\* AUTH is answered, at times in two parts.
AnswerAuth ==
    \/ (request = "login" => user # "none") /\ Answer(<<Plain("ok")>>) /\ UNCHANGED faults
    \/ (request = "login" => user # "none") /\ Answer(<<Plain("o"), Plain("k")>>) /\ Fault
    \/ request = "login" /\ user = "none" /\ Answer(<<Plain("wrongpass")>>) /\ UNCHANGED faults

\* Redis answers: LPOP and RPUSH at once, BLPOP when there is a message or
\* after a while.  An empty pool counts as a fault of those who fill it.
Serve ==
    /\ request # "none" /\ wifi # "lost"
    /\ request' = "none"
    /\ \/ request \in Asking /\ AnswerAuth /\ UNCHANGED <<pending, taken>>
       \/ request = "id" /\ Answer(Whole(0)) /\ UNCHANGED <<pending, taken, faults>>
       \/ request = "id" /\ Answer(<<Plain("nil")>>) /\ Fault /\ UNCHANGED <<pending, taken>>
       \/ request = "beat" /\ Answer(<<Plain("int")>>) /\ UNCHANGED <<pending, taken, faults>>
       \/ /\ request = "pop" /\ user = "half"
          /\ Answer(<<Plain("error")>>) /\ UNCHANGED <<pending, taken, faults>>
       \/ /\ request = "pop" /\ user # "half" /\ pending = 0
          /\ Answer(<<Plain("empty")>>) /\ UNCHANGED <<pending, taken, faults>>
       \/ /\ request = "pop" /\ user # "half" /\ pending > 0
          /\ pending' = pending - 1 /\ taken' = taken + 1
          /\ Answer(<<Plain("array")>> \o Whole(0) \o Whole(taken')) /\ UNCHANGED faults
    /\ UNCHANGED <<wifi, stage, paused, workVars, readerVars, loginVars, screenVars,
                   session, lost>>

\* The connection breaks.
Cut ==
    /\ session = "open"
    /\ Fault
    /\ Gone
    /\ UNCHANGED <<wifi, stage, paused, workVars, readerVars, loginVars, screenVars>>

\* The device's user is deleted, and connections as that user with it.
Revoke ==
    /\ user # "none"
    /\ user' = "none"
    /\ Fault
    /\ IF session = "open" /\ (stage = "work" \/ (stage = "login" /\ request = "none"))
       THEN Gone ELSE UNCHANGED <<lineVars, queueVars>>
    /\ UNCHANGED <<wifi, stage, paused, workVars, readerVars, stored, screenVars>>

\* The device is switched off and on.
Restart ==
    /\ Fault
    /\ wifi' = "configuring" /\ stage' = "offline" /\ paused' = FALSE
    /\ Logout
    /\ owed' = 0 /\ buffer' = <<>>
    /\ HangUp
    /\ UNCHANGED <<loginVars, screenVars>>

Next ==
    \/ \E m \in WifiMessages : Frame(m)
    \/ Send
    \/ Clear
    \/ Serve
    \/ Cut
    \/ Revoke
    \/ Restart

Spec == Init /\ [][Next]_vars

\* The loop of the device never ends, and redis answers what it receives.  The
\* wifi need not come back.
FairSpec ==
    /\ Spec
    /\ WF_vars(Frame("none"))
    /\ WF_vars(Serve)

-----------------------------------------------------------------------------
(* What must be true                                                       *)

\* The screen shows one message, and all of it, although messages arrive in
\* parts, through a buffer and a reader that earlier connections have used
\* and may have left in the middle of a string.
ShownIsWhole ==
    screen # <<>> => \E m \in 1..taken : screen = Whole(m)

Shown == IF screen = <<>> THEN 0 ELSE screen[1].message

\* No message is shown twice or after a later one, on whatever connections
\* they come.
ShownInOrder ==
    [][screen' # screen => Shown' > Shown]_vars

\* A message that was popped is shown, or was replaced by a later one, or was
\* popped for a connection that ended, or is being read by a device that waits
\* for it.
NoneForgotten ==
    \A m \in 1..taken :
        \/ m \in lost
        \/ m <= Shown
        \/ stage = "work" /\ task = "pop" /\ Part("rest", m) \in Entries(wire)

\* A message is passed over only if it was lost: the device shows what Mailbox
\* promises, through every mixture of connections and half-read answers.
Box == INSTANCE Mailbox WITH shown <- Shown
ImplementsMailbox == Box!Spec

\* The device waits for what will not come: it has no timeout, and no look at
\* its connection, once it is logged in or waits for an id; it ignores errors
\* and the answer of an empty pool; and it uses up the message that the wifi
\* is back by hanging up.
Stranded ==
    \/ stage = "offline" /\ wifi = "on"
    \/ stage \in {"id", "work"} /\ session = "gone"
    \/ stage = "id" /\ request = "none" /\ wire = <<>>
    \/ stage = "work" /\ user = "half"

\* A device with wifi that is not stranded comes to work, through refused ids,
\* lost answers, and answers that an old half-read message swallows.
WorksEventually ==
    []<>(stage = "work" \/ wifi # "on" \/ Stranded)

\* A message that waits for such a device is popped.
PoppedEventually ==
    []<>(pending = 0 \/ wifi # "on" \/ Stranded)
=============================================================================

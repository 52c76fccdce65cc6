--------------------------- MODULE FirmwareProofs ---------------------------
(***************************************************************************)
(* A screen shows whole messages, each one newer than the last, and no     *)
(* message is forgotten, for any number of messages, faults and parts.     *)
(*                                                                         *)
(* The first is about one answer, but what a device makes of its parts     *)
(* depends on the reader and the buffer, which are older than the          *)
(* connection.  What is inductive says that nothing is left of the past by *)
(* the time the device comes to work: an OK that is seen as one is the     *)
(* last part on the wire and finds the reader between two strings.  From   *)
(* then on, what was read of an answer and what is on the wire are two     *)
(* pieces of one answer, or of the beginning of one.                       *)
(***************************************************************************)
EXTENDS Firmware, SequenceTheorems, TLAPS

\* Redis has no command that the device does not wait for, and once it works
\* nothing else is on the wire by then.
Requests ==
    /\ stage \in {"offline", "backoff", "start", "take"} => request = "none"
    /\ stage \in Asking \cup {"id"} => request \in {stage, "none"}
    /\ stage = "work" => request \in {task, "none"} /\ (request # "none" => wire = <<>>)

\* Before it works a device has no message on the wire, and nothing behind an
\* OK that its connection is answered with.
SignIn ==
    /\ stage \in {"offline", "backoff", "start", "take"} => wire = <<>>
    /\ stage # "work" =>
         /\ task = "beat-next" /\ due = 0
         /\ \A k \in DOMAIN wire :
              /\ wire[k].message = 0
              /\ wire[k] = Plain("ok") => stage # "id" /\ request = "none" /\ k = Len(wire)

\* A machine that waits for the wifi has a connection.
PausedOnline == paused => ~Disconnected

\* The answer to a pop: the list's name and the message.
Reply(m) == <<Plain("array"), Plain("head"), Plain("rest"), Part("head", m), Part("rest", m)>>

\* Where the device and its reader are after k parts of Reply(m).
Progress(k, m) ==
    \/ k = 0 /\ due = 0 /\ owed = 0
    \/ k = 1 /\ due = 2 /\ owed = 0
    \/ k = 2 /\ due = 2 /\ owed > 0
    \/ k = 3 /\ due = 1 /\ owed = 0
    \/ k = 4 /\ due = 1 /\ owed > 0 /\ buffer = <<Part("head", m)>>

\* The wire holds what follows those, or the beginning of it.
Follows(k, m) ==
    /\ Len(wire) <= 5 - k
    /\ \A i \in DOMAIN wire : wire[i] = Reply(m)[k + i]

\* m is next to be shown.
IsNext(m) == Shown < m /\ m <= taken

\* A step that shows m, which is all there is on the wire.
Shows(m) ==
    /\ IsNext(m) /\ Entries(wire) = {Part("rest", m)}
    /\ wire' = <<>> /\ Shown' = m
    /\ UNCHANGED <<taken, lost>>

Reading(m) ==
    /\ task = "pop" /\ request = "none" /\ IsNext(m)
    /\ \E k \in 0..4 : Progress(k, m) /\ Follows(k, m)

\* An answer of one part, or none.
Short ==
    /\ due = 0 /\ owed = 0
    /\ \/ wire = <<>>
       \/ task = "beat" /\ wire = <<Plain("int")>>
       \/ task = "pop" /\ wire \in {<<Plain("error")>>, <<Plain("empty")>>}

AtWork == stage = "work" => Short \/ \E m \in Messages : Reading(m)

Kept == Requests /\ SignIn /\ AtWork /\ ShownIsWhole /\ NoneForgotten

IInv == TypeOK /\ PausedOnline /\ Kept

-----------------------------------------------------------------------------
(* Data                                                                    *)

USE DEF Waiting

\* What the constants are.
LEMMA Numbers ==
    /\ MaxMessages \in Nat /\ MaxOwed \in Nat \ {0} /\ MaxFaults \in Nat
    /\ Messages \subseteq Nat /\ \A m \in Messages : m > 0 /\ m <= MaxMessages
  BY FirmwareAssumption, FaultsAssumption DEF Messages

\* A part is known by its kind and its message.
LEMMA PartsDiffer ==
    /\ \A kind \in Kinds :
         Plain(kind) \in Parts /\ Plain(kind).kind = kind /\ Plain(kind).message = 0
    /\ \A m \in Messages \cup {0}, kind \in {"head", "rest"} :
         Part(kind, m) \in Parts /\ Part(kind, m).kind = kind /\ Part(kind, m).message = m
  BY DEF Part, Plain, Parts, Kinds

\* The first part, and the rest of them.
LEMMA First ==
    ASSUME NEW S, NEW s \in Seq(S), s # <<>>
    PROVE  /\ Head(s) = s[1] /\ 1 \in DOMAIN s /\ Head(s) \in S /\ Tail(s) \in Seq(S)
           /\ Len(s) \in Nat \ {0} /\ Len(Tail(s)) = Len(s) - 1
           /\ DOMAIN s = 1..Len(s) /\ DOMAIN Tail(s) = 1..(Len(s) - 1)
           /\ \A i \in DOMAIN Tail(s) : Tail(s)[i] = s[i + 1] /\ i + 1 \in DOMAIN s
           /\ Entries(s) = {Head(s)} \cup Entries(Tail(s))
<1>1. /\ Head(s) = s[1] /\ 1 \in DOMAIN s /\ Head(s) \in S /\ Tail(s) \in Seq(S)
      /\ Len(s) \in Nat \ {0} /\ Len(Tail(s)) = Len(s) - 1
      /\ DOMAIN s = 1..Len(s) /\ DOMAIN Tail(s) = 1..(Len(s) - 1)
      /\ \A i \in DOMAIN Tail(s) : Tail(s)[i] = s[i + 1] /\ i + 1 \in DOMAIN s
  OBVIOUS
<1>2. \A i \in DOMAIN s : i = 1 \/ (i - 1 \in DOMAIN Tail(s) /\ Tail(s)[i - 1] = s[i])
  BY <1>1
<1>3. Entries(s) \subseteq {Head(s)} \cup Entries(Tail(s))
  <2> SUFFICES ASSUME NEW i \in DOMAIN s
               PROVE  s[i] \in {Head(s)} \cup Entries(Tail(s))
    BY DEF Entries
  <2> QED
    BY <1>1, <1>2 DEF Entries
<1>4. {Head(s)} \cup Entries(Tail(s)) \subseteq Entries(s)
  BY <1>1 DEF Entries
<1> QED
  BY <1>1, <1>3, <1>4

\* The beginning of what is on the wire.
LEMMA Beginning ==
    ASSUME NEW S, NEW s \in Seq(S), NEW k \in 0..Len(s)
    PROVE  LET t == SubSeq(s, 1, k)
           IN  /\ t \in Seq(S) /\ Len(t) = k /\ DOMAIN t = 1..k
               /\ DOMAIN t \subseteq DOMAIN s
               /\ \A i \in DOMAIN t : t[i] = s[i]
               /\ s = <<>> => t = <<>>
  OBVIOUS

\* The two parts of a string.
LEMMA Pair ==
    ASSUME NEW S, NEW a \in S, NEW b \in S
    PROVE  Append(<<a>>, b) = <<a, b>>
<1> DEFINE s == Append(<<a>>, b)
           t == <<a, b>>
<1>1. s \in Seq(S) /\ t \in Seq(S) /\ Len(s) = 2 /\ Len(t) = 2
  OBVIOUS
<1>2. s[1] = t[1] /\ s[2] = t[2]
  OBVIOUS
<1> HIDE DEF s, t
<1>3. \A i \in 1..Len(s) : s[i] = t[i]
  <2>1. \A i \in 1..2 : i = 1 \/ i = 2
    OBVIOUS
  <2> QED
    BY <1>1, <1>2, <2>1
<1>4. s = t
  BY <1>1, <1>3, SeqEqual
<1> QED
  BY <1>4 DEF s, t

\* Nothing is in nothing.
LEMMA Nothing == Entries(<<>>) = {}
  BY DEF Entries

-----------------------------------------------------------------------------
(* Types                                                                   *)

\* Of what fits, each part does.
LEMMA NotMore ==
    ASSUME NEW a \in Nat, NEW b \in Nat, a + b <= MaxMessages
    PROVE  b <= MaxMessages
  BY FirmwareAssumption

\* What is lost with a connection keeps the types of the messages.
LEMMA LoseTypes ==
    ASSUME TypeOK, NEW w, Lose(w)
    PROVE  /\ pending' \in Nat /\ taken' \in {taken, taken + 1} /\ taken' \in Nat
           /\ pending' + taken' <= MaxMessages /\ taken' <= MaxMessages
           /\ lost' \in SUBSET Messages
<1>1. /\ pending' \in Nat /\ taken' \in {taken, taken + 1} /\ taken' \in Nat
      /\ pending' + taken' <= MaxMessages
  BY DEF Lose, TypeOK
<1>2. taken' <= MaxMessages
  BY <1>1, NotMore
<1>3. (taken + 1)..taken' \subseteq Messages
  BY <1>1, <1>2, Numbers DEF TypeOK, Messages
<1>4. OnItsWay(wire) \subseteq Messages
  BY DEF OnItsWay
<1> QED
  BY <1>1, <1>2, <1>3, <1>4 DEF Lose, TypeOK

\* The end of a connection keeps the types of the line and of the messages.
LEMMA EndTypes ==
    ASSUME TypeOK, HangUp \/ Gone
    PROVE  /\ wire' \in Seq(Parts) /\ request' = "none"
           /\ pending' \in Nat /\ taken' \in Nat /\ pending' + taken' <= MaxMessages
           /\ lost' \in SUBSET Messages
<1>1. wire' \in Seq(Parts)
  <2>1. CASE HangUp
    BY <2>1 DEF HangUp
  <2>2. CASE Gone
    BY <2>2, Beginning DEF Gone, TypeOK
  <2> QED
    BY <2>1, <2>2
<1>2. PICK w : Lose(w)
  BY DEF HangUp, Gone
<1> QED
  BY <1>1, <1>2, LoseTypes DEF HangUp, Gone

\* Reading a part keeps the types of the reader.
LEMMA ReaderTypes ==
    ASSUME TypeOK, NEW b \in Seq(Parts), NEW x, Receive(b, x)
    PROVE  /\ wire # <<>> /\ x = wire[1] /\ x \in Parts
           /\ wire' = Tail(wire) /\ wire' \in Seq(Parts)
           /\ buffer' \in Seq(Parts) /\ owed' \in 0..MaxOwed
<1>1. /\ wire # <<>> /\ x = wire[1] /\ x \in Parts
      /\ wire' = Tail(wire) /\ wire' \in Seq(Parts)
  BY First DEF Receive, TypeOK
<1>2. owed' \in 0..MaxOwed
  <2>1. owed \in 0..MaxOwed /\ MaxOwed \in Nat \ {0}
    BY Numbers DEF TypeOK
  <2>2. \/ owed' \in {0, 1} \cup 1..MaxOwed
        \/ owed > 0 /\ owed' = owed - 1
        \/ owed' = owed
    BY DEF Receive, Fill, Owe
  <2> QED
    BY <2>1, <2>2
<1>3. buffer' \in Seq(Parts)
  <2>1. buffer' \in {Append(b, x), b, <<x>>}
    BY DEF Receive, Fill
  <2>2. Append(b, x) \in Seq(Parts) /\ <<x>> \in Seq(Parts)
    BY <1>1
  <2> QED
    BY <2>1, <2>2
<1> QED
  BY <1>1, <1>2, <1>3

\* What a fault leaves of the budget of faults.
LEMMA FaultTypes ==
    ASSUME TypeOK, Fault \/ UNCHANGED faults
    PROVE  faults' \in 0..MaxFaults
  BY FaultsAssumption DEF Fault, TypeOK

\* What the wifi machine makes of its state.
LEMMA WifiTypes ==
    ASSUME TypeOK, NEW m, Wifi(m)
    PROVE  /\ wifi' \in {"configuring", "connecting", "on", "lost"}
           /\ wifi = "lost" => wifi' = "lost" \/ m \in {"ConnectionResumed", "Disconnected"}
           /\ m = "ConnectionInterruption" => wifi' = "lost"
  BY DEF Wifi, TypeOK

\* A machine without a connection, and one that is told to end or to wait.
LEMMA OutsideTypes ==
    ASSUME TypeOK, PausedOnline, NEW m \in WifiMessages, Wifi(m),
           Reconnect(m) \/ StayDisconnected(m) \/ Stop(m) \/ Pause(m)
    PROVE  TypeOK' /\ PausedOnline'
<1> USE DEF workVars, readerVars, loginVars, screenVars, lineVars, queueVars
<1>1. CASE Reconnect(m) \/ StayDisconnected(m)
  <2>1. Fault \/ UNCHANGED faults
    BY <1>1 DEF Reconnect, StayDisconnected, Blame
  <2>2. ~paused /\ paused' = paused
    BY <1>1 DEF PausedOnline, Reconnect, StayDisconnected
  <2> QED
    BY <1>1, <2>1, <2>2, WifiTypes, FaultTypes
       DEF Reconnect, StayDisconnected, TypeOK, PausedOnline, Logout, Disconnected
<1>2. CASE Stop(m)
  <2>1. HangUp /\ UNCHANGED faults /\ session' = "none"
    BY <1>2 DEF Stop, HangUp
  <2>2. /\ wire' \in Seq(Parts) /\ request' = "none"
        /\ pending' \in Nat /\ taken' \in Nat /\ pending' + taken' <= MaxMessages
        /\ lost' \in SUBSET Messages
    BY <2>1, EndTypes
  <2>3. /\ stage' = "offline" /\ paused' = FALSE /\ task' = "beat-next" /\ due' = 0
        /\ UNCHANGED <<owed, buffer, stored, user, screen>>
    BY <1>2 DEF Stop, Logout
  <2>4. wifi' \in {"configuring", "connecting", "on", "lost"}
    BY WifiTypes
  <2>5. ~paused' /\ paused' \in BOOLEAN
    BY <2>3
  <2>6. TypeOK'
    BY <2>1, <2>2, <2>3, <2>4, <2>5 DEF TypeOK
  <2> QED
    BY <2>5, <2>6 DEF PausedOnline
<1>3. CASE Pause(m)
  BY <1>3, WifiTypes, FaultTypes DEF Pause, TypeOK, PausedOnline, Disconnected
<1> QED
  BY <1>1, <1>2, <1>3

\* A machine with a connection, or about to get one.
LEMMA RunTypes ==
    ASSUME TypeOK, PausedOnline, NEW m \in WifiMessages, Wifi(m), Run, ~paused, UNCHANGED paused
    PROVE  TypeOK' /\ PausedOnline'
<1> USE DEF workVars, readerVars, loginVars, screenVars, lineVars, queueVars
<1>1. wifi' \in {"configuring", "connecting", "on", "lost"} /\ PausedOnline'
  BY WifiTypes DEF PausedOnline
<1>2. CASE Connect
  <2>1. <<>> \in Seq(Parts)
    OBVIOUS
  <2> QED
    BY <1>1, <1>2, <2>1 DEF Connect, TypeOK
<1>3. CASE ConnectFails
  BY <1>1, <1>3, FaultTypes DEF ConnectFails, TypeOK
<1>4. ASSUME NEW x \in Entries(wire), ReadOk(x)
      PROVE  TypeOK'
  <2>1. <<>> \in Seq(Parts) /\ Receive(<<>>, x)
    BY <1>4 DEF ReadOk
  <2>2. wire' \in Seq(Parts) /\ buffer' \in Seq(Parts) /\ owed' \in 0..MaxOwed
    BY <2>1, ReaderTypes
  <2> QED
    BY <1>1, <1>4, <2>1, <2>2 DEF ReadOk, TypeOK, Receive, Asking
<1>5. ASSUME NEW x \in Entries(wire), ReadId(x)
      PROVE  TypeOK'
  <2>1. buffer \in Seq(Parts) /\ Receive(buffer, x)
    BY <1>5 DEF ReadId, TypeOK
  <2>2. wire' \in Seq(Parts) /\ buffer' \in Seq(Parts) /\ owed' \in 0..MaxOwed
    BY <2>1, ReaderTypes
  <2>3. faults' \in 0..MaxFaults
    BY <1>5, FaultTypes DEF ReadId
  <2>4. /\ stage' \in {"id", "login"} /\ stored' \in BOOLEAN
        /\ user' \in {"none", "half", "full"}
        /\ request' \in {request, "login", "none"}
        /\ request' # "none" => session = "open" \/ request' = request
    BY <1>5 DEF ReadId, TypeOK
  <2> QED
    BY <1>1, <1>5, <2>1, <2>2, <2>3, <2>4 DEF ReadId, TypeOK, Receive
<1>6. ASSUME NEW x \in Entries(wire), ReadBeat(x) \/ ReadPop(x)
      PROVE  TypeOK'
  <2>1. buffer \in Seq(Parts) /\ Receive(buffer, x)
    BY <1>6 DEF ReadBeat, ReadPop, TypeOK
  <2>2. wire' \in Seq(Parts) /\ buffer' \in Seq(Parts) /\ owed' \in 0..MaxOwed
    BY <2>1, ReaderTypes
  <2>3. /\ task' \in {"beat-next", "pop-next"} \cup Waiting
        /\ due' \in 0..2 /\ screen' \in Seq(Parts)
        /\ due' > 0 => task' = "pop"
    BY <1>6, <2>2 DEF ReadBeat, ReadPop, TypeOK, Waiting
  <2> QED
    BY <1>1, <1>6, <2>1, <2>2, <2>3 DEF ReadBeat, ReadPop, TypeOK, Receive
<1>7. CASE TimeOut
  <2>1. HangUp /\ (Fault \/ UNCHANGED faults) /\ session' = "none"
    BY <1>7 DEF TimeOut, HangUp
  <2> QED
    BY <1>1, <1>7, <2>1, EndTypes, FaultTypes DEF TimeOut, TypeOK, Logout
<1>8. CASE RequestId \/ Write
  <2>1. <<>> \in Seq(Parts)
    OBVIOUS
  <2>2. /\ stage \in {"take", "work"} /\ stage' \in {"id", "work"}
        /\ task' \in {"beat-next", "pop-next"} \cup Waiting /\ due' \in 0..2
        /\ due' > 0 => task' = "pop"
        /\ request' \in {"none", "id", "beat", "pop"}
        /\ request' # "none" => session = "open"
        /\ buffer' = <<>>
        /\ UNCHANGED <<owed, stored, user, screen, session, wire, pending, taken, lost, faults>>
    BY <1>8 DEF RequestId, Write, Ask, TypeOK
  <2> QED
    BY <1>1, <2>1, <2>2 DEF TypeOK
<1>9. CASE Idle
  BY <1>1, <1>9 DEF Idle, TypeOK
<1> QED
  BY <1>1, <1>2, <1>3, <1>4, <1>5, <1>6, <1>7, <1>8, <1>9 DEF Run

\* A frame of the device.
LEMMA FrameTypes ==
    ASSUME TypeOK, PausedOnline, NEW m \in WifiMessages, Frame(m)
    PROVE  TypeOK' /\ PausedOnline'
<1>1. Wifi(m)
  BY DEF Frame
<1>2. CASE Reconnect(m) \/ StayDisconnected(m) \/ Stop(m) \/ Pause(m)
  BY <1>1, <1>2, OutsideTypes
<1>3. ASSUME ~Disconnected, m \notin {"Disconnected", "ConnectionInterruption"},
             paused => m # "ConnectionResumed", paused, Idle, UNCHANGED paused
      PROVE  TypeOK' /\ PausedOnline'
  <2>1. wifi' = "lost"
    BY <1>1, <1>3, WifiTypes DEF TypeOK
  <2> QED
    BY <1>3, <2>1 DEF Idle, TypeOK, PausedOnline, Disconnected, workVars, readerVars,
                      loginVars, screenVars, lineVars, queueVars
<1>4. ASSUME ~paused, Run, UNCHANGED paused
      PROVE  TypeOK' /\ PausedOnline'
  BY <1>1, <1>4, RunTypes
<1> QED
  BY <1>2, <1>3, <1>4 DEF Frame, Redis

\* What waits for a device, and what redis answers it.
LEMMA ServiceTypes ==
    ASSUME TypeOK, PausedOnline, Send \/ Clear \/ Serve
    PROVE  TypeOK' /\ PausedOnline'
<1> USE DEF workVars, readerVars, loginVars, screenVars, lineVars, queueVars
<1>1. CASE Send \/ Clear
  <2>1. pending' \in Nat /\ taken' = taken /\ pending' + taken' <= MaxMessages
    BY <1>1, Numbers DEF Send, Clear, TypeOK
  <2> QED
    BY <1>1, <2>1 DEF Send, Clear, TypeOK, PausedOnline, Disconnected
<1>2. CASE Serve
  <2>1. faults' \in 0..MaxFaults
    BY <1>2, FaultTypes DEF Serve, AnswerAuth
  <2>2. pending' \in Nat /\ taken' \in Nat /\ pending' + taken' <= MaxMessages
    <3>1. \/ pending' = pending /\ taken' = taken
          \/ pending > 0 /\ pending' = pending - 1 /\ taken' = taken + 1
      BY <1>2 DEF Serve
    <3>2. pending \in Nat /\ taken \in Nat /\ pending + taken <= MaxMessages
      BY DEF TypeOK
    <3> QED
      BY <3>1, <3>2, Numbers
  <2>3. wire' \in Seq(Parts)
    <3>1. \A s \in Seq(Parts) : wire \o s \in Seq(Parts)
      BY DEF TypeOK
    <3>2. \A kind \in Kinds : <<Plain(kind)>> \in Seq(Parts)
      BY PartsDiffer
    <3>3. <<Plain("o"), Plain("k")>> \in Seq(Parts)
      BY PartsDiffer DEF Kinds
    <3>4. \A n \in Messages \cup {0} : Whole(n) \in Seq(Parts)
      BY PartsDiffer DEF Whole
    <3>5. taken' = taken + 1 => taken' \in Messages
      <4>1. taken' <= MaxMessages
        BY <2>2, NotMore
      <4> QED
        BY <2>2, <4>1 DEF TypeOK, Messages
    <3>6. taken' = taken + 1 => <<Plain("array")>> \o Whole(0) \o Whole(taken') \in Seq(Parts)
      BY <3>2, <3>4, <3>5 DEF Kinds
    <3> QED
      BY <1>2, <3>1, <3>2, <3>3, <3>4, <3>6 DEF Serve, AnswerAuth, Answer, Kinds
  <2> QED
    BY <1>2, <2>1, <2>2, <2>3 DEF Serve, TypeOK, PausedOnline, Disconnected
<1> QED
  BY <1>1, <1>2

\* What goes wrong around the device.
LEMMA TroubleTypes ==
    ASSUME TypeOK, PausedOnline, Cut \/ Revoke \/ Restart
    PROVE  TypeOK' /\ PausedOnline'
<1> USE DEF workVars, readerVars, loginVars, screenVars, lineVars, queueVars
<1>1. faults' \in 0..MaxFaults
  BY FaultTypes DEF Cut, Revoke, Restart
<1>2. ASSUME Gone, session = "open",
             UNCHANGED <<wifi, stage, paused, workVars, readerVars, stored, screen>>,
             user' \in {"none", "half", "full"}
      PROVE  TypeOK' /\ PausedOnline'
  <2>1. /\ wire' \in Seq(Parts) /\ request' = "none"
        /\ pending' \in Nat /\ taken' \in Nat /\ pending' + taken' <= MaxMessages
        /\ lost' \in SUBSET Messages
    BY <1>2, EndTypes
  <2>2. session' = "gone"
    BY <1>2 DEF Gone
  <2> QED
    BY <1>1, <1>2, <2>1, <2>2 DEF TypeOK, PausedOnline, Disconnected
<1>3. CASE Cut
  BY <1>2, <1>3 DEF Cut, TypeOK
<1>4. CASE Revoke
  <2>1. CASE UNCHANGED <<lineVars, queueVars>>
    BY <1>1, <1>4, <2>1 DEF Revoke, TypeOK, PausedOnline, Disconnected
  <2> QED
    BY <1>2, <1>4, <2>1 DEF Revoke
<1>5. CASE Restart
  <2>1. HangUp /\ session' = "none"
    BY <1>5 DEF Restart, HangUp
  <2>2. /\ wire' \in Seq(Parts) /\ request' = "none"
        /\ pending' \in Nat /\ taken' \in Nat /\ pending' + taken' <= MaxMessages
        /\ lost' \in SUBSET Messages
    BY <2>1, EndTypes
  <2>3. ~paused' /\ paused' \in BOOLEAN /\ stage' = "offline" /\ wifi' = "configuring"
    BY <1>5 DEF Restart
  <2>4. task' = "beat-next" /\ due' = 0 /\ owed' = 0 /\ buffer' = <<>>
        /\ UNCHANGED <<stored, user, screen>>
    BY <1>5 DEF Restart, Logout
  <2>5. 0 \in 0..MaxOwed /\ <<>> \in Seq(Parts)
    BY Numbers
  <2>6. TypeOK'
    BY <1>1, <2>1, <2>2, <2>3, <2>4, <2>5 DEF TypeOK
  <2> QED
    BY <2>3, <2>6 DEF PausedOnline
<1> QED
  BY <1>3, <1>4, <1>5

\* What every step keeps.
LEMMA TypesNext ==
    ASSUME TypeOK, PausedOnline, [Next]_vars
    PROVE  TypeOK' /\ PausedOnline'
<1>1. CASE UNCHANGED vars
  BY <1>1 DEF vars, TypeOK, PausedOnline, Disconnected, workVars, readerVars, loginVars,
              screenVars, lineVars, queueVars
<1> QED
  BY <1>1, FrameTypes, ServiceTypes, TroubleTypes DEF Next

\* What the program begins with.
LEMMA TypesInit ==
    ASSUME Init
    PROVE  TypeOK /\ PausedOnline
<1>1. /\ 0 \in 0..MaxOwed /\ 0 + 0 <= MaxMessages /\ 0 \in 0..MaxFaults
      /\ <<>> \in Seq(Parts)
  BY Numbers
<1>2. ~paused /\ paused \in BOOLEAN
  BY DEF Init
<1>3. /\ wifi = "configuring" /\ stage = "offline" /\ session = "none" /\ request = "none"
      /\ task = "beat-next" /\ due = 0 /\ owed = 0 /\ faults = 0
      /\ buffer = <<>> /\ screen = <<>> /\ wire = <<>>
      /\ pending = 0 /\ taken = 0 /\ lost = {}
      /\ stored \in BOOLEAN /\ user = "none"
  BY DEF Init
<1>4. TypeOK
  BY <1>1, <1>2, <1>3 DEF TypeOK
<1> QED
  BY <1>2, <1>4 DEF PausedOnline

\* No variable loses its type, and the machines agree: there is a connection
\* exactly while the login has begun, a command only on an open one, and a
\* machine that waits for the wifi does so while it is lost
\* (beetle-pio/lib/redis-events, wifi-events).
THEOREM Types == Spec => []TypeOK
<1>1. Init => TypeOK /\ PausedOnline
  BY TypesInit
<1>2. TypeOK /\ PausedOnline /\ [Next]_vars => (TypeOK /\ PausedOnline)'
  BY TypesNext
<1> QED
  BY <1>1, <1>2, PTL DEF Spec

-----------------------------------------------------------------------------
(* What is handed over, and what is lost                                   *)

\* Only a device that waits for a message has one on the wire.
LEMMA OnlyPops ==
    ASSUME TypeOK, SignIn, AtWork, NEW m \in Messages, Part("rest", m) \in Entries(wire)
    PROVE  stage = "work" /\ task = "pop"
<1>1. PICK i \in DOMAIN wire : wire[i] = Part("rest", m)
  BY DEF Entries
<1>2. wire[i].message = m /\ wire[i].kind = "rest" /\ m # 0
  BY <1>1, PartsDiffer, Numbers
<1>3. stage = "work"
  BY <1>2 DEF SignIn
<1>4. ASSUME Short
      PROVE  FALSE
  <2>1. \A kind \in {"int", "error", "empty"} : wire # <<Plain(kind)>>
    BY <1>1, <1>2, PartsDiffer DEF Kinds
  <2> QED
    BY <1>1, <1>4, <2>1 DEF Short
<1> QED
  BY <1>3, <1>4 DEF AtWork, Reading

\* What is next stays so while nothing is shown.
LEMMA StaysNext ==
    ASSUME TypeOK, screen' = screen, taken' \in {taken, taken + 1}, NEW m \in Messages, IsNext(m)
    PROVE  IsNext(m)'
<1>1. Shown' = Shown
  BY DEF Shown
<1>2. m \in Nat /\ taken \in Nat
  BY Numbers DEF TypeOK
<1> QED
  BY <1>1, <1>2 DEF IsNext

\* A screen that stays shows a whole message still.
LEMMA StaysWhole ==
    ASSUME TypeOK, ShownIsWhole, screen' = screen, taken' \in {taken, taken + 1}
    PROVE  ShownIsWhole'
<1>1. 1..taken \subseteq 1..taken'
  BY DEF TypeOK
<1> QED
  BY <1>1 DEF ShownIsWhole

\* Messages that were taken have the number of a message.
LEMMA TakenAreMessages ==
    ASSUME TypeOK
    PROVE  1..taken \subseteq Messages /\ taken \in Nat
  BY Numbers DEF TypeOK, Messages

\* What ends on the way to a device counts as lost.
LEMMA CountedAsLost ==
    ASSUME TypeOK, SignIn, AtWork, NoneForgotten, screen' = screen, Lose(wire'),
           wire' = <<>> \/ (Entries(wire') \subseteq Entries(wire) /\ UNCHANGED <<stage, task>>)
    PROVE  NoneForgotten'
<1>1. SUFFICES ASSUME NEW m \in 1..taken'
               PROVE  \/ m \in lost'
                      \/ m <= Shown
                      \/ stage' = "work" /\ task' = "pop" /\ Part("rest", m) \in Entries(wire')
  BY DEF NoneForgotten, Shown
<1>2. m \in 1..taken \/ m \in (taken + 1)..taken'
  BY TakenAreMessages, LoseTypes
<1>3. CASE m \in (taken + 1)..taken' \/ m \in lost \/ m <= Shown
  BY <1>3 DEF Lose
<1>4. CASE m \in 1..taken /\ Part("rest", m) \in Entries(wire)
  <2>1. m \in Messages
    BY <1>4, TakenAreMessages
  <2>2. m \in lost' \/ m \in OnItsWay(wire')
    BY <1>4, <2>1 DEF Lose, OnItsWay
  <2>3. ASSUME Part("rest", m) \in Entries(wire')
        PROVE  stage' = "work" /\ task' = "pop"
    BY <2>1, <2>3, OnlyPops, Nothing
  <2> QED
    BY <2>2, <2>3 DEF OnItsWay
<1> QED
  BY <1>2, <1>3, <1>4 DEF NoneForgotten

-----------------------------------------------------------------------------
(* The connection                                                          *)

\* Hanging up leaves nothing of the connection.
LEMMA HangUpKeeps ==
    ASSUME IInv, HangUp, Logout, stage' \in {"offline", "start"}, screen' = screen
    PROVE  Kept'
<1>1. wire' = <<>> /\ request' = "none" /\ Lose(wire')
  BY DEF HangUp
<1>2. Requests' /\ AtWork'
  BY <1>1 DEF Requests, AtWork, Asking
<1>3. SignIn'
  BY <1>1 DEF SignIn, Logout
<1>4. taken' \in {taken, taken + 1}
  BY <1>1, LoseTypes DEF IInv
<1>5. ShownIsWhole'
  BY <1>4, StaysWhole DEF IInv, Kept
<1>6. NoneForgotten'
  BY <1>1, CountedAsLost DEF IInv, Kept
<1> QED
  BY <1>2, <1>3, <1>5, <1>6 DEF Kept

\* A connection that ends unnoticed leaves the beginning of an answer.
LEMMA GoneKeeps ==
    ASSUME IInv, Gone, UNCHANGED <<stage, task, due, owed, buffer, screen>>
    PROVE  Kept'
<1>1. request' = "none" /\ Lose(wire') /\ taken' \in {taken, taken + 1}
  BY LoseTypes DEF Gone, IInv
<1>2. /\ wire' \in Seq(Parts) /\ Len(wire') <= Len(wire)
      /\ DOMAIN wire = 1..Len(wire) /\ DOMAIN wire' = 1..Len(wire')
      /\ Len(wire) \in Nat /\ Len(wire') \in Nat
      /\ \A i \in DOMAIN wire' : wire'[i] = wire[i]
      /\ wire = <<>> => wire' = <<>>
  <2>1. PICK k \in 0..Len(wire) : wire' = SubSeq(wire, 1, k)
    BY DEF Gone
  <2>2. wire \in Seq(Parts) /\ DOMAIN wire = 1..Len(wire) /\ Len(wire) \in Nat
    BY DEF IInv, TypeOK
  <2> QED
    BY <2>1, <2>2, Beginning
<1>3. Requests'
  BY <1>1 DEF IInv, Kept, Requests, Asking
<1>4. SignIn'
  <2>1. ASSUME NEW i \in DOMAIN wire', stage # "work"
        PROVE  /\ wire'[i].message = 0
               /\ wire'[i] = Plain("ok") => stage # "id" /\ i = Len(wire')
    <3>1. i \in DOMAIN wire /\ i <= Len(wire') /\ i \in Nat
      BY <1>2
    <3> QED
      BY <1>2, <2>1, <3>1 DEF IInv, Kept, SignIn
  <2> QED
    BY <1>1, <1>2, <2>1 DEF IInv, Kept, SignIn
<1>5. AtWork'
  <2>1. CASE stage # "work"
    BY <2>1 DEF AtWork
  <2>2. CASE Short
    <3>1. \A kind \in Kinds : wire = <<Plain(kind)>> => wire' \in {<<>>, wire}
      BY <1>2
    <3> QED
      BY <1>2, <2>2, <3>1 DEF Short, AtWork, Kinds
  <2>3. ASSUME NEW m \in Messages, Reading(m)
        PROVE  AtWork'
    <3>1. IsNext(m)'
      BY <1>1, <2>3, StaysNext DEF IInv, Reading
    <3>2. PICK k \in 0..4 : Progress(k, m) /\ Follows(k, m)
      BY <2>3 DEF Reading
    <3>3. Progress(k, m)'
      BY <3>2 DEF Progress
    <3>4. Follows(k, m)'
      <4>1. Reply(m)' = Reply(m)
        BY DEF Reply
      <4>2. Len(wire') <= 5 - k
        BY <1>2, <3>2 DEF Follows
      <4>3. ASSUME NEW i \in DOMAIN wire'
            PROVE  wire'[i] = Reply(m)[k + i]
        <5>1. i \in DOMAIN wire
          BY <1>2
        <5> QED
          BY <1>2, <3>2, <5>1 DEF Follows
      <4> QED
        BY <4>1, <4>2, <4>3 DEF Follows
    <3> QED
      BY <1>1, <2>3, <3>1, <3>3, <3>4 DEF Reading, AtWork
  <2> QED
    BY <2>1, <2>2, <2>3 DEF IInv, Kept, AtWork
<1>7. ShownIsWhole'
  BY <1>1, StaysWhole DEF IInv, Kept
<1>8. NoneForgotten'
  <2>1. Entries(wire') \subseteq Entries(wire)
    BY <1>2 DEF Entries
  <2> QED
    BY <1>1, <2>1, CountedAsLost DEF IInv, Kept
<1> QED
  BY <1>3, <1>4, <1>5, <1>7, <1>8 DEF Kept

-----------------------------------------------------------------------------
(* What the device does                                                    *)

\* Where nothing is popped, lost or shown, it is enough to know that
\* the device does not stop to wait for a message on the wire.
LEMMA QuietKeeps ==
    ASSUME TypeOK, Kept, UNCHANGED <<screen, taken, lost>>,
           \A m \in Messages : Part("rest", m) \in Entries(wire) =>
               stage' = "work" /\ task' = "pop" /\ Part("rest", m) \in Entries(wire')
    PROVE  ShownIsWhole' /\ NoneForgotten' /\ \A m \in Messages : IsNext(m) => IsNext(m)'
<1>1. Shown' = Shown
  BY DEF Shown
<1>2. \A m \in 1..taken : m \in Messages
  BY TakenAreMessages
<1>3. NoneForgotten'
  BY <1>1, <1>2 DEF Kept, NoneForgotten
<1> QED
  BY <1>1, <1>3, StaysWhole, StaysNext DEF Kept

\* Before it works a device has no message on the wire.
LEMMA NoneBefore ==
    ASSUME TypeOK, Kept, ~(stage = "work" /\ task = "pop")
    PROVE  \A m \in Messages : Part("rest", m) \notin Entries(wire)
  BY OnlyPops DEF Kept

\* Nothing changes but the wifi.
LEMMA IdleKeeps ==
    ASSUME TypeOK, Kept,
           UNCHANGED <<stage, task, due, owed, buffer, screen, request, wire, taken, lost>>
    PROVE  Kept'
<1>1. Requests' /\ SignIn'
  BY DEF Kept, Requests, SignIn, Asking
<1>2. Shown' = Shown
  BY DEF Shown
<1>3. AtWork'
  <2>1. \A m \in Messages : IsNext(m) => IsNext(m)'
    BY <1>2 DEF IsNext
  <2>2. \A m \in Messages, k \in 0..4 :
          /\ Progress(k, m) => Progress(k, m)'
          /\ Follows(k, m) => Follows(k, m)'
    BY DEF Progress, Follows, Reply
  <2>3. \A m \in Messages : Reading(m) => Reading(m)'
    BY <2>1, <2>2 DEF Reading
  <2> QED
    BY <2>3 DEF Kept, AtWork, Short
<1>4. ShownIsWhole' /\ NoneForgotten'
  BY <1>2 DEF Kept, ShownIsWhole, NoneForgotten
<1> QED
  BY <1>1, <1>3, <1>4 DEF Kept

\* A machine without a connection, and one that is told to end or to wait.
LEMMA OutsideKeeps ==
    ASSUME IInv, NEW m \in WifiMessages,
           Reconnect(m) \/ StayDisconnected(m) \/ Stop(m) \/ Pause(m)
    PROVE  Kept' /\ screen' = screen
<1> USE DEF workVars, readerVars, loginVars, screenVars, lineVars, queueVars
<1>1. CASE Reconnect(m)
  <2>1. /\ stage \in {"offline", "backoff"} /\ stage' = "start" /\ request' = "none" /\ wire' = <<>>
        /\ task' = "beat-next" /\ due' = 0
    BY <1>1 DEF Reconnect, Disconnected, Logout, IInv, Kept, Requests, SignIn
  <2>2. Requests' /\ SignIn' /\ AtWork'
    BY <2>1 DEF Requests, SignIn, AtWork, Asking
  <2>3. ShownIsWhole' /\ NoneForgotten'
    BY <1>1, <2>1, QuietKeeps, NoneBefore DEF Reconnect, IInv
  <2> QED
    BY <1>1, <2>2, <2>3 DEF Reconnect, Kept
<1>2. CASE StayDisconnected(m) \/ Pause(m)
  BY <1>2, IdleKeeps DEF StayDisconnected, Pause, IInv
<1>3. CASE Stop(m)
  BY <1>3, HangUpKeeps DEF Stop
<1> QED
  BY <1>1, <1>2, <1>3

\* A connection, and a command that needs no answer of another before it.
LEMMA StartKeeps ==
    ASSUME IInv, Connect \/ ConnectFails \/ RequestId
    PROVE  Kept' /\ screen' = screen
<1> USE DEF workVars, readerVars, loginVars, screenVars, lineVars, queueVars
<1>1. /\ stage \in {"start", "take"} /\ stage' \in {"login", "burn-in", "backoff", "id"}
      /\ request' \in {stage', "none"}
      /\ stage' = "backoff" => request' = "none"
      /\ UNCHANGED <<wire, task, due, screen, taken, lost>>
  BY DEF Connect, ConnectFails, RequestId, Ask, IInv, Kept, Requests
<1>2. wire = <<>> /\ task = "beat-next" /\ due = 0
  BY <1>1 DEF IInv, Kept, SignIn
<1>3. Requests' /\ AtWork'
  BY <1>1 DEF Requests, AtWork, Asking
<1>4. SignIn'
  BY <1>1, <1>2 DEF SignIn
<1>5. ShownIsWhole' /\ NoneForgotten'
  BY <1>1, QuietKeeps, NoneBefore DEF IInv
<1> QED
  BY <1>1, <1>3, <1>4, <1>5 DEF Kept

\* Reading takes the first part from the wire.
LEMMA Taken ==
    ASSUME TypeOK, NEW b \in Seq(Parts), NEW x, Receive(b, x)
    PROVE  /\ wire # <<>> /\ x = wire[1] /\ x \in Parts /\ 1 \in DOMAIN wire
           /\ Len(wire) \in Nat \ {0} /\ Len(wire') = Len(wire) - 1
           /\ DOMAIN wire = 1..Len(wire) /\ DOMAIN wire' = 1..(Len(wire) - 1)
           /\ \A i \in DOMAIN wire' : wire'[i] = wire[i + 1] /\ i + 1 \in DOMAIN wire
           /\ Entries(wire) = {x} \cup Entries(wire')
           /\ Len(wire) = 1 => wire' = <<>>
           /\ UNCHANGED <<session, taken, lost>>
<1>1. wire # <<>> /\ x = Head(wire) /\ wire' = Tail(wire) /\ wire \in Seq(Parts)
  BY DEF Receive, TypeOK
<1>2. Len(wire) = 1 => wire' = <<>>
  BY <1>1
<1> QED
  BY <1>1, <1>2, First DEF Receive, queueVars

\* The answer to AUTH: with an OK that is seen as one, nothing is left over.
LEMMA ReadOkKeeps ==
    ASSUME IInv, NEW x, ReadOk(x)
    PROVE  Kept' /\ screen' = screen
<1> USE DEF workVars, readerVars, loginVars, screenVars, lineVars, queueVars
<1>1. TypeOK /\ Receive(<<>>, x) /\ <<>> \in Seq(Parts)
  BY DEF ReadOk, IInv
<1>2. /\ wire # <<>> /\ x = wire[1] /\ x \in Parts /\ 1 \in DOMAIN wire
      /\ Len(wire) \in Nat \ {0} /\ Len(wire') = Len(wire) - 1
      /\ DOMAIN wire = 1..Len(wire) /\ DOMAIN wire' = 1..(Len(wire) - 1)
      /\ \A i \in DOMAIN wire' : wire'[i] = wire[i + 1] /\ i + 1 \in DOMAIN wire
      /\ Entries(wire) = {x} \cup Entries(wire')
      /\ Len(wire) = 1 => wire' = <<>>
      /\ UNCHANGED <<session, taken, lost>>
  BY <1>1, Taken
<1>3. /\ stage \in Asking /\ UNCHANGED <<task, due, request, screen>>
      /\ task = "beat-next" /\ due = 0
      /\ stage' = stage \/ (x = Plain("ok") /\ owed = 0 /\ stage' \in {"take", "work"})
  BY DEF ReadOk, IInv, Kept, SignIn, Asking
<1>4. ASSUME stage' # stage
      PROVE  /\ wire' = <<>> /\ request' = "none" /\ owed' = 0
             /\ stage' \in {"take", "work"}
  <2>1. wire[1] = Plain("ok") /\ owed = 0
    BY <1>2, <1>3, <1>4
  <2>2. Len(wire) = 1 /\ request = "none"
    BY <1>2, <1>3, <2>1 DEF IInv, Kept, SignIn, Asking
  <2>3. x.kind = "ok"
    BY <1>2, <2>1, PartsDiffer DEF Kinds
  <2>4. owed' = owed
    BY <1>1, <2>1, <2>3 DEF Receive, Fill, Owe
  <2> QED
    BY <1>2, <1>3, <1>4, <2>1, <2>2, <2>4
<1>5. Requests'
  BY <1>3, <1>4 DEF IInv, Kept, Requests, Asking
<1>6. SignIn'
  <2>1. ASSUME NEW i \in DOMAIN wire', stage' = stage
        PROVE  /\ wire'[i].message = 0
               /\ wire'[i] = Plain("ok") => stage' # "id" /\ request' = "none" /\ i = Len(wire')
    BY <1>2, <1>3, <2>1 DEF IInv, Kept, SignIn, Asking
  <2>2. stage' = stage => stage' \notin {"offline", "backoff", "start", "take"}
    BY <1>3 DEF Asking
  <2> QED
    BY <1>3, <1>4, <2>1, <2>2 DEF SignIn
<1>7. AtWork'
  BY <1>3, <1>4 DEF AtWork, Short, Asking
<1>8. ShownIsWhole' /\ NoneForgotten'
  BY <1>1, <1>2, <1>3, QuietKeeps, NoneBefore DEF Asking, IInv
<1> QED
  BY <1>3, <1>5, <1>6, <1>7, <1>8 DEF Kept

\* The answer of the pool.
LEMMA ReadIdKeeps ==
    ASSUME IInv, NEW x, ReadId(x)
    PROVE  Kept' /\ screen' = screen
<1> USE DEF workVars, readerVars, loginVars, screenVars, lineVars, queueVars
<1>1. TypeOK /\ Receive(buffer, x) /\ buffer \in Seq(Parts)
  BY DEF ReadId, IInv, TypeOK
<1>2. /\ x = wire[1] /\ 1 \in DOMAIN wire /\ Entries(wire) = {x} \cup Entries(wire')
      /\ \A i \in DOMAIN wire' : wire'[i] = wire[i + 1] /\ i + 1 \in DOMAIN wire
      /\ UNCHANGED <<taken, lost>>
  BY <1>1, Taken
<1>3. /\ stage = "id" /\ stage' \in {"id", "login"} /\ UNCHANGED <<task, due, screen>>
      /\ task = "beat-next" /\ due = 0
      /\ request' \in {stage', "none"}
  BY DEF ReadId, IInv, Kept, Requests, SignIn
<1>4. Requests' /\ AtWork'
  BY <1>3 DEF Requests, AtWork, Asking
<1>5. SignIn'
  <2>1. \A i \in DOMAIN wire : wire[i].message = 0 /\ wire[i] # Plain("ok")
    BY <1>3 DEF IInv, Kept, SignIn
  <2> QED
    BY <1>2, <1>3, <2>1 DEF SignIn
<1>6. ShownIsWhole' /\ NoneForgotten'
  BY <1>1, <1>2, <1>3, QuietKeeps, NoneBefore DEF IInv
<1> QED
  BY <1>3, <1>4, <1>5, <1>6 DEF Kept

\* The next command finds nothing of the last one's answer.
LEMMA WriteKeeps ==
    ASSUME IInv, Write
    PROVE  Kept' /\ screen' = screen
<1> USE DEF workVars, readerVars, loginVars, screenVars, lineVars, queueVars
<1>1. /\ stage = "work" /\ stage' = stage /\ task \notin Waiting /\ task' \in Waiting
      /\ request' \in {task', "none"} /\ due' = 0
      /\ UNCHANGED <<owed, screen, wire, taken, lost>>
  BY DEF Write, Ask
<1>2. wire = <<>> /\ owed = 0
  BY <1>1 DEF IInv, Kept, AtWork, Short, Reading
<1>3. Requests' /\ SignIn' /\ AtWork'
  BY <1>1, <1>2 DEF Requests, SignIn, AtWork, Short, Asking
<1>4. ShownIsWhole' /\ NoneForgotten'
  BY <1>1, QuietKeeps, NoneBefore DEF IInv
<1> QED
  BY <1>1, <1>3, <1>4 DEF Kept

\* What is on the wire when a part of a short answer is read.
LEMMA ShortWire ==
    ASSUME TypeOK, Short, wire # <<>>
    PROVE  /\ Len(wire) = 1 /\ owed = 0 /\ due = 0
           /\ \/ task = "beat" /\ wire[1] = Plain("int")
              \/ task = "pop" /\ wire[1] \in {Plain("error"), Plain("empty")}
  BY DEF Short

\* The heartbeat's answer is an integer, and nothing else.
LEMMA ReadBeatKeeps ==
    ASSUME IInv, NEW x, ReadBeat(x)
    PROVE  Kept' /\ screen' = screen
<1> USE DEF workVars, readerVars, loginVars, screenVars, lineVars, queueVars
<1>1. /\ TypeOK /\ Receive(buffer, x) /\ buffer \in Seq(Parts)
      /\ stage = "work" /\ task = "beat" /\ UNCHANGED <<stage, due, screen, request>>
  BY DEF ReadBeat, IInv, TypeOK
<1>2. /\ wire # <<>> /\ x = wire[1] /\ Entries(wire) = {x} \cup Entries(wire')
      /\ Len(wire) = 1 => wire' = <<>>
      /\ UNCHANGED <<taken, lost>>
  BY <1>1, Taken
<1>3. Len(wire) = 1 /\ owed = 0 /\ due = 0 /\ x = Plain("int")
  <2>1. Short
    BY <1>1 DEF IInv, Kept, AtWork, Reading
  <2> QED
    BY <1>1, <1>2, <2>1, ShortWire
<1>4. x.kind = "int"
  BY <1>3, PartsDiffer DEF Kinds
<1>5. owed' = 0 /\ Event(x) = "int"
  BY <1>1, <1>3, <1>4 DEF Receive, Fill, Owe, Event
<1>6. wire' = <<>> /\ task' = "pop-next" /\ due' = 0 /\ request' = "none"
  BY <1>1, <1>2, <1>3, <1>5 DEF ReadBeat, IInv, Kept, Requests
<1>7. Requests' /\ SignIn' /\ AtWork'
  BY <1>1, <1>5, <1>6 DEF Requests, SignIn, AtWork, Short, Asking
<1>8. ShownIsWhole' /\ NoneForgotten'
  BY <1>1, <1>2, QuietKeeps, NoneBefore DEF IInv
<1> QED
  BY <1>1, <1>7, <1>8 DEF Kept

\* An error, or that there is no message.
LEMMA ReadShortPop ==
    ASSUME IInv, NEW x, ReadPop(x), Short
    PROVE  Kept' /\ screen' = screen
<1> USE DEF workVars, readerVars, loginVars, screenVars, lineVars, queueVars
<1>1. /\ TypeOK /\ Receive(buffer, x) /\ buffer \in Seq(Parts)
      /\ stage = "work" /\ task = "pop" /\ UNCHANGED <<stage, request>>
  BY DEF ReadPop, IInv, TypeOK
<1>2. /\ wire # <<>> /\ x = wire[1] /\ Entries(wire) = {x} \cup Entries(wire')
      /\ Len(wire) = 1 => wire' = <<>>
      /\ UNCHANGED <<taken, lost>>
  BY <1>1, Taken
<1>3. Len(wire) = 1 /\ owed = 0 /\ due = 0 /\ x \in {Plain("error"), Plain("empty")}
  BY <1>1, <1>2, ShortWire
<1>4. x.kind \in {"error", "empty"}
  BY <1>3, PartsDiffer DEF Kinds
<1>5. owed' = 0 /\ Event(x) \in {"string", "empty"}
  BY <1>1, <1>3, <1>4 DEF Receive, Fill, Owe, Event
<1>6. /\ wire' = <<>> /\ due' = 0 /\ screen' = screen /\ request' = "none"
      /\ task' \in {"pop", "beat-next"}
  BY <1>1, <1>2, <1>3, <1>5 DEF ReadPop, IInv, Kept, Requests
<1>7. Requests' /\ SignIn' /\ AtWork'
  BY <1>1, <1>5, <1>6 DEF Requests, SignIn, AtWork, Short, Asking
<1>8. \A m \in Messages : Part("rest", m) \notin Entries(wire)
  <2>1. \A m \in Messages : Part("rest", m) # x
    BY <1>4, PartsDiffer
  <2> QED
    BY <1>2, <1>6, <2>1, Nothing
<1>9. ShownIsWhole' /\ NoneForgotten'
  BY <1>1, <1>2, <1>6, <1>8, QuietKeeps DEF IInv
<1> QED
  BY <1>6, <1>7, <1>9 DEF Kept

\* A part of a message's answer brings the device one further, and the last
\* one shows the message.
LEMMA NextPart ==
    ASSUME TypeOK, NEW x, ReadPop(x), NEW m \in Messages, NEW k \in 0..4,
           Progress(k, m), x = Reply(m)[k + 1]
    PROVE  /\ k < 4 => Progress(k + 1, m)' /\ UNCHANGED <<task, screen>>
           /\ k = 4 => /\ task' = "beat-next" /\ due' = 0 /\ owed' = 0
                       /\ screen' = Whole(m) /\ x = Part("rest", m)
           /\ k # 4 => \A n \in Messages : x # Part("rest", n)
<1>1. Receive(buffer, x) /\ Fill(buffer, x) /\ Owe(x) /\ owed \in Nat
  BY DEF ReadPop, Receive, Fill, TypeOK
<1>2. \A n \in Messages : Part("rest", n) # Plain("rest") /\ Part("rest", n).kind = "rest"
  BY PartsDiffer, Numbers DEF Kinds
<1>3. CASE k = 0
  <2>1. x = Plain("array") /\ x.kind = "array" /\ due = 0 /\ owed = 0
    BY <1>3, PartsDiffer DEF Reply, Progress, Kinds
  <2>2. Event(x) = "array" /\ owed' = 0
    BY <1>1, <2>1 DEF Event, Owe
  <2>3. due' = 2 /\ UNCHANGED <<task, screen>>
    BY <2>2 DEF ReadPop
  <2> QED
    BY <1>2, <1>3, <2>1, <2>2, <2>3 DEF Progress
<1>4. CASE k = 1
  <2>1. x = Plain("head") /\ x.kind = "head" /\ due = 2 /\ owed = 0
    BY <1>4, PartsDiffer DEF Reply, Progress, Kinds
  <2>2. Event(x) = "none" /\ owed' > 0
    BY <1>1, <2>1, Numbers DEF Event, Owe
  <2>3. due' = 2 /\ UNCHANGED <<task, screen>>
    BY <2>1, <2>2 DEF ReadPop
  <2> QED
    BY <1>2, <1>4, <2>1, <2>2, <2>3 DEF Progress
<1>5. CASE k = 2
  <2>1. x = Plain("rest") /\ x.kind = "rest" /\ due = 2
    BY <1>5, PartsDiffer DEF Reply, Progress, Kinds
  <2>2. Event(x) = "string" /\ owed' = 0
    BY <1>1, <2>1 DEF Event, Owe
  <2>3. due' = 1 /\ UNCHANGED <<task, screen>>
    BY <2>1, <2>2 DEF ReadPop
  <2> QED
    BY <1>2, <1>5, <2>1, <2>2, <2>3 DEF Progress
<1>6. CASE k = 3
  <2>1. x = Part("head", m) /\ x.kind = "head" /\ due = 1 /\ owed = 0
    BY <1>6, PartsDiffer DEF Reply, Progress
  <2>2. Event(x) = "none" /\ owed' > 0
    BY <1>1, <2>1, Numbers DEF Event, Owe
  <2>3. due' = 1 /\ UNCHANGED <<task, screen>>
    BY <2>1, <2>2 DEF ReadPop
  <2>4. buffer' = <<x>>
    BY <1>1, <2>1 DEF Fill
  <2> QED
    BY <1>2, <1>6, <2>1, <2>2, <2>3, <2>4 DEF Progress
<1>7. CASE k = 4
  <2>1. x = Part("rest", m) /\ x.kind = "rest" /\ due = 1 /\ owed > 0 /\ buffer = <<Part("head", m)>>
    BY <1>2, <1>7 DEF Reply, Progress
  <2>2. Event(x) = "string" /\ owed' = 0
    BY <1>1, <2>1 DEF Event, Owe
  <2>3. buffer' = Append(buffer, x)
    BY <1>1, <2>1 DEF Fill
  <2>4. buffer' = Whole(m)
    BY <2>1, <2>3, Pair, PartsDiffer DEF Whole
  <2>5. task' = "beat-next" /\ due' = 0 /\ screen' = buffer'
    BY <2>1, <2>2 DEF ReadPop
  <2> QED
    BY <1>7, <2>1, <2>2, <2>4, <2>5
<1> QED
  BY <1>3, <1>4, <1>5, <1>6, <1>7

\* What is shown of a whole message.
LEMMA ShownOfWhole ==
    ASSUME NEW m \in Messages, screen' = Whole(m)
    PROVE  Shown' = m
<1>1. screen' # <<>> /\ screen'[1] = Part("head", m)
  BY DEF Whole
<1> QED
  BY <1>1, PartsDiffer DEF Shown

\* Shown is the number of a message that was taken, or 0.
LEMMA ShownIsNumber ==
    ASSUME TypeOK, ShownIsWhole
    PROVE  Shown \in 0..taken /\ Shown \in Nat
<1>1. CASE screen # <<>>
  <2>1. PICK m \in 1..taken : screen = Whole(m)
    BY <1>1 DEF ShownIsWhole
  <2>2. m \in Messages /\ m \in 0..taken /\ m \in Nat
    BY TakenAreMessages
  <2>3. screen[1] = Part("head", m)
    BY <2>1 DEF Whole
  <2> QED
    BY <1>1, <2>2, <2>3, PartsDiffer DEF Shown
<1> QED
  BY <1>1, TakenAreMessages DEF Shown

\* A message's answer, while there is more of it to come.
LEMMA ReadMore ==
    ASSUME IInv, NEW x, ReadPop(x), NEW m \in Messages, IsNext(m), request = "none",
           NEW k \in 0..3, Progress(k, m), Follows(k, m)
    PROVE  Kept' /\ screen' = screen
<1> USE DEF workVars, readerVars, loginVars, screenVars, lineVars, queueVars
<1>1. /\ TypeOK /\ Receive(buffer, x) /\ buffer \in Seq(Parts)
      /\ stage = "work" /\ task = "pop" /\ UNCHANGED <<stage, request>>
  BY DEF ReadPop, IInv, TypeOK
<1>2. /\ x = wire[1] /\ 1 \in DOMAIN wire
      /\ Len(wire) \in Nat \ {0} /\ Len(wire') = Len(wire) - 1
      /\ DOMAIN wire' = 1..(Len(wire) - 1)
      /\ \A i \in DOMAIN wire' : wire'[i] = wire[i + 1] /\ i + 1 \in DOMAIN wire
      /\ Entries(wire) = {x} \cup Entries(wire')
      /\ UNCHANGED <<taken, lost>>
  BY <1>1, Taken
<1>3. x = Reply(m)[k + 1]
  BY <1>2 DEF Follows
<1>4. /\ Progress(k + 1, m)' /\ UNCHANGED <<task, screen>>
      /\ \A n \in Messages : x # Part("rest", n)
  BY <1>1, <1>3, NextPart
<1>5. Follows(k + 1, m)'
  <2>1. Reply(m)' = Reply(m)
    BY DEF Reply
  <2>2. Len(wire') <= 5 - (k + 1)
    BY <1>2 DEF Follows
  <2>3. ASSUME NEW i \in DOMAIN wire'
        PROVE  wire'[i] = Reply(m)[(k + 1) + i]
    <3>1. i + 1 \in DOMAIN wire /\ wire'[i] = wire[i + 1] /\ k + (i + 1) = (k + 1) + i
      BY <1>2
    <3> QED
      BY <3>1 DEF Follows
  <2> QED
    BY <2>1, <2>2, <2>3 DEF Follows
<1>6. ShownIsWhole' /\ NoneForgotten' /\ IsNext(m)'
  <2>1. \A n \in Messages : Part("rest", n) \in Entries(wire) => Part("rest", n) \in Entries(wire')
    BY <1>2, <1>4
  <2> QED
    BY <1>1, <1>2, <1>4, <2>1, QuietKeeps DEF IInv
<1>7. k + 1 \in 0..4
  OBVIOUS
<1>8. Requests' /\ SignIn'
  BY <1>1 DEF Requests, SignIn, Asking
<1>9. Reading(m)'
  BY <1>1, <1>4, <1>5, <1>6, <1>7 DEF Reading
<1> QED
  BY <1>4, <1>6, <1>8, <1>9 DEF Kept, AtWork

\* The end of a message's answer.
LEMMA ReadLast ==
    ASSUME IInv, NEW x, ReadPop(x), NEW m \in Messages, IsNext(m), request = "none",
           Progress(4, m), Follows(4, m)
    PROVE  Kept' /\ Shows(m)
<1> USE DEF workVars, readerVars, loginVars, screenVars, lineVars, queueVars
<1>1. /\ TypeOK /\ Receive(buffer, x) /\ buffer \in Seq(Parts)
      /\ stage = "work" /\ task = "pop" /\ UNCHANGED <<stage, request>>
  BY DEF ReadPop, IInv, TypeOK
<1>2. /\ x = wire[1] /\ 1 \in DOMAIN wire /\ Len(wire) \in Nat \ {0}
      /\ Entries(wire) = {x} \cup Entries(wire')
      /\ Len(wire) = 1 => wire' = <<>>
      /\ UNCHANGED <<taken, lost>>
  BY <1>1, Taken
<1>3. x = Reply(m)[4 + 1] /\ Len(wire) = 1 /\ wire' = <<>>
  <2>1. wire[1] = Reply(m)[4 + 1]
    BY <1>2 DEF Follows
  <2>2. Len(wire) <= 1
    BY DEF Follows
  <2>3. Len(wire) = 1
    <3>1. \A n \in Nat \ {0} : n <= 1 => n = 1
      OBVIOUS
    <3>2. Len(wire) \in Nat \ {0}
      BY <1>2
    <3> QED
      BY <2>2, <3>1, <3>2
  <2> QED
    BY <1>2, <2>1, <2>3
<1>4. /\ task' = "beat-next" /\ due' = 0 /\ owed' = 0
      /\ screen' = Whole(m) /\ x = Part("rest", m)
  BY <1>1, <1>3, NextPart
<1>5. Shown' = m /\ Shown < m /\ m <= taken /\ m \in 1..taken
  BY <1>4, ShownOfWhole, Numbers DEF IsNext, Messages, IInv, TypeOK
<1>6. Entries(wire) = {Part("rest", m)}
  BY <1>2, <1>3, <1>4, Nothing
<1>7. Requests' /\ SignIn' /\ AtWork'
  BY <1>1, <1>3, <1>4 DEF Requests, SignIn, AtWork, Short, Asking
<1>9. ShownIsWhole'
  BY <1>2, <1>4, <1>5 DEF ShownIsWhole
<1>10. NoneForgotten'
  <2> SUFFICES ASSUME NEW n \in 1..taken
               PROVE  n \in lost \/ n <= m
    BY <1>2, <1>5 DEF NoneForgotten
  <2>1. Part("rest", n) \in Entries(wire) => n = m
    <3>1. n \in Messages
      BY Numbers DEF IInv, TypeOK, Messages
    <3>2. Part("rest", n).message = n /\ Part("rest", m).message = m
      BY <3>1, PartsDiffer
    <3> QED
      BY <1>6, <3>2
  <2>2. n <= Shown => n <= m
    <3>1. Shown \in Nat
      BY ShownIsNumber DEF IInv, Kept
    <3> QED
      BY <1>5, <3>1 DEF Messages
  <2> QED
    BY <2>1, <2>2 DEF IInv, Kept, NoneForgotten
<1> QED
  BY <1>2, <1>3, <1>5, <1>6, <1>7, <1>9, <1>10 DEF Kept, Shows

\* A part of the answer to a pop.
LEMMA ReadPopKeeps ==
    ASSUME IInv, NEW x, ReadPop(x)
    PROVE  Kept' /\ (screen' = screen \/ \E n \in Messages : Shows(n))
<1>1. stage = "work"
  BY DEF ReadPop
<1>2. CASE Short
  BY <1>2, ReadShortPop
<1>3. ASSUME NEW m \in Messages, Reading(m)
      PROVE  Kept' /\ (screen' = screen \/ \E n \in Messages : Shows(n))
  <2>1. PICK k \in 0..4 : Progress(k, m) /\ Follows(k, m)
    BY <1>3 DEF Reading
  <2>2. IsNext(m) /\ request = "none"
    BY <1>3 DEF Reading
  <2>3. CASE k = 4
    BY <2>1, <2>2, <2>3, ReadLast
  <2>4. CASE k \in 0..3
    BY <2>1, <2>2, <2>4, ReadMore
  <2> QED
    BY <2>3, <2>4
<1> QED
  BY <1>1, <1>2, <1>3 DEF IInv, Kept, AtWork

\* A frame of the device.
LEMMA FrameKeeps ==
    ASSUME IInv, NEW m \in WifiMessages, Frame(m)
    PROVE  Kept' /\ (screen' = screen \/ \E n \in Messages : Shows(n))
<1>1. CASE Reconnect(m) \/ StayDisconnected(m) \/ Stop(m) \/ Pause(m)
  BY <1>1, OutsideKeeps
<1>2. CASE Idle
  BY <1>2, IdleKeeps DEF Idle, IInv, workVars, readerVars, loginVars, screenVars,
                         lineVars, queueVars
<1>3. CASE Connect \/ ConnectFails \/ RequestId
  BY <1>3, StartKeeps
<1>4. CASE Write
  BY <1>4, WriteKeeps
<1>5. CASE TimeOut
  BY <1>5, HangUpKeeps DEF TimeOut, screenVars
<1>6. ASSUME NEW x \in Entries(wire), ReadOk(x) \/ ReadId(x) \/ ReadBeat(x) \/ ReadPop(x)
      PROVE  Kept' /\ (screen' = screen \/ \E n \in Messages : Shows(n))
  BY <1>6, ReadOkKeeps, ReadIdKeeps, ReadBeatKeeps, ReadPopKeeps
<1> QED
  BY <1>1, <1>2, <1>3, <1>4, <1>5, <1>6 DEF Frame, Redis, Run

-----------------------------------------------------------------------------
(* What the others do                                                      *)

\* What waits in the list is no concern of the device.
LEMMA ListKeeps ==
    ASSUME IInv, Send \/ Clear
    PROVE  Kept' /\ screen' = screen
  BY IdleKeeps DEF Send, Clear, IInv, workVars, readerVars, loginVars, screenVars, lineVars

\* An answer goes behind what is on the wire.
LEMMA Answers ==
    ASSUME TypeOK, NEW s \in Seq(Parts), Answer(s)
    PROVE  /\ DOMAIN wire = 1..Len(wire) /\ DOMAIN s = 1..Len(s) /\ DOMAIN wire' = 1..Len(wire')
           /\ Len(wire) \in Nat /\ Len(s) \in Nat /\ Len(wire') = Len(wire) + Len(s)
           /\ \A i \in DOMAIN wire : i \in DOMAIN wire' /\ wire'[i] = wire[i]
           /\ \A i \in DOMAIN wire' : i \in DOMAIN wire \/ i - Len(wire) \in DOMAIN s
           /\ \A j \in DOMAIN s : wire'[Len(wire) + j] = s[j]
           /\ wire = <<>> => wire' = s
<1>1. wire \in Seq(Parts) /\ wire' = wire \o s
  BY DEF Answer, TypeOK
<1>2. /\ DOMAIN wire = 1..Len(wire) /\ DOMAIN s = 1..Len(s) /\ DOMAIN wire' = 1..Len(wire')
      /\ Len(wire) \in Nat /\ Len(s) \in Nat /\ Len(wire') = Len(wire) + Len(s)
      /\ wire = <<>> => wire' = s
  BY <1>1
<1>3. /\ \A i \in DOMAIN wire : wire'[i] = wire[i]
      /\ \A j \in DOMAIN s : wire'[Len(wire) + j] = s[j]
  BY <1>1
<1>4. /\ \A i \in DOMAIN wire : i \in DOMAIN wire'
      /\ \A i \in DOMAIN wire' : i \in DOMAIN wire \/ i - Len(wire) \in DOMAIN s
  BY <1>2
<1> QED
  BY <1>2, <1>3, <1>4

\* A device that waits to be let in gets an answer without a message, and an
\* OK only at its end.
LEMMA LetIn ==
    ASSUME IInv, request \in Asking \cup {"id"}, request' = "none", NEW s \in Seq(Parts), Answer(s),
           \A j \in DOMAIN s : s[j].message = 0 /\
               (s[j] = Plain("ok") => j = Len(s) /\ stage # "id"),
           UNCHANGED <<stage, task, due, screen, taken, lost>>
    PROVE  Kept'
<1>1. stage = request /\ stage \in Asking \cup {"id"}
  BY DEF IInv, Kept, Requests, Asking, TypeOK
<1>2. /\ DOMAIN wire = 1..Len(wire) /\ DOMAIN s = 1..Len(s) /\ DOMAIN wire' = 1..Len(wire')
      /\ Len(wire) \in Nat /\ Len(s) \in Nat /\ Len(wire') = Len(wire) + Len(s)
      /\ \A i \in DOMAIN wire : i \in DOMAIN wire' /\ wire'[i] = wire[i]
      /\ \A i \in DOMAIN wire' : i \in DOMAIN wire \/ i - Len(wire) \in DOMAIN s
      /\ \A j \in DOMAIN s : wire'[Len(wire) + j] = s[j]
  BY Answers DEF IInv
<1>3. Requests' /\ AtWork'
  BY <1>1 DEF Requests, AtWork, Asking
<1>4. ASSUME NEW i \in DOMAIN wire'
      PROVE  /\ wire'[i].message = 0
             /\ wire'[i] = Plain("ok") => stage # "id" /\ i = Len(wire')
  <2>1. CASE i \in DOMAIN wire
    <3>1. wire[i].message = 0 /\ wire[i] # Plain("ok")
      BY <1>1, <2>1 DEF IInv, Kept, SignIn, Asking
    <3> QED
      BY <1>2, <2>1, <3>1
  <2>2. CASE i - Len(wire) \in DOMAIN s
    <3>1. wire'[i] = s[i - Len(wire)]
      BY <1>2, <2>2
    <3> QED
      BY <1>2, <2>2, <3>1
  <2> QED
    BY <1>2, <2>1, <2>2
<1>5. SignIn'
  <2>1. task = "beat-next" /\ due = 0 /\ stage \notin {"offline", "backoff", "start", "take"}
    BY <1>1 DEF IInv, Kept, SignIn, Asking
  <2> QED
    BY <1>4, <2>1 DEF SignIn
<1>6. ShownIsWhole' /\ NoneForgotten'
  BY <1>1, QuietKeeps, NoneBefore DEF IInv, Asking
<1> QED
  BY <1>3, <1>5, <1>6 DEF Kept

\* The five parts of an answer with a message.
LEMMA FiveParts ==
    ASSUME NEW m \in Messages
    PROVE  <<Plain("array")>> \o Whole(0) \o Whole(m) = Reply(m) /\ Reply(m) \in Seq(Parts)
<1> DEFINE a == <<Plain("array")>>
           w == <<Plain("head"), Plain("rest")>>
           v == <<Part("head", m), Part("rest", m)>>
           s == a \o w \o v
           t == Reply(m)
<1>1. /\ Plain("array") \in Parts /\ Plain("head") \in Parts /\ Plain("rest") \in Parts
      /\ Part("head", m) \in Parts /\ Part("rest", m) \in Parts
  BY PartsDiffer DEF Kinds
<1>2. a \in Seq(Parts) /\ w \in Seq(Parts) /\ v \in Seq(Parts)
  BY <1>1
<1>3. s \in Seq(Parts) /\ Len(s) = 5
  BY <1>2
<1>4. t \in Seq(Parts) /\ Len(t) = 5
  BY <1>1 DEF Reply
<1>5. s[1] = t[1] /\ s[2] = t[2] /\ s[3] = t[3] /\ s[4] = t[4] /\ s[5] = t[5]
  BY <1>2 DEF Reply
<1>6. Whole(0) = w /\ Whole(m) = v
  BY DEF Whole, Plain
<1> HIDE DEF s, t
<1>7. \A i \in 1..Len(s) : s[i] = t[i]
  <2>1. \A i \in 1..5 : i = 1 \/ i = 2 \/ i = 3 \/ i = 4 \/ i = 5
    OBVIOUS
  <2> QED
    BY <1>3, <1>5, <2>1
<1>8. s = t
  BY <1>3, <1>4, <1>7, SeqEqual
<1> QED
  BY <1>4, <1>6, <1>8 DEF s, t

\* Redis answers.
LEMMA ServeKeeps ==
    ASSUME IInv, Serve
    PROVE  Kept' /\ screen' = screen
<1> USE DEF workVars, readerVars, loginVars, screenVars, lineVars, queueVars
<1>1. /\ request # "none" /\ request' = "none"
      /\ UNCHANGED <<stage, task, due, owed, buffer, screen, lost>>
  BY DEF Serve
<1>2. request \in Asking \cup {"id", "beat", "pop"}
  BY <1>1 DEF IInv, TypeOK, Asking
<1>3. CASE request \in Asking
  <2>1. taken' = taken /\ AnswerAuth
    BY <1>3 DEF Serve, Asking
  <2>2. stage # "id"
    BY <1>1, <1>3 DEF IInv, Kept, Requests, Asking
  <2>3. PICK s \in {<<Plain("ok")>>, <<Plain("o"), Plain("k")>>, <<Plain("wrongpass")>>} : Answer(s)
    BY <2>1 DEF AnswerAuth
  <2>4. /\ s \in Seq(Parts)
        /\ \A j \in DOMAIN s : s[j].message = 0 /\ (s[j] = Plain("ok") => j = Len(s))
    <3>1. /\ Plain("ok") \in Parts /\ Plain("o") \in Parts /\ Plain("k") \in Parts
          /\ Plain("wrongpass") \in Parts
          /\ Plain("ok").message = 0 /\ Plain("o").message = 0 /\ Plain("k").message = 0
          /\ Plain("wrongpass").message = 0
          /\ Plain("o") # Plain("ok") /\ Plain("k") # Plain("ok") /\ Plain("wrongpass") # Plain("ok")
      BY PartsDiffer DEF Kinds
    <3>2. CASE s \in {<<Plain("ok")>>, <<Plain("wrongpass")>>}
      BY <3>1, <3>2
    <3>3. CASE s = <<Plain("o"), Plain("k")>>
      <4>1. \A j \in DOMAIN s : s[j] \in {Plain("o"), Plain("k")}
        BY <3>3
      <4>2. s \in Seq(Parts)
        BY <3>1, <3>3
      <4> QED
        BY <3>1, <4>1, <4>2
    <3> QED
      BY <2>3, <3>2, <3>3
  <2> QED
    BY <1>1, <1>3, <2>1, <2>2, <2>3, <2>4, LetIn
<1>4. CASE request = "id"
  <2>1. taken' = taken
    BY <1>4 DEF Serve, Asking
  <2>2. PICK s \in {Whole(0), <<Plain("nil")>>} : Answer(s)
    BY <1>4 DEF Serve, Asking
  <2>3. s \in Seq(Parts) /\ \A j \in DOMAIN s : s[j].message = 0 /\ s[j] # Plain("ok")
    <3>1. /\ Plain("nil") \in Parts /\ Part("head", 0) \in Parts /\ Part("rest", 0) \in Parts
          /\ Plain("nil").message = 0 /\ Part("head", 0).message = 0 /\ Part("rest", 0).message = 0
          /\ Plain("nil") # Plain("ok") /\ Part("head", 0) # Plain("ok") /\ Part("rest", 0) # Plain("ok")
      BY PartsDiffer DEF Kinds
    <3>2. CASE s = <<Plain("nil")>>
      BY <3>1, <3>2
    <3>3. CASE s = <<Part("head", 0), Part("rest", 0)>>
      <4>1. \A j \in DOMAIN s : s[j] \in {Part("head", 0), Part("rest", 0)}
        BY <3>3
      <4>2. s \in Seq(Parts)
        BY <3>1, <3>3
      <4> QED
        BY <3>1, <4>1, <4>2
    <3> QED
      BY <2>2, <3>2, <3>3 DEF Whole
  <2> QED
    BY <1>1, <1>4, <2>1, <2>2, <2>3, LetIn
<1>5. ASSUME request \in {"beat", "pop"}
      PROVE  stage = "work" /\ task = request /\ wire = <<>> /\ Short
  BY <1>1, <1>5 DEF IInv, Kept, Requests, AtWork, Reading, Asking, TypeOK
<1>6. ASSUME request \in {"beat", "pop"}
      PROVE  Requests' /\ SignIn'
  BY <1>1, <1>5, <1>6 DEF Requests, SignIn, Asking
<1>7. ASSUME NEW kind \in {"int", "error", "empty"}, Answer(<<Plain(kind)>>), taken' = taken,
             request = IF kind = "int" THEN "beat" ELSE "pop"
      PROVE  Kept'
  <2>1. stage = "work" /\ task = request /\ wire = <<>> /\ Short /\ Requests' /\ SignIn'
    BY <1>5, <1>6, <1>7
  <2>2. wire' = <<Plain(kind)>>
    <3>1. <<Plain(kind)>> \in Seq(Parts)
      BY PartsDiffer DEF Kinds
    <3> QED
      BY <1>7, <2>1, <3>1, Answers DEF IInv
  <2>3. AtWork'
    BY <1>1, <1>7, <2>1, <2>2 DEF AtWork, Short
  <2>4. ShownIsWhole' /\ NoneForgotten'
    BY <1>1, <1>7, <2>1, Nothing, QuietKeeps DEF IInv
  <2> QED
    BY <2>1, <2>3, <2>4 DEF Kept
<1>8. ASSUME request = "pop", pending > 0, pending' = pending - 1, taken' = taken + 1,
             Answer(<<Plain("array")>> \o Whole(0) \o Whole(taken'))
      PROVE  Kept'
  <2>1. stage = "work" /\ task = "pop" /\ wire = <<>> /\ Short /\ Requests' /\ SignIn'
    BY <1>5, <1>6, <1>8
  <2>2. /\ taken + 1 \in Messages /\ taken \in Nat
        /\ \A n \in 1..taken' : n \in 1..taken \/ n = taken + 1
    BY <1>8, Numbers DEF IInv, TypeOK, Messages
  <2>3. PICK m \in Messages : m = taken'
    BY <1>8, <2>2
  <2>4. wire' = Reply(m)
    BY <1>8, <2>1, <2>3, FiveParts, Answers DEF IInv
  <2>5. IsNext(m)'
    <3>1. Shown' = Shown /\ Shown \in 0..taken
      BY <1>1, ShownIsNumber DEF Shown, IInv, Kept
    <3> QED
      BY <1>8, <2>2, <2>3, <3>1 DEF IsNext
  <2>6. AtWork'
    <3>1. Progress(0, m)'
      BY <1>1, <2>1 DEF Short, Progress
    <3>2. Follows(0, m)'
      BY <2>4 DEF Follows, Reply
    <3>3. Reading(m)'
      BY <1>1, <2>1, <2>5, <3>1, <3>2 DEF Reading
    <3> QED
      BY <3>3 DEF AtWork
  <2>7. ShownIsWhole'
    BY <1>1, <1>8, StaysWhole DEF IInv, Kept
  <2>8. NoneForgotten'
    <3>1. Part("rest", m) \in Entries(wire')
      <4>1. 5 \in DOMAIN Reply(m) /\ Reply(m)[5] = Part("rest", m)
        BY DEF Reply
      <4> QED
        BY <2>4, <4>1 DEF Entries
    <3>2. Shown' = Shown /\ Entries(wire) = {}
      BY <1>1, <2>1, Nothing DEF Shown
    <3> QED
      BY <1>1, <1>8, <2>1, <2>2, <2>3, <3>1, <3>2 DEF IInv, Kept, NoneForgotten
  <2> QED
    BY <2>1, <2>6, <2>7, <2>8 DEF Kept
<1>9. CASE request = "beat"
  BY <1>7, <1>9 DEF Serve, Asking
<1>10. CASE request = "pop"
  BY <1>7, <1>8, <1>10 DEF Serve, Asking
<1> QED
  BY <1>1, <1>2, <1>3, <1>4, <1>9, <1>10

\* What goes wrong around the device.
LEMMA TroubleKeeps ==
    ASSUME IInv, Cut \/ Revoke \/ Restart
    PROVE  Kept' /\ screen' = screen
<1> USE DEF workVars, readerVars, loginVars, screenVars, lineVars, queueVars
<1>1. CASE Cut
  BY <1>1, GoneKeeps DEF Cut
<1>2. CASE Revoke
  <2>1. UNCHANGED <<stage, task, due, owed, buffer, screen>>
    BY <1>2 DEF Revoke
  <2>2. Gone \/ UNCHANGED <<request, wire, taken, lost>>
    BY <1>2 DEF Revoke
  <2> QED
    BY <2>1, <2>2, GoneKeeps, IdleKeeps DEF IInv
<1>3. CASE Restart
  BY <1>3, HangUpKeeps DEF Restart
<1> QED
  BY <1>1, <1>2, <1>3

-----------------------------------------------------------------------------
(* Theorems                                                                *)

\* What every step keeps, and what it may do to the screen.
LEMMA InductiveNext ==
    ASSUME IInv, [Next]_vars
    PROVE  IInv' /\ (screen' = screen \/ \E n \in Messages : Shows(n))
<1>1. TypeOK' /\ PausedOnline'
  BY TypesNext DEF IInv
<1>2. CASE UNCHANGED vars
  BY <1>1, <1>2, IdleKeeps DEF IInv, vars, workVars, readerVars, loginVars, screenVars,
                               lineVars, queueVars
<1>3. CASE Next
  BY <1>1, <1>3, FrameKeeps, ListKeeps, ServeKeeps, TroubleKeeps DEF Next, IInv
<1> QED
  BY <1>2, <1>3

\* What the program begins with.
LEMMA InductiveInit ==
    ASSUME Init
    PROVE  IInv
<1>1. /\ stage = "offline" /\ request = "none" /\ wire = <<>> /\ task = "beat-next" /\ due = 0
      /\ taken = 0 /\ screen = <<>>
  BY DEF Init
<1>2. Requests /\ SignIn /\ AtWork
  BY <1>1 DEF Requests, SignIn, AtWork, Asking
<1>3. ShownIsWhole /\ NoneForgotten
  BY <1>1 DEF ShownIsWhole, NoneForgotten
<1> QED
  BY <1>2, <1>3, TypesInit DEF IInv, Kept

\* What was read of an answer and what is on the wire are two pieces of one
\* answer, whenever the device works.
THEOREM Inductive == Spec => []IInv
<1>1. IInv /\ [Next]_vars => IInv'
  BY InductiveNext
<1>2. Init => IInv
  BY InductiveInit
<1> QED
  BY <1>1, <1>2, PTL DEF Spec

\* The screen shows one whole message (redis-events.hpp, redis-reader): what
\* earlier connections left in the reader and in the buffer never gets there.
THEOREM WholeMessages == Spec => []ShownIsWhole
<1>1. IInv => ShownIsWhole
  BY DEF IInv, Kept
<1> QED
  BY <1>1, Inductive, PTL

\* A message that was popped is being read, or was popped for a connection that
\* ended, or was shown or replaced by a later one (redis-events.hpp, work).
THEOREM NoneIsForgotten == Spec => []NoneForgotten
<1>1. IInv => NoneForgotten
  BY DEF IInv, Kept
<1> QED
  BY <1>1, Inductive, PTL

\* No message is shown twice, or after a later one, whatever connections they
\* come on.
THEOREM OrderOnScreen == Spec => ShownInOrder
<1>1. ASSUME NEW n \in Messages, Shows(n)
      PROVE  Shown' > Shown
  BY <1>1, Numbers DEF Shows, IsNext
<1>2. IInv /\ [Next]_vars => [screen' # screen => Shown' > Shown]_vars
  BY <1>1, InductiveNext
<1> QED
  BY <1>2, Inductive, PTL DEF Spec, ShownInOrder

-----------------------------------------------------------------------------
(* What a device promises                                                  *)

OnTheWay == OnItsWay(wire)

\* What is lost was popped, and is on no way to the device any more.
LostForGood == lost \subseteq 1..taken /\ OnTheWay \cap lost = {}

\* A message on its way is one that is still to be shown.
LEMMA ComingOnly ==
    ASSUME IInv, NEW m \in OnTheWay
    PROVE  m \in Messages /\ m \in Nat /\ Shown < m /\ m <= taken
<1>1. m \in Messages /\ Part("rest", m) \in Entries(wire)
  BY DEF OnTheWay, OnItsWay
<1>2. PICK i \in DOMAIN wire : wire[i] = Part("rest", m)
  BY <1>1 DEF Entries
<1>3. Part("rest", m).kind = "rest" /\ Part("rest", m).message = m /\ m # 0
  BY <1>1, PartsDiffer, Numbers
<1>4. stage = "work"
  BY <1>1, OnlyPops DEF IInv, Kept
<1>5. ~Short
  <2>1. \A kind \in {"int", "error", "empty"} : wire # <<Plain(kind)>>
    BY <1>2, <1>3, PartsDiffer DEF Kinds
  <2> QED
    BY <1>2, <2>1 DEF Short
<1>6. PICK n \in Messages : Reading(n)
  BY <1>4, <1>5 DEF IInv, Kept, AtWork
<1>7. PICK k \in 0..4 : Follows(k, n)
  BY <1>6 DEF Reading
<1>8. k + i \in 1..5 /\ Reply(n)[k + i] = Part("rest", m)
  <2>1. DOMAIN wire = 1..Len(wire) /\ Len(wire) \in Nat
    BY DEF IInv, TypeOK
  <2> QED
    BY <1>2, <1>7, <2>1 DEF Follows
<1>9. m = n
  <2>1. \A j \in 1..5 : Reply(n)[j].message \in {0, n}
    <3>1. /\ Reply(n)[1].message = 0 /\ Reply(n)[2].message = 0 /\ Reply(n)[3].message = 0
          /\ Reply(n)[4].message = n /\ Reply(n)[5].message = n
      BY PartsDiffer DEF Reply, Kinds
    <3>2. \A j \in 1..5 : j = 1 \/ j = 2 \/ j = 3 \/ j = 4 \/ j = 5
      OBVIOUS
    <3> QED
      BY <3>1, <3>2
  <2> QED
    BY <1>3, <1>8, <2>1
<1> QED
  BY <1>1, <1>6, <1>9, Numbers DEF Reading, IsNext

\* What a frame makes of the messages on their way: nothing, unless it hangs up.
LEMMA FrameCarries ==
    ASSUME IInv, NEW m \in WifiMessages, Frame(m), ~HangUp
    PROVE  UNCHANGED <<taken, lost>> /\ Entries(wire') \subseteq Entries(wire)
<1> USE DEF workVars, readerVars, loginVars, screenVars, lineVars, queueVars
<1>1. ASSUME NEW b \in Seq(Parts), NEW x, Receive(b, x)
      PROVE  UNCHANGED <<taken, lost>> /\ Entries(wire') \subseteq Entries(wire)
  BY <1>1, Taken DEF IInv
<1>2. <<>> \in Seq(Parts) /\ buffer \in Seq(Parts)
  BY DEF IInv, TypeOK
<1>3. ASSUME NEW x, ReadOk(x) \/ ReadId(x) \/ ReadBeat(x) \/ ReadPop(x)
      PROVE  UNCHANGED <<taken, lost>> /\ Entries(wire') \subseteq Entries(wire)
  BY <1>1, <1>2, <1>3 DEF ReadOk, ReadId, ReadBeat, ReadPop
<1>4. CASE UNCHANGED <<wire, taken, lost>>
  BY <1>4
<1>5. CASE Reconnect(m) \/ StayDisconnected(m) \/ Pause(m) \/ Idle
  BY <1>4, <1>5 DEF Reconnect, StayDisconnected, Pause, Idle
<1>6. CASE Connect \/ ConnectFails \/ RequestId \/ Write
  BY <1>4, <1>6 DEF Connect, ConnectFails, RequestId, Write, Ask
<1> QED
  BY <1>3, <1>5, <1>6 DEF Frame, Redis, Run, Stop, TimeOut

\* Redis takes the message that it puts on the wire, or puts none there.
LEMMA ServeCarries ==
    ASSUME IInv, Serve
    PROVE  \/ taken' = taken /\ OnTheWay' \subseteq OnTheWay
           \/ taken' = taken + 1 /\ OnTheWay' \subseteq OnTheWay \cup {taken + 1}
<1>1. ASSUME NEW s \in Seq(Parts), Answer(s), NEW S,
             \A n \in Messages : Part("rest", n) \in Entries(s) => n \in S
      PROVE  OnTheWay' \subseteq OnTheWay \cup S
  <2>1. Entries(wire') \subseteq Entries(wire) \cup Entries(s)
    <3>1. /\ DOMAIN wire = 1..Len(wire) /\ Len(wire) \in Nat
          /\ \A i \in DOMAIN wire' : i \in DOMAIN wire \/ i - Len(wire) \in DOMAIN s
          /\ DOMAIN wire' = 1..Len(wire')
          /\ \A i \in DOMAIN wire : wire'[i] = wire[i]
          /\ \A j \in DOMAIN s : wire'[Len(wire) + j] = s[j]
      BY <1>1, Answers DEF IInv
    <3>2. \A i \in DOMAIN wire' : wire'[i] \in Entries(wire) \cup Entries(s)
      <4> SUFFICES ASSUME NEW i \in DOMAIN wire'
                   PROVE  wire'[i] \in Entries(wire) \cup Entries(s)
        OBVIOUS
      <4>1. CASE i \in DOMAIN wire
        BY <3>1, <4>1 DEF Entries
      <4>2. CASE i - Len(wire) \in DOMAIN s
        <5>1. wire'[i] = s[i - Len(wire)]
          BY <3>1, <4>2
        <5> QED
          BY <4>2, <5>1 DEF Entries
      <4> QED
        BY <3>1, <4>1, <4>2
    <3> QED
      BY <3>2 DEF Entries
  <2> QED
    BY <1>1, <2>1 DEF OnTheWay, OnItsWay
<1>2. ASSUME NEW s \in Seq(Parts), Answer(s), \A j \in DOMAIN s : s[j].message = 0
      PROVE  OnTheWay' \subseteq OnTheWay
  <2>1. \A n \in Messages : Part("rest", n) \in Entries(s) => n \in {}
    BY <1>2, PartsDiffer, Numbers DEF Entries
  <2>2. OnTheWay' \subseteq OnTheWay \cup {}
    BY <1>1, <1>2, <2>1
  <2> QED
    BY <2>2
<1>3. \A kind \in Kinds : /\ <<Plain(kind)>> \in Seq(Parts)
                          /\ \A j \in DOMAIN <<Plain(kind)>> : <<Plain(kind)>>[j].message = 0
  BY PartsDiffer
<1>4. /\ <<Plain("o"), Plain("k")>> \in Seq(Parts)
      /\ \A j \in DOMAIN <<Plain("o"), Plain("k")>> : <<Plain("o"), Plain("k")>>[j].message = 0
  <2>1. /\ Plain("o") \in Parts /\ Plain("k") \in Parts
        /\ Plain("o").message = 0 /\ Plain("k").message = 0
    BY PartsDiffer DEF Kinds
  <2> QED
    BY <2>1
<1>5. Whole(0) \in Seq(Parts) /\ \A j \in DOMAIN Whole(0) : Whole(0)[j].message = 0
  <2>1. /\ Part("head", 0) \in Parts /\ Part("rest", 0) \in Parts
        /\ Part("head", 0).message = 0 /\ Part("rest", 0).message = 0
    BY PartsDiffer
  <2> QED
    BY <2>1 DEF Whole
<1>6. ASSUME pending > 0, pending' = pending - 1, taken' = taken + 1,
             Answer(<<Plain("array")>> \o Whole(0) \o Whole(taken'))
      PROVE  OnTheWay' \subseteq OnTheWay \cup {taken + 1}
  <2>1. taken + 1 \in Messages
    BY <1>6, Numbers DEF IInv, TypeOK, Messages
  <2>2. PICK m \in Messages : m = taken + 1
    BY <2>1
  <2>3. Answer(Reply(m)) /\ Reply(m) \in Seq(Parts)
    BY <1>6, <2>2, FiveParts
  <2>4. \A n \in Messages : Part("rest", n) \in Entries(Reply(m)) => n \in {m}
    <3>1. DOMAIN Reply(m) = 1..5
      BY DEF Reply
    <3>2. /\ Reply(m)[1].message = 0 /\ Reply(m)[2].message = 0 /\ Reply(m)[3].message = 0
          /\ Reply(m)[4].message = m /\ Reply(m)[5].message = m
      BY PartsDiffer DEF Reply, Kinds
    <3>3. \A j \in 1..5 : j = 1 \/ j = 2 \/ j = 3 \/ j = 4 \/ j = 5
      OBVIOUS
    <3>4. \A j \in DOMAIN Reply(m) : Reply(m)[j].message \in {0, m}
      BY <3>1, <3>2, <3>3
    <3>5. \A n \in Messages : Part("rest", n).message = n /\ n # 0
      BY PartsDiffer, Numbers
    <3> QED
      BY <3>4, <3>5 DEF Entries
  <2>5. OnTheWay' \subseteq OnTheWay \cup {m}
    BY <1>1, <2>3, <2>4
  <2> QED
    BY <2>2, <2>5
<1> QED
  BY <1>2, <1>3, <1>4, <1>5, <1>6 DEF Serve, AnswerAuth, Kinds

\* A connection that ends takes with it what then counts as lost.
LEMMA EndCarries ==
    ASSUME IInv, HangUp \/ Gone
    PROVE  /\ taken' \in {taken, taken + 1} /\ taken' <= MaxMessages /\ taken \in Nat
           /\ OnTheWay' \subseteq OnTheWay
           /\ lost' = lost \cup (OnTheWay \ OnTheWay') \cup ((taken + 1)..taken')
<1>1. Lose(wire') /\ taken \in Nat
  BY DEF HangUp, Gone, IInv, TypeOK
<1>2. taken' \in {taken, taken + 1} /\ taken' <= MaxMessages
  BY <1>1, LoseTypes DEF IInv
<1>3. Entries(wire') \subseteq Entries(wire)
  <2>1. CASE wire' = <<>>
    BY <2>1, Nothing
  <2>2. CASE Gone
    <3>1. PICK k \in 0..Len(wire) : wire' = SubSeq(wire, 1, k)
      BY <2>2 DEF Gone
    <3>2. \A i \in DOMAIN wire' : i \in DOMAIN wire /\ wire'[i] = wire[i]
      BY <3>1, Beginning DEF IInv, TypeOK
    <3> QED
      BY <3>2 DEF Entries
  <2> QED
    BY <2>1, <2>2 DEF HangUp
<1>4. OnTheWay' \subseteq OnTheWay
  BY <1>3 DEF OnTheWay, OnItsWay
<1>5. lost' = lost \cup (OnTheWay \ OnTheWay') \cup ((taken + 1)..taken')
  BY <1>1 DEF Lose, OnTheWay, OnItsWay
<1> QED
  BY <1>1, <1>2, <1>4, <1>5

\* A device passes over no message that was not lost.
LEMMA ShowsNext ==
    ASSUME IInv, LostForGood, NEW m \in Messages, Shows(m)
    PROVE  Box!Show
<1>1. /\ Shown < m /\ m <= taken /\ Part("rest", m) \in Entries(wire)
      /\ Shown' = m /\ UNCHANGED <<taken, lost>>
  BY DEF Shows, IsNext
<1>2. m \in 1..taken /\ m \notin lost
  <2>1. m \in 1..taken
    BY <1>1, Numbers, TakenAreMessages DEF IInv
  <2>2. m \in OnTheWay
    BY <1>1 DEF OnTheWay, OnItsWay
  <2> QED
    BY <2>1, <2>2 DEF LostForGood
<1>3. ASSUME NEW n \in 1..taken, n > Shown, n \notin lost
      PROVE  m <= n
  <2>1. n \in Messages /\ Shown \in Nat
    BY TakenAreMessages, ShownIsNumber DEF IInv, Kept
  <2>2. Part("rest", n) \in Entries(wire)
    BY <1>3, <2>1, Numbers DEF IInv, Kept, NoneForgotten
  <2>3. Part("rest", n).message = n /\ Part("rest", m).message = m
    BY <2>1, PartsDiffer
  <2>4. n = m /\ m \in Nat
    BY <2>2, <2>3, Numbers DEF Shows
  <2> QED
    BY <2>4
<1> QED
  BY <1>1, <1>2, <1>3 DEF Box!Show, Box!Coming

\* The end of a connection loses what was coming, or is just taken.
LEMMA LosesComing ==
    ASSUME IInv, LostForGood, HangUp \/ Gone, screen' = screen
    PROVE  LostForGood' /\ Box!Lose
<1>1. /\ taken' \in {taken, taken + 1} /\ taken' <= MaxMessages /\ taken \in Nat
      /\ OnTheWay' \subseteq OnTheWay
      /\ lost' = lost \cup (OnTheWay \ OnTheWay') \cup ((taken + 1)..taken')
  BY EndCarries
<1>2. Shown' = Shown
  BY DEF Shown
<1>3. OnTheWay \subseteq Box!Coming
  <2> SUFFICES ASSUME NEW m \in OnTheWay
               PROVE  m \in 1..taken /\ m > Shown /\ m \notin lost
    BY DEF Box!Coming
  <2>1. m \in Messages /\ m \in Nat /\ Shown < m /\ m <= taken
    BY ComingOnly
  <2>2. m > 0 /\ Shown \in Nat
    BY <2>1, Numbers, ShownIsNumber DEF IInv, Kept
  <2> QED
    BY <1>1, <2>1, <2>2 DEF LostForGood
<1>4. OnTheWay \subseteq 1..taken
  BY <1>3 DEF Box!Coming
<1>5. LostForGood'
  <2>1. 1..taken \subseteq 1..taken' /\ (taken + 1)..taken' \subseteq 1..taken'
    BY <1>1
  <2>2. lost' \subseteq 1..taken'
    BY <1>1, <1>4, <2>1 DEF LostForGood
  <2>3. OnTheWay' \cap ((taken + 1)..taken') = {}
    <3>1. \A n \in 1..taken : n \notin (taken + 1)..taken'
      BY <1>1
    <3> QED
      BY <1>1, <1>4, <3>1
  <2> QED
    BY <1>1, <2>2, <2>3 DEF LostForGood
<1>6. OnTheWay \ OnTheWay' \in SUBSET Box!Coming
  BY <1>3
<1> QED
  BY <1>1, <1>2, <1>5, <1>6 DEF Box!Lose

\* Every step of the device and of its world is one of the mailbox, or none.
LEMMA MailboxNext ==
    ASSUME IInv, LostForGood, [Next]_vars
    PROVE  LostForGood' /\ (Box!Next \/ UNCHANGED Box!vars)
<1>1. ASSUME UNCHANGED <<taken, lost>>, OnTheWay' \subseteq OnTheWay
      PROVE  LostForGood'
  BY <1>1 DEF LostForGood
<1>2. ASSUME UNCHANGED <<taken, lost, screen>>
      PROVE  UNCHANGED Box!vars
  BY <1>2 DEF Box!vars, Shown
<1>3. ASSUME HangUp \/ Gone, screen' = screen
      PROVE  LostForGood' /\ Box!Next
  BY <1>3, LosesComing DEF Box!Next
<1>4. ASSUME UNCHANGED <<taken, lost>>, Entries(wire') \subseteq Entries(wire)
      PROVE  OnTheWay' \subseteq OnTheWay
  BY <1>4 DEF OnTheWay, OnItsWay
<1>5. ASSUME NEW m \in WifiMessages, Frame(m)
      PROVE  LostForGood' /\ (Box!Next \/ UNCHANGED Box!vars)
  <2>1. CASE HangUp
    <3>1. screen' = screen
      <4>1. ASSUME NEW n \in Messages, Shows(n)
            PROVE  FALSE
        <5>1. n \in OnTheWay /\ lost' = lost /\ wire' = <<>>
          BY <4>1 DEF Shows, OnTheWay, OnItsWay
        <5>2. n \notin OnItsWay(wire')
          BY <5>1, Nothing DEF OnItsWay
        <5>3. n \in lost'
          BY <2>1, <5>1, <5>2 DEF HangUp, Lose, OnTheWay
        <5> QED
          BY <5>1, <5>3 DEF LostForGood
      <4> QED
        BY <1>5, <4>1, FrameKeeps
    <3> QED
      BY <1>3, <2>1, <3>1
  <2>2. CASE ~HangUp
    <3>1. UNCHANGED <<taken, lost>> /\ Entries(wire') \subseteq Entries(wire)
      BY <1>5, <2>2, FrameCarries
    <3>2. LostForGood'
      BY <1>1, <1>4, <3>1
    <3>3. screen' = screen \/ \E n \in Messages : Shows(n)
      BY <1>5, FrameKeeps
    <3> QED
      BY <1>2, <3>1, <3>2, <3>3, ShowsNext DEF Box!Next
  <2> QED
    BY <2>1, <2>2
<1>6. CASE Send \/ Clear
  <2>1. UNCHANGED <<wire, taken, lost, screen>>
    BY <1>6 DEF Send, Clear, lineVars, screenVars
  <2> QED
    BY <1>1, <1>2, <1>4, <2>1
<1>7. CASE Serve
  <2>1. UNCHANGED <<lost, screen>>
    BY <1>7 DEF Serve, screenVars
  <2>2. CASE taken' = taken /\ OnTheWay' \subseteq OnTheWay
    BY <1>1, <1>2, <2>1, <2>2
  <2>3. CASE taken' = taken + 1 /\ OnTheWay' \subseteq OnTheWay \cup {taken + 1}
    <3>1. taken \in Nat /\ taken + 1 <= MaxMessages
      <4>1. taken \in Nat /\ TypeOK'
        BY TypesNext DEF IInv, TypeOK
      <4>2. pending' \in Nat /\ taken' \in Nat /\ pending' + taken' <= MaxMessages
        BY <4>1 DEF TypeOK
      <4>3. taken' <= MaxMessages
        BY <4>2, NotMore
      <4> QED
        BY <2>3, <4>1, <4>3
    <3>2. taken + 1 \notin 1..taken /\ 1..taken \subseteq 1..taken' /\ taken < MaxMessages
      BY <2>3, <3>1, Numbers
    <3>3. LostForGood'
      BY <2>1, <2>3, <3>2 DEF LostForGood
    <3> QED
      BY <2>1, <2>3, <3>2, <3>3 DEF Box!Next, Box!Take, Shown
  <2> QED
    BY <1>7, <2>2, <2>3, ServeCarries
<1>8. CASE Cut \/ Revoke \/ Restart
  <2>1. \/ Gone \/ HangUp
        \/ UNCHANGED <<wire, taken, lost>>
    BY <1>8 DEF Cut, Revoke, Restart, lineVars, queueVars
  <2>2. screen' = screen
    BY <1>8, TroubleKeeps
  <2> QED
    BY <1>1, <1>2, <1>3, <1>4, <2>1, <2>2
<1>9. CASE UNCHANGED vars
  BY <1>1, <1>2, <1>4, <1>9 DEF vars, screenVars, lineVars, queueVars
<1> QED
  BY <1>5, <1>6, <1>7, <1>8, <1>9 DEF Next

\* A message is passed over only if its connection ended: the device shows
\* what Mailbox promises, and Mailbox says nothing of connections.
THEOREM DeviceImplementsMailbox == Spec => ImplementsMailbox
<1>1. Init => Box!Init /\ LostForGood
  BY Nothing DEF Init, Box!Init, Shown, LostForGood, OnTheWay, OnItsWay
<1>2. IInv /\ LostForGood /\ [Next]_vars => LostForGood' /\ [Box!Next]_(Box!vars)
  BY MailboxNext
<1>3. Spec => Box!Init /\ [][Box!Next]_(Box!vars)
  BY <1>1, <1>2, Inductive, PTL DEF Spec
<1> QED
  BY <1>3 DEF ImplementsMailbox, Box!Spec
=============================================================================

--------------------------- MODULE RenderPipeline ---------------------------
(***************************************************************************)
(* From a queued render to the display.  The web server, registrar jobs    *)
(* and the command line push renders on one redis list; renderer processes *)
(* pop them, replace what waits in the target device's own list, and leave *)
(* the outcome in the results hash; devices pop their lists.               *)
(*                                                                         *)
(* A renderer handles one render with several redis commands and nothing   *)
(* keeps another renderer, the device, or the web server that has yet to   *)
(* write the pending marker of that very render, from running in between.  *)
(***************************************************************************)
EXTENDS Naturals, Sequences, FiniteSets, RedisLink

CONSTANTS
    Renders,      \* identifiers of queued renders (uuids)
    WebRenders,   \* those that web requests queue; the others have no marker
    Renderers,    \* the renderer processes
    Devices,
    Target,       \* Target[r]: the device render r is for
    NoRender

ASSUME RendersAssumption ==
    /\ WebRenders \subseteq Renders
    /\ Target \in [Renders -> Devices]
    /\ NoRender \notin Renders
    /\ IsFiniteSet(Renderers)

VARIABLES
    queue,       \* the render list, head first
    results,     \* the results hash, as far as renders are concerned
    request,     \* request[r]: how far whoever queues r has come
    web,         \* the one redis connection of the web server
    messages,    \* messages[d]: the list device d pops, head first
    shown,       \* history: shown[d]: what device d has displayed
    link,        \* link[w]: the redis connection of renderer w
    mongo,       \* mongo[w]: could renderer w build its mongo client at start?
    pc,          \* pc[w]: where renderer w is in its tick
    held,        \* held[w]: the render w popped
    sendError,   \* sendError[w]: did the attempt to send it fail?
    taken,       \* history: taken[w]: the renders w popped, oldest first
    sent,        \* history: renders that were put on a device's list
    recorded,    \* history: renders whose outcome redis has been told
    lost         \* history: renders a fault, an expiry or an early return dropped

queueVars == <<queue, results, request, web>>
deviceVars == <<messages, shown>>
tickVars == <<link, mongo, pc, held, sendError>>
historyVars == <<taken, sent, recorded, lost>>
vars == <<queueVars, deviceVars, tickVars, historyVars, faults>>

Verdicts == {"success", "failure"}
Entries(s) == {s[i] : i \in DOMAIN s}

TypeOK ==
    /\ queue \in Seq(Renders)
    /\ results \in [Renders -> {"absent", "pending"} \cup Verdicts]
    /\ request \in [Renders -> {"new", "pushed", "accepted", "refused"}]
    /\ web \in {"up", "broken"}
    /\ messages \in [Devices -> Seq(Renders)]
    /\ shown \in [Devices -> Seq(Renders)]
    /\ link \in [Renderers -> {"none", "up", "broken"}]
    /\ mongo \in [Renderers -> BOOLEAN]
    /\ pc \in [Renderers -> {"pop", "measure", "trim", "send", "record"}]
    /\ held \in [Renderers -> Renders \cup {NoRender}]
    /\ sendError \in [Renderers -> BOOLEAN]
    /\ taken \in [Renderers -> Seq(Renders)]
    /\ sent \in SUBSET Renders
    /\ recorded \in SUBSET Renders
    /\ lost \in SUBSET Renders
    /\ faults \in 0..MaxFaults
    /\ \A w \in Renderers :
         /\ held[w] \in Renders <=> pc[w] # "pop"
         /\ pc[w] # "pop" => link[w] # "none"

Init ==
    /\ queue = <<>>
    /\ results = [r \in Renders |-> "absent"]
    /\ request = [r \in Renders |-> "new"]
    /\ web = "up"
    /\ messages = [d \in Devices |-> <<>>]
    /\ shown = [d \in Devices |-> <<>>]
    /\ link = [w \in Renderers |-> "none"]
    /\ mongo \in [Renderers -> BOOLEAN]
    /\ pc = [w \in Renderers |-> "pop"]
    /\ held = [w \in Renderers |-> NoRender]
    /\ sendError = [w \in Renderers |-> FALSE]
    /\ taken = [w \in Renderers |-> <<>>]
    /\ sent = {}
    /\ recorded = {}
    /\ lost = {}
    /\ faults = 0

-----------------------------------------------------------------------------
(* Queueing                                                                *)

\* RPUSH of a render.
PushRender(r, o) ==
    queue' = IF Applied(o) THEN Append(queue, r) ELSE queue

\* Worker::queue_render pushes first ...
WebPush(r, o) ==
    /\ r \in WebRenders /\ request[r] = "new"
    /\ Issue(web, o)
    /\ PushRender(r, o)
    /\ web' = LinkAfter(o)
    /\ request' = [request EXCEPT ![r] = IF o = "ok" THEN "pushed" ELSE "refused"]
    /\ UNCHANGED <<results, deviceVars, tickVars, historyVars>>

\* ... and writes the pending marker afterwards.
WebMark(r, o) ==
    /\ request[r] = "pushed"
    /\ Issue(web, o)
    /\ results' = IF Applied(o) THEN [results EXCEPT ![r] = "pending"] ELSE results
    /\ web' = LinkAfter(o)
    /\ request' = [request EXCEPT ![r] = IF o = "ok" THEN "accepted" ELSE "refused"]
    /\ UNCHANGED <<queue, deviceVars, tickVars, historyVars>>

\* The lock around the shared connection was not obtained within a second.
WebTimeout(r) ==
    /\ r \in WebRenders /\ request[r] \in {"new", "pushed"}
    /\ request' = [request EXCEPT ![r] = "refused"]
    /\ UNCHANGED <<queue, results, web, deviceVars, tickVars, historyVars, faults>>

\* A registrar job or the command line: no marker.
OtherPush(r) ==
    /\ r \in Renders \ WebRenders /\ request[r] = "new"
    /\ PushRender(r, "ok")
    /\ request' = [request EXCEPT ![r] = "accepted"]
    /\ UNCHANGED <<results, web, deviceVars, tickVars, historyVars, faults>>

-----------------------------------------------------------------------------
(* A renderer's tick                                                       *)

To(w, place) == pc' = [pc EXCEPT ![w] = place]
Relink(w, l) == link' = [link EXCEPT ![w] = l]
Drop(rs) == lost' = lost \cup rs

Connect(w) ==
    /\ pc[w] = "pop" /\ link[w] = "none"
    /\ Relink(w, "up")
    /\ UNCHANGED <<queueVars, deviceVars, mongo, pc, held, sendError, historyVars, faults>>

\* BLPOP hands out a render that decodes.
Pop(w) ==
    /\ pc[w] = "pop" /\ link[w] = "up" /\ queue # <<>>
    /\ queue' = Tail(queue)
    /\ held' = [held EXCEPT ![w] = Head(queue)]
    /\ taken' = [taken EXCEPT ![w] = Append(@, Head(queue))]
    /\ To(w, "measure")
    /\ UNCHANGED <<results, request, web, deviceVars, link, mongo, sendError,
                   sent, recorded, lost, faults>>

\* BLPOP hands out a render whose token expired.
PopExpired(w) ==
    /\ pc[w] = "pop" /\ link[w] = "up" /\ queue # <<>>
    /\ queue' = Tail(queue)
    /\ Drop({Head(queue)})
    /\ UNCHANGED <<results, request, web, deviceVars, tickVars,
                   taken, sent, recorded, faults>>

\* Mutant: a connection that failed is kept for the next tick.
PopFailsKeepsLink(w, o) ==
    /\ pc[w] = "pop" /\ link[w] # "none"
    /\ o # "ok"
    /\ Issue(link[w], o)
    /\ Relink(w, "broken")
    /\ UNCHANGED <<queueVars, deviceVars, mongo, pc, held, sendError, historyVars>>

\* The error returns before the connection is put back.
PopFails(w, o) ==
    /\ pc[w] = "pop" /\ link[w] # "none"
    /\ o # "ok"
    /\ Issue(link[w], o)
    /\ Relink(w, "none")
    /\ IF Applied(o) /\ queue # <<>>
       THEN queue' = Tail(queue) /\ Drop({Head(queue)})
       ELSE UNCHANGED <<queue, lost>>
    /\ UNCHANGED <<results, request, web, deviceVars, mongo, pc, held, sendError,
                   taken, sent, recorded>>

\* Mutant: what waits for the device is left there.
MeasureSkips(w, o) ==
    /\ pc[w] = "measure"
    /\ Issue(link[w], o)
    /\ Relink(w, LinkAfter(o))
    /\ To(w, "send")
    /\ UNCHANGED <<queueVars, deviceVars, mongo, held, sendError, historyVars>>

\* clear_pending: LLEN of the device's list; an error is logged.
Measure(w, o) ==
    /\ pc[w] = "measure"
    /\ Issue(link[w], o)
    /\ Relink(w, LinkAfter(o))
    /\ To(w, IF o = "ok" /\ messages[Target[held[w]]] # <<>> THEN "trim" ELSE "send")
    /\ UNCHANGED <<queueVars, deviceVars, mongo, held, sendError, historyVars>>

\* Mutant: an error of the trim ends the tick, the render still in hand.
TrimErrReturns(w, o) ==
    /\ pc[w] = "trim"
    /\ Issue(link[w], o)
    /\ Relink(w, LinkAfter(o))
    /\ messages' = IF Applied(o)
                   THEN [messages EXCEPT ![Target[held[w]]] = <<>>] ELSE messages
    /\ To(w, IF o = "ok" THEN "send" ELSE "pop")
    /\ UNCHANGED <<queueVars, shown, mongo, held, sendError, historyVars>>

\* Mutant: only the newest message is removed.
TrimHead(w, o) ==
    /\ pc[w] = "trim"
    /\ Issue(link[w], o)
    /\ Relink(w, LinkAfter(o))
    /\ messages' = IF Applied(o) /\ messages[Target[held[w]]] # <<>>
                   THEN [messages EXCEPT ![Target[held[w]]] = Tail(@)] ELSE messages
    /\ To(w, "send")
    /\ UNCHANGED <<queueVars, shown, mongo, held, sendError, historyVars>>

\* clear_pending: LTRIM count 0 keeps nothing, whatever has been pushed or
\* popped since the length was read.
Trim(w, o) ==
    /\ pc[w] = "trim"
    /\ Issue(link[w], o)
    /\ Relink(w, LinkAfter(o))
    /\ messages' = IF Applied(o)
                   THEN [messages EXCEPT ![Target[held[w]]] = <<>>] ELSE messages
    /\ To(w, "send")
    /\ UNCHANGED <<queueVars, shown, mongo, held, sendError, historyVars>>

\* Mutant: the failed rasterization is not remembered.
RasterizeFailsSilently(w) ==
    /\ pc[w] = "send"
    /\ sendError' = [sendError EXCEPT ![w] = FALSE]
    /\ To(w, "record")
    /\ UNCHANGED <<queueVars, deviceVars, link, mongo, held, historyVars, faults>>

\* send_layout: the layout cannot be drawn.
RasterizeFails(w) ==
    /\ pc[w] = "send"
    /\ sendError' = [sendError EXCEPT ![w] = TRUE]
    /\ To(w, "record")
    /\ UNCHANGED <<queueVars, deviceVars, link, mongo, held, historyVars, faults>>

\* send_layout: LPUSH on the device's list.
Send(w, o) ==
    /\ pc[w] = "send"
    /\ Issue(link[w], o)
    /\ Relink(w, LinkAfter(o))
    /\ LET r == held[w] IN
         IF Applied(o)
         THEN /\ messages' = [messages EXCEPT ![Target[r]] = <<r>> \o @]
              /\ sent' = sent \cup {r}
         ELSE UNCHANGED <<messages, sent>>
    /\ sendError' = [sendError EXCEPT ![w] = o # "ok"]
    /\ To(w, "record")
    /\ UNCHANGED <<queueVars, shown, mongo, held, taken, recorded, lost>>

\* Without a mongo client the histories are out of reach: the error returns
\* before a result is set and before the connection is put back.
Forget(w) ==
    /\ pc[w] = "record" /\ ~mongo[w]
    /\ Drop({held[w]})
    /\ Relink(w, "none")
    /\ held' = [held EXCEPT ![w] = NoRender]
    /\ To(w, "pop")
    /\ UNCHANGED <<queueVars, deviceVars, mongo, sendError, taken, sent, recorded, faults>>

\* HSET of the outcome; an error is logged.
Record(w, o) ==
    /\ pc[w] = "record" /\ mongo[w]
    /\ Issue(link[w], o)
    /\ Relink(w, LinkAfter(o))
    /\ LET r == held[w] IN
         IF Applied(o)
         THEN /\ results' = [results EXCEPT ![r] =
                               IF sendError[w] THEN "failure" ELSE "success"]
              /\ recorded' = recorded \cup {r}
              /\ UNCHANGED lost
         ELSE Drop({r}) /\ UNCHANGED <<results, recorded>>
    /\ held' = [held EXCEPT ![w] = NoRender]
    /\ To(w, "pop")
    /\ UNCHANGED <<queue, request, web, deviceVars, mongo, sendError, taken, sent>>

\* The process dies between any two steps and is started again.
Crash(w) ==
    /\ Fault
    /\ Drop({held[w]} \ {NoRender})
    /\ Relink(w, "none")
    /\ held' = [held EXCEPT ![w] = NoRender]
    /\ To(w, "pop")
    /\ UNCHANGED <<queueVars, deviceVars, mongo, sendError, taken, sent, recorded>>

-----------------------------------------------------------------------------
(* A device                                                                *)

\* BLPOP of the device's own list; what it gets it draws.
Show(d) ==
    /\ messages[d] # <<>>
    /\ messages' = [messages EXCEPT ![d] = Tail(@)]
    /\ shown' = [shown EXCEPT ![d] = Append(@, Head(messages[d]))]
    /\ UNCHANGED <<queueVars, tickVars, historyVars, faults>>

\* The reply is cut off, or the device is.
Miss(d) ==
    /\ messages[d] # <<>>
    /\ Fault
    /\ messages' = [messages EXCEPT ![d] = Tail(@)]
    /\ UNCHANGED <<queueVars, shown, tickVars, historyVars>>

-----------------------------------------------------------------------------
(* The specification                                                       *)

Enqueue(r) ==
    \/ \E o \in Outcomes : WebPush(r, o) \/ WebMark(r, o)
    \/ WebTimeout(r)
    \/ OtherPush(r)

Tick(w) ==
    \/ Connect(w)
    \/ Pop(w)
    \/ PopExpired(w)
    \/ \E o \in Outcomes : PopFails(w, o)
    \/ \E o \in Outcomes : Measure(w, o)
    \/ \E o \in Outcomes : Trim(w, o)
    \/ RasterizeFails(w)
    \/ \E o \in Outcomes : Send(w, o)
    \/ Forget(w)
    \/ \E o \in Outcomes : Record(w, o)

Next ==
    \/ \E r \in Renders : Enqueue(r)
    \/ \E w \in Renderers : Tick(w) \/ Crash(w)
    \/ \E d \in Devices : Show(d) \/ Miss(d)

Spec == Init /\ [][Next]_vars

\* run loops over tick for ever, whatever a tick returns.
FairSpec == Spec /\ \A w \in Renderers : WF_vars(Tick(w))

-----------------------------------------------------------------------------
(* What must be true                                                       *)

\* A device that is away does not come back to a backlog: however many
\* renders were queued for it, at most one per renderer process waits.  The
\* length that clear_pending reads may be out of date when it trims.
BacklogBounded ==
    \A d \in Devices : Len(messages[d]) <= Cardinality(Renderers)

\* Of the renders one process handled, a device never shows an older one
\* after a newer one, nor any twice, although its list is last in first out.
NeverBackwards ==
    \A d \in Devices : \A i, k \in DOMAIN shown[d] : i < k =>
        \A w \in Renderers : \A a, b \in DOMAIN taken[w] :
            shown[d][i] = taken[w][a] /\ shown[d][k] = taken[w][b] => a < b

\* An answer tells the truth: success if the device's list got the layout,
\* failure only if it never did, even when a command was cut.
AnswerIsTrue ==
    \A r \in Renders :
        /\ results[r] = "success" => r \in sent
        /\ results[r] = "failure" => r \notin sent

\* A queued render is handled and its outcome written, unless a named loss
\* hits it: a renderer's broken connection never stops it for good.
HandledEventually ==
    \A r \in Renders : r \in Entries(queue) ~> r \in recorded \cup lost

\* "This is how clients know the render has been processed in the
\* background": the result a renderer wrote is what a client reads.  The web
\* server that writes its pending marker after the push breaks this.
ProcessedIsKnown ==
    \A r \in recorded : results[r] \in Verdicts
=============================================================================

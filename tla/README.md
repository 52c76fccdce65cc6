# orient-beetle: TLA+ models and proofs

This directory specifies, model-checks and proves properties of the
orient-beetle service: a web server, background job workers ("registrar"),
rendering workers, and microcontroller devices that show what they are sent.
All of them meet in one redis server (lists and hashes) and one mongo database.
Source paths below are relative to `src/src/beetle-srv/src/` unless they say
otherwise.

## 1. Inventory

### Processes and shared state

| process | code | how it is scheduled |
| --- | --- | --- |
| web server | `bin/beetle-web.rs`, `api/` | one process, many concurrent requests, ONE redis connection behind a lock with a one second timeout |
| registrar worker | `bin/beetle-registrar.rs`, `registrar/` | any number of processes; each loops over frames: connect, or sweep, check schedules, pop a batch of jobs |
| renderer | `bin/beetle-renderer.rs`, `rendering/` | any number of processes; each loops over ticks: pop one render, replace what waits for the device, record the outcome |
| device | `src/beetle-pio/` | an event machine on a microcontroller: wifi, TLS, authorization, then blocking pops and heartbeats alternately |
| command line | `bin/beetle-cli.rs`, `bin/cli/` | run by hand |

| shared state | written by | read by |
| --- | --- | --- |
| job list (redis) | web `queue_job`, registrar `WorkerHandle::enqueue` (RPUSH) | registrar `work_jobs` (LPOP) |
| results hash (redis) | web and registrar (pending), registrar and renderer (outcome) | web `api/jobs.rs`, polled by the browser |
| render list (redis) | web `queue_render`, registrar, command line (RPUSH) | renderer (BLPOP) |
| one message list per device (redis) | renderer (LTRIM, LPUSH), command line | that device (BLPOP) |
| id pool, ACL users, incoming list, last-seen hash (redis) | registrar `pool.rs`, devices, command line | devices, registrar `diagnostics.rs` |
| users, devices, authorities, schedules, states, histories (mongo) | registrar jobs, web, command line | everyone |

### Components, their operations, what is hard, what makes them correct

1. **Job queue.** Two producers each write a pending marker and then push the
   job; workers pop, carry out, record. *Hard:* the two commands of a producer
   and the pop of a worker interleave; redis connections break so that a
   command may or may not have been run; a worker may die with a job in hand;
   frames fail and are counted; a batch is counted with exceptions (stale runs)
   and early returns. *Correct:* no answer is overwritten, delivery is at most
   once, a job is forgotten only by a loss one can name, and what is queued is
   answered.
2. **Render pipeline.** *Hard:* a renderer's LLEN / LTRIM / LPUSH of one device
   list interleave with other renderers and the device; the list is last in
   first out; errors of three commands are logged and the tick goes on; some
   early returns drop the connection, and one relies on that; the web server
   writes its marker after its push. *Correct:* a device list stays bounded, a
   device never goes back in time, answers are true, renders keep being handled.
3. **Device schedules** (`registrar/schedule.rs`, `registrar/device_schedule.rs`).
   Each worker finds due schedules, enqueues a run with a new nonce and then
   stores the nonce; a run with another nonce is ignored; `toggle` replaces the
   whole document. *Hard:* several workers, a run that is faster than the
   storing of its nonce, a failed run. *Correct:* a due schedule is run again,
   and not twice for one due period.
4. **Device state** (`registrar/device_state.rs`). Read, transition, write back,
   enqueue a render. *Hard:* lost updates between workers; the limit of
   retained messages. *Correct:* the newest messages are the ones retained.
5. **Ownership and access** (`registrar/ownership.rs`, `rename.rs`, `access.rs`,
   `api/devices.rs`). Claims, changes of the authority model, renames and
   unregistration each read a user or authority document and write it back
   later; an access check creates the authority record it checks, and a job does
   not know who asked for it. *Hard:* two of them on one document, a check
   between a read and a replacement. *Correct:* a device keeps its owner, nobody
   gets in unless the owner opened it, and lists hold what was asked for.
6. **Provisioning** (`registrar/pool.rs`, `bin/cli/acls.rs`, the login
   of the firmware). Creating ids with ACL
   users, handing them out, revoking them. *Hard:* three commands create an id
   and any may fail; several workers fill one pool; operators revoke users while
   ids are created and taken. *Correct:* an id is handed out once and works, the
   pool is bounded and refilled, a device comes to work.
7. **Diagnostics** (`registrar/diagnostics.rs`, `bin/cli/disconnects.rs`).
   Marking devices active, welcoming new ones, removing silent ones. *Hard:* a
   state that is read, acted on and written later; an operator who finds, then
   deletes, then disconnects; upserts that make half a diagnostic. *Correct:* a
   claim stays, no device that was heard from is cut off, every device is sent
   its code.
8. **Firmware** (`src/beetle-pio/lib/`). The wifi and redis event machines and
   the RESP reader over a byte stream that may be cut anywhere. *Hard:* the
   reader outlives connections, replies come in parts, the two machines share
   one message per frame. *Correct:* the screen shows whole messages in order,
   no message is forgotten without a fault, the device comes back to popping.
9. Web sessions and routes, configuration, mongo client, calendar client,
   rasterization, migrations, user interface, mock device: not modelled, see
   section 8.

## 2. Modules

| module | role |
| --- | --- |
| `RedisLink` | one redis command on one connection: answered, cut before it was run, or cut after; the budget of faults |
| `JobBoard` | abstract: what the job system promises a poller |
| `JobQueue` | detailed: both producers, the worker's frame and batch, result recording, crashes; refines `JobBoard` |
| `JobQueueProofs` | theorems about `JobQueue` |
| `MCJobQueue` | small instances of `JobQueue` |
| `RenderPipeline` | producers of renders, the renderer's tick, the device lists, the display |
| `RenderProofs` | theorems about `RenderPipeline` |
| `MCRenderPipeline` | small instances of `RenderPipeline` |
| `DeviceSchedule` | schedule documents: the periodic check, runs with nonces, toggles |
| `DeviceScheduleProofs` | theorems about `DeviceSchedule` with one worker |
| `MCDeviceSchedule` | small instances of `DeviceSchedule` |
| `DeviceState` | what one device is to show: transitions of the stored state and renders of it |
| `DeviceStateProofs` | theorems about `DeviceState` with one worker |
| `MCDeviceState` | small instances of `DeviceState` |
| `Ownership` | who may use a device, who owns it, whose list it is on |
| `OwnershipProofs` | theorems about `Ownership` |
| `MCOwnership` | small instances of `Ownership` |
| `Provisioning` | the id pool, ACL users, devices that take an id and log in, operators who revoke; refines `Identities` |
| `Identities` | abstract: ids are made, handed out once, lost, revoked and forgotten |
| `ProvisioningProofs` | theorems about `Provisioning`, and that it implements `Identities` |
| `MCProvisioning` | small instances of `Provisioning` |
| `Diagnostics` | reports of devices, registration states, the clean up of silent devices |
| `DiagnosticsProofs` | theorems about `Diagnostics` |
| `MCDiagnostics` | small instances of `Diagnostics` |
| `Mailbox` | abstract: what a device promises of the messages it takes |
| `Firmware` | the loop of one device: wifi machine, redis machine, reader, screen; refines `Mailbox` |
| `FirmwareProofs` | theorems about `Firmware` |
| `MCFirmware` | small instances of `Firmware` |

All detailed modules but `Ownership`, which only uses mongo and the job list,
extend `RedisLink`. `JobQueue` keeps the whole protocol of the job list and
abstracts what a job does; `DeviceSchedule`, `DeviceState` and `Ownership` keep
what some kinds of job do and abstract the protocol to a FIFO list whose entries
a crash loses (`NoJobForgotten` and `AtMostOnce` are what they rely on). Any job
may push a render (`OtherPush` of `RenderPipeline`). The life of a device is cut
where its state is: `Provisioning` says how it gets an id and loses it,
`Diagnostics` what the system then knows of it, `Ownership` who may use it, and
`Firmware` what happens on the device itself. `Provisioning` sees a device by
the state of its connection only and `Firmware` sees the pool and the workers by
the answers they give; where one names a choice (`Login` of `Provisioning`, the
id that `Serve` of `Firmware` hands out with full or half rights) the other has
the reason for it. `Diagnostics` takes the silent devices that it cuts off from
its own records, `Provisioning` any of those that have an id.

### How `JobQueue` corresponds to the code

`results` is the results hash and `queue` the job list. `request` is how far
`api/worker.rs queue_job` has come for one job and `web` the state of its one
connection: after an error it stays `"broken"`, because `get_redis_lock` only
connects when there is no connection at all. `conn`, `pc`, `busy`, `processed`,
`failures` are a worker's connection, position, sampled length, batch counter
and the `failures` vector of `bin/beetle-registrar.rs`. `job` and `child` are
the job in hand and the one half enqueued. `verdict` and `lost` are history
variables.

* `RequestMark`, `RequestPush`, `RequestTimeout` - `queue_job`: HSET pending,
  RPUSH, or giving up on the lock before either.
* `Connect`, `ConnectFails`, `Sweep` - the start of `Worker::work`: a frame
  without a connection only connects; otherwise the length sample, `fill_pool`
  and `mark_active`, whose errors end the frame and take the connection with it.
* `EnqueueMark`, `EnqueuePush` - `WorkerHandle::enqueue`, both from
  the schedule check and from a running job (`MayEnqueue`). Its errors are
  logged in the former and fail the job in the latter.
* `StartBatch`, `PopJob`, `PopExpired`, `EndBatch`, `PopFails` - the pops of
  the batch loop. `PopFails` ends the frame as a good one and keeps the broken
  connection: the next frame's `Sweep` fails and removes it.
* `Execute`, `Abort`, `Report` - the job's own work ends with a verdict, or
  returns early without one, and the outcome is written with HSET.
* `Crash` - the process dies between any two steps and is started again.

What a job does in mongo is abstracted to the choice of its verdict, restricted
where the code restricts it: a job that percolates another succeeds only if both
commands of that enqueue succeeded, and no job succeeds after a command erred.

### How `RenderPipeline` corresponds to the code

`queue` is the render list, `messages[d]` a device's list, `held`, `sendError`
and `link` the locals and the connection of `rendering/renderer.rs tick`, which
is `Pop`, `Measure` and `Trim` (`clear_pending`), `Send` or `RasterizeFails`
(`send_layout`), `Record` or `Forget`. An error of `Measure`, `Trim` or `Send`
is logged and the tick goes on with the same connection, so every later command
of that tick errs; the next `PopFails` drops it. `WebPush` and `WebMark` are
`api/worker.rs queue_render`, in that order. `Show` and `Miss` are the device's
pop, the second with its reply lost.

### How `DeviceSchedule` corresponds to the code

`doc[d]` is the schedule document; time is the step of `last_executed` from
`"recent"` to `"old"` (`Elapse`). `registrar/schedule.rs check_schedules` is
`Find` (the query), one `Refresh` per due and eligible document (new nonce,
enqueue; an error is logged and the nonce stored all the same), then one
`StoreNonce` each, then `EndCheck`. `registrar/device_schedule.rs execute` is
`Ignore`, or `Begin` (read) and `Finish` (write back the time and the nonce that
was *read*); `toggle` is `Begin`, `ToggleReplace` (the whole document that was
read, switched) and `ToggleEnqueue`. `JobFails` is any of the errors that end
them early. The document that a first toggle inserts equals one that nobody
looks at, so documents exist from the start. `lost` holds the nonces whose run
failed or was lost. A uuid that occurs nowhere any more may be used again, which
keeps the state finite without a bound on periods; `DeviceScheduleProofs` shows
that it is found wherever uuids do not run out.

### How `DeviceState` corresponds to the code

`rendering` is the state document of one device. `registrar/device_state.rs
attempt_transition` is `Load`, `Write` (with `NextState`, which holds the table of
transitions) and `Percolate`; `render_current` is `LoadToRender` and
`QueueRender`. `display` is the state for which a render was last queued; other
renders of the same device (lights, images, links) are left out. `Ask` is any
route that queues one of these jobs.

### How `Ownership` corresponds to the code

`account` and `list` are a user document, `authority` the authority record,
`nickname` and `claimant` the two fields of the diagnostic that matter here.
`UserAccess` is `registrar/access.rs user_access`: the upsert that makes whoever
asks first the owner, then the comparison. `Register`, `Check` and `Enqueue`,
`ReadToUnregister` and `Unregister` are the routes of `api/devices.rs` and
`api/jobs.rs`; between `Check` and `Enqueue` anything may happen, and the job
holds no user. `registrar/ownership.rs register_device` is `ReadUser`,
`ReadDevice`, `ClaimAccess`, `WriteUser` (the whole document as it was read, with
the device) and `Own`; `process_change` is `ReadModel` and `Replace`;
`registrar/rename.rs` is `Rename` and `Spread`, which reaches some of the users
that have a list. `Abandon` is a fatal error or the end of the process anywhere.
`access`, `expected`, `overtaken` and `missed` are history variables: who was
ever let through, what the requests that were carried out say, and the two named
ways in which a list may be off.

### How `Provisioning` corresponds to the code

`pool` is the list of unused ids and `acl` the redis users with their rights.
`registrar/pool.rs fill_pool` is `Fill` (LLEN), `CreateUser` (two SETUSER
commands for each id, whose errors are logged) and `PushIds` (one LPUSH, whose
error ends the frame). A device is `stored`, the id in its flash memory, and
`conn`; `LoginBurnIn`, `TakeId` and `Login` are the authorization states of
`lib/redis-events/redis-events.hpp` with the outcome that redis decides.
In `bin/cli/acls.rs`, `provision` is `Provision` and `invalidate_acls` is
`ListUsers`, `DeleteListed`, `ClearPool`, and `DisconnectSilent` is the last
step of `bin/cli/disconnects.rs`. `doomed` is a history variable: ids that were
revoked while a worker or a device had them. `Identities` is what remains of it
for a device: `held` is `stored`, `spent` are the created ids that neither wait
in the pool nor in the hand of a worker (`Spent`), and `valid` the ids that are
redis users (`Valid`).

### How `Diagnostics` corresponds to the code

`reports` is the incoming list, `known` and `lastSeen` the registration state
and the time in a diagnostic. `registrar/diagnostics.rs mark_active` is `Take`
(LPOP), `Upsert`, `Welcome` (queueing the code), `SetPending` and `Index` (SADD);
which errors end the frame and which are logged is kept. What `register_device`
does to the diagnostic is `FindDevice`, which reads it, and later `Claim`, which
sets the state, or `Refuse`; the access check and the user's list in between are
in `Ownership`. `bin/cli/disconnects.rs` is `FindSilent`, `DeleteSilent` and
`DisconnectSilent`. `welcomed`, `claimed`, `overtaken` and `excused` are history
variables.

`Record` is the upsert that three places share: `SetPending`, `Claim` and the
command `ResetRegistration`. Where there is no diagnostic it makes one that has
an id and a state only. `first_seen` is required of a document that is read
(`schema/mod.rs:169-174`: `#[serde(with = ...)]` without a default), and
`mark_active` sets it with `$setOnInsert` only, so such a diagnostic stays in
`unreadable`: `Upsert` updates it and then ends the frame with an error,
`FindDevice` fails, `FindSilent` skips it, and `DeleteSilent`, which reads
nothing, removes it along with those that were found.

### How `Firmware` corresponds to the code

One step of the device is one frame: `Wifi` chooses what the wifi machine says
and `Redis` handles that message in the same frame, as the loop of the device
does. `stage` is the alternative of the redis machine's variant and, below it,
of the authorization; `task` and `due` are the working state; `owed` and
`buffer` are the reader of `redis-reader.hpp` and what it wrote. `Connect`,
`ReadOk`, `TimeOut`, `RequestId`, `ReadId`, `Write`, `ReadBeat` and `ReadPop` are
the branches of `initial_auth`, `read_ok`, `request_id`, `read_id` and `work`;
`Stop` and `Pause` those that look at the wifi message first. Bytes are
abstracted to *parts*: a string is its header and its rest, an OK may come in
two, and a string that lacks something takes in whatever comes next, as many
parts as it lacks. `Serve`, `Cut` and `Revoke` are redis, the network and
the operators; `Send` and `Clear` are `send_layout` and `clear_pending` of a
renderer. Renderers push on the left of the list and the device pops from the
left, so which of several messages comes next is theirs to answer for
(`NeverBackwards` of `RenderPipeline`); the device sees only that there is one.
`Firmware` therefore counts the messages in the list (`pending`) and numbers them
as redis takes them out (`taken`): its properties speak of the order in which the
device is handed messages. `lost` is history, and the mapping to `Mailbox` takes
what is on the screen for `shown`.

## 3. Runs

| run | configuration | what it shows |
| --- | --- | --- |
| `job_queue` | 2 workers (symmetric); a toggle job that percolates a run, a timer job found stale, a scannable-link job that returns early; batch of 2, exit after 2 failures, 2 faults | `TypeOK`, `QueuedIsPending`, `OneHolder`, `PendingIsOwned`, refinement of `JobBoard` |
| `job_queue_live` | 2 workers; toggle, run, timer; batch of 1, exit after 1 failure, 1 fault; weak fairness of each worker | `AnsweredEventually` |
| `renders` | 3 renders (one from the web), 1 device, 2 renderers of which one has a mongo client, 2 faults; weak fairness of each renderer | `TypeOK`, `BacklogBounded`, `NeverBackwards`, `AnswerIsTrue`, `HandledEventually` |
| `renders_marker` | 2 renders, 1 renderer, no fault | violation of `ProcessedIsKnown`, see section 6 |
| `schedule` | 1 device, 1 worker, 3 toggles, 3 faults, any number of periods and failing runs; weak fairness of the worker | `TypeOK`, `SkippedIsOwed`, `OncePerPeriod`, `RefreshedEventually` |
| `schedule_race` | 1 device, 2 workers, 1 toggle, no fault | violation of `SkippedIsOwed`, see section 6 |
| `device_state` | 4 messages (symmetric), 1 calendar, a clear, a refresh, limit of 2 messages, 1 worker, 1 fault | `TypeOK`, `DisplayIsCurrent`, `NewestIsDisplayed` |
| `device_state_retain` | the same without fault | violation of `RetainsNewest`, see section 6 |
| `ownership` | 2 users, 2 devices, 1 name, 2 workers (symmetric), the requests of `MCRequests`, jobs abandoned anywhere | `TypeOK`, `OpenedByOwner`, `ListedOnlyIfGranted`, `ListIsCurrent`, `OwnerIsForever` |
| `provisioning` | 2 workers, 2 devices, a pool of 1, 3 ids, 1 operator's chore, 1 fault; weak fairness of workers and devices | `TypeOK`, `IdsAreUnique`, `PooledIdsWork`, `PoolBounded`, refinement of `Identities`, `WorksEventually`, `RefilledEventually` |
| `diagnostics` | 1 device, 2 workers, 2 chores, 3 faults; weak fairness of workers and of reports, strong fairness of the next frame | `TypeOK`, `ClaimIsKept`, `SilentOnlyAreCut`, `WelcomedEventually` |
| `firmware` | 3 messages, strings that swallow up to 3 parts, 5 faults; weak fairness of frames and of redis | `TypeOK`, `ShownIsWhole`, `NoneForgotten`, refinement of `Mailbox`, `WorksEventually`, `PoppedEventually` |

**Why the bounds are enough.** Two workers show every race on a list or a hash,
because a redis command is atomic and each job has one producer and one
consumer: a third process can only take the place of one of them. A batch of 2
distinguishes the first and the last job of a batch. Two faults allow a fault
during the recovery of another. Jobs are created once (uuids), so their number
bounds every list; four jobs are one of each kind the worker treats differently.
For renders, two renderers are the least that can overlap on one device list and
the bound of `BacklogBounded` is stated in their number; one of the two has a
mongo client and one has not (`OneHasMongo`), since the ones without differ only
by their early return, and a second fault comes only while some render is not
queued yet (`FaultBound`). The cap on faults
(`MaxFaults`) bounds how often something breaks, never what may break.
Schedules of different devices share nothing but the order of the worker's
commands, so one device shows what can happen to one; three faults allow two
restarts between an enqueue and the storing of its nonce and one more failure.
The schedule properties hold of one worker process and are checked so; that one
of them fails with two is a finding. The limit of retained messages is 2 instead
of 4; four messages pass it twice, by one and by two. The device state runs have
one worker too: two workers may overwrite each other's change, which the code
does nothing against and no document rules out, and the invariants then fail.
For ownership, two users are the owner and another one, who may be a guest, a
second claimant or a bystander; two devices show that a list written back from
an outdated read undoes what was said of another device; two workers are two
overlapping read and write sequences, and the requests (`MCRequests`: three
claims, two changes of the model, a rename, an unregistration) let every kind of
job meet every other, two claims of one user and two of one device included. For provisioning, a pool of 1 makes every id the
first and the last of its batch, and three ids let both workers fill it at once
and again after a revocation; `ProvisioningProofs` covers larger batches. For
diagnostics one device suffices, because two have nothing in common but the
workers' positions and a clean up, which may delete the unreadable diagnostic of
one because it found the other's (two devices and one worker were tried as well,
and the theorems cover any number); two chores are a reset or clean up during the
recovery from another. That a claim may precede the reports of the first frame
of a connection is allowed though the code has them in order. For the firmware, three messages are one on the screen, one on its way
and one waiting; five faults are an interruption, a broken connection, a revoked
user, a restart and one more in any order; three parts are more than any single
answer that is not a message.

`CHECK_DEADLOCK FALSE` is set since all jobs may be done, all requests
over and all workers out.

**Symmetry** of workers is used in `job_queue` and `ownership`, of messages in
`device_state`; none of these runs has a liveness property, and a finding that
names states (`device_state_retain`) uses none.

## 4. Fairness

Each registrar process runs `while failures.len() < 10 { worker.work().await }`
and each renderer `loop { worker.tick().await }`; nothing in either waits for
anything but a redis command, which ends with an answer or an error. So each
keeps taking steps: `WF_vars(Work(w))`, `WF_vars(Tick(w))` and, for the frame
as `DeviceSchedule` sees it, `WF_vars(Check(w) \/ Batch(w))`, of the process as
a whole. A device runs its loop: `WF_vars(Step(d))` as `Provisioning` sees it,
`WF_vars(Frame("none"))` in `Firmware`, where a frame without a wifi message is
always one of the machine's alternatives, and it reports as long as redis lets
it (`WF_vars(Report(i))` of `Diagnostics`). A frame carries out a bounded number
of jobs, so a worker that may go on to its next frame again and again does so
(`SF_vars(Begin(w))` of `Diagnostics`); that a claim is made is not assumed.
Redis answers what it has received
(`WF_vars(Serve)`). No fairness is assumed of the outcome of a step, of web
requests, of users and operators, of restarts, of the wifi, or of faults.

## 5. Theorems

`JobQueueProofs` proves, for every set of jobs and workers, every batch size,
failure limit and number of faults allowed by the assumptions of `JobQueue`:

* `TypeCorrect`: `Spec => []TypeOK`.
* `QueuedReadsPending`: `Spec => []QueuedIsPending`.
* `AtMostOnce`: `Spec => []OneHolder`.
* `NoJobForgotten`: `Spec => []PendingIsOwned`.
* `QueueImplementsBoard`: `Spec => ImplementsBoard`, the refinement.

All follow from one inductive invariant, `IInv` (theorem `Inductive`). None of
the properties is inductive by itself. `QueuedIsPending` needs to know that a
job is pushed only by the one process that marked it, so `IInv` says which jobs
are *claimed* - waiting, held by a worker, half requested - and that a claimed
job is pending, that claims exclude each other, and that a job without a claim
and without a marker is untouched. The refinement also needs that a job that is
claimed has no verdict yet unless its worker is about to report it: otherwise a
second `Execute` could change an outcome. The proof that a step preserves
`IInv` has one lemma per action; the actions that change no claim share a
lemma. Assumptions used: `JobsAssumption` (ids are unique, a job percolates at
most one job and no two jobs the same), `BoundsAssumption`, `FaultsAssumption`.

`RenderProofs` proves, for every set of renders, devices and web requests, every
finite set of renderers and every number of faults:

* `TypeCorrect`: `Spec => []TypeOK`.
* `BacklogIsBounded`: `Spec => []BacklogBounded`.

`BacklogBounded` is not inductive: a list that is full may be pushed on by a
renderer that emptied it earlier. The invariant, again called `IInv`, adds to
the length of a device's list the renderers that are about to push on it over a
working connection (`Senders`), and bounds the sum by the number of renderers
(`Room`). A renderer joins the senders only when it has just read the list empty
or has just emptied it, and then the sum is at most the number of renderers
because the senders are a set of them; it leaves them with its push. That a
renderer whose read or trim failed pushes nothing is what makes the sum work:
the code logs the error and goes on to push, but over the same, broken
connection. One lemma shows it for each command on the list, one for all the
steps that neither lengthen a list nor bring a renderer to its push. Assumptions
used: `RendersAssumption` (every render has a device, renderers are finitely
many) and `FaultsAssumption`.

The same module proves, of the same constants:

* `Places`: a render waits at most once, or is in the hands of one renderer, and
  one that waits is untouched: not sent, without a verdict, taken by nobody
  (`Waiting`, `InHand`).
* `AnswersAreTrue`: `Spec => []AnswerIsTrue`.
* `NeverBack`: `Spec => []NeverBackwards`.

`AnswerIsTrue` alone does not survive a step, because a renderer that believes
its send failed may be wrong: the command may have been run. `InHand` therefore
says that a renderer's belief is right *or its connection is broken*, and over a
broken connection the belief is never recorded. `NeverBackwards` needs `Order`:
no render is taken twice and the one in hand was taken last (`Lineage`), a
device has only what was sent (`Placed`), its list holds at most one render of
each renderer (`OneEach`), what waits is newer than what was shown
(`NewerWaits`), and a renderer about to push over a working connection has none
left there (`NoneLeft`). That last part is where the read, the trim and their
logged errors come in.

`DeviceScheduleProofs` proves, for every finite set of devices, any number of
requests and faults (`ScheduleAssumption`, `FaultsAssumption`), and as long as
uuids do not run out (`UuidsSuffice`: no finite set holds them all):

* `Types` (`TypeOK`, for any finite set of workers), `SkippedAreOwed`
  (`SkippedIsOwed`) and `RunsAreRationed` (`OncePerPeriod`), the last two for one
  worker (`OneWorker`): with two, `schedule_race` shows the first of them fail.

A new nonce is a `CHOOSE`, so `NewNonceIsNew` first shows that one exists: finitely
many documents, jobs and workers hold finitely many nonces. The invariant
(`NoncesAgree`) drops the time from `SkippedIsOwed` - wherever the two nonces of a
document differ, due or not, the run of the stored one exists or is lost
(`StoredIsOwed`) - and adds that this also holds of a nonce that is yet to be
stored, whose device then stays due (`UpdatesAreOwed`), that a job in progress
works with the nonces that are stored (`ReadIsStored`), that no two jobs have the
same nonce (`RunsDiffer`), and that what was run has no second job (`RunOnce`).

`DeviceStateProofs` proves, for every set of messages and calendars, every limit of
the list and any number of faults (`DeviceStateAssumption`, `FaultsAssumption`):

* `TypesAreKept` (`TypeOK`, for any set of workers), `ChangesAreDisplayed`
  (`DisplayIsCurrent`) and `NewestReachesDisplay` (`NewestIsDisplayed`), the last two
  for one worker (`OneWorker`).

The invariant (`IInv`) says that what the worker read is still what is stored
(`ReadIsStored`), that a change is displayed, or its render is waiting, under way
or bound to be queued (`ChangesShow`), and that the last message written is stored
(`NewestIsStored`). `PushTypes` shows where the limit of the list ends: one above
the constant, with the new message always in it.

`OwnershipProofs` proves, for every set of users, devices, names, requests and
workers that `OwnershipAssumption` allows:

* `Types`, `OwnersStay` (`OwnerIsForever`), `OnlyOwnersOpen` (`OpenedByOwner`),
  `ListsAreGranted` (`ListedOnlyIfGranted`), `ListsAreCurrent` (`ListIsCurrent`).

The invariant (`Reliance`) adds what a job may rely on although it asks nobody:
a queued change of a model was granted to somebody who was let through
(`UnderWay`); what a worker holds of a record names its owner (`InHand`); a record
that is not exclusive, or is about to be replaced by one, was opened by the owner
(`Guarded`); whoever is about to be put on a list was let through (`Vouched`).

`ProvisioningProofs` proves, for every number of workers, devices, ids, chores
and faults and every size of the pool (`ProvisioningAssumption`,
`FaultsAssumption`):

* `Types`, `UniqueIds` (`IdsAreUnique`), `WorkingIds` (`PooledIdsWork`),
  `BoundedPool` (`PoolBounded`), `WorkersImplementIdentities`
  (`ImplementsIdentities`).

The invariant (`Supply`) says that ids in hand are newer than all others and the
batches disjoint (`Created`), that a worker whose connection never broke has
granted exactly the rights its counter says, unless its ids are doomed
(`Entitled`), and that the pool has room for every batch in hand: a worker that
began to fill found the pool low, whatever the others have pushed since
(`Filling`, `Room`). The count of workers that are about to push, with a bound
on the sum, is the same idea as the `Senders` of `RenderProofs`.

The refinement of `Identities` rests on `Supply` and on one fact more: a device
that asks for an id has none (`AsksWithoutId`), since else the answer would
replace an id that still works. A user is only ever created for an id in hand
(`NextGrant`), which is therefore not spent, so that creating users is `Make`
whatever was revoked meanwhile; no other step of a worker brings a spent id back
(`WorkSpends`): it is a `Waste`, of nothing if all goes well. Taking an id is
`HandOut`, being refused `Forget`, and what operators delete is `Revoke`, or
`Waste` when they clear the pool.

`DiagnosticsProofs` proves, for every set of ids and workers
(`DiagnosticsAssumption`, `FaultsAssumption`):

* `Types`, `ClaimsAreKept` (`ClaimIsKept`), `OnlySilentAreCut`
  (`SilentOnlyAreCut`).

The invariant (`Knowledge`) adds that no worker is about to write over a claim
that is not marked as overtaken (`NoClaimInHand`), and that whom an operator has
named was silent when named, or is excused (`NamedAreSilent`). Diagnostics that
no worker can read need nothing more: what is shown of claims and of users holds
whatever becomes of the frame.

`FirmwareProofs` proves, for every number of messages and of faults, and every
number of parts that a half-read string may swallow (`FirmwareAssumption`,
`FaultsAssumption`):

* `Types`, `WholeMessages` (`ShownIsWhole`), `NoneIsForgotten` (`NoneForgotten`),
  `OrderOnScreen` (`ShownInOrder`, which no run checks on its own, since
  `ShownIsWhole` and the refinement imply it).
* `DeviceImplementsMailbox`: `Spec => ImplementsMailbox`, the refinement.

None of these is inductive: the reader and the buffer outlive connections, so
what a part does depends on what other connections left. The invariant (`IInv`,
theorem `Inductive`) finds where the past is forgotten. Until the device works,
nothing on the wire carries a message, and an OK can only be the last thing on it
(`SignIn`); the device goes on only when it sees an OK *as one*, which takes a
reader between two strings. So it comes to work with an empty wire and a clean
reader. From there on, what was read of an answer (`Progress`) and what is on the
wire (`Follows`) are two pieces of one answer, or of the beginning of one if the
connection broke (`AtWork`), and redis has no command unless the wire is empty
(`Requests`). For the refinement it is enough to add that a lost message is on no
way to the device any more (`LostForGood`): a step that shows a message finds
nothing older that is still to come, and a connection that ends loses only what
was coming or is popped for it in vain.

**Model-checked only.** All liveness properties: fairness and ENABLED are out of
this prover's reach. Every other property of the passing runs is a theorem; those
of the `schedule` and `device_state` runs that hold for one worker only are proved
under that assumption.

## 6. Findings

* `renders_marker`: `api/worker.rs:136-150` (`queue_render`) writes the pending
  marker of a render *after* it pushed the render, unconditionally. A renderer
  that is faster has already written the outcome, which is then overwritten, and
  the client polls a finished render for ever - against
  `rendering/renderer.rs:179-180`, "This is how clients know the render has been
  processed in the background". `queue_job` in the same file marks first, and
  `QueuedIsPending` shows that this order is right.
* `schedule_race`: `registrar/schedule.rs:261-291` stores the nonce of a run
  after enqueueing it. With two registrar workers, one may pop the run before
  the other has stored its nonce; the run is then carried out, or ignored,
  against the older nonce, and the new one is stored although no job carries it.
  From then on the two nonces of the document differ and every check passes it
  over ("will be handled by next execution job", `schedule.rs:252`) until a user
  toggles the schedule.
* `device_state_retain`: `registrar/device_state.rs:377-380` cuts the list of
  messages with `Vec::pop`, at the end at which it then adds: the oldest messages
  stay, each new one replaces the one before, and one more than the limit is
  kept - against "Older messages are popped off" (line 11).

More facts the models make visible, without a run of their own:

* A schedule whose run *fails once* after its nonce was stored (a calendar
  error, an expired token) is passed over for ever in the same way - the `lost`
  of `SkippedIsOwed` and `RefreshedEventually` is exactly this exemption; and
  `OncePerPeriod` needs its premise, since before a first nonce is stored two
  queued runs both count as valid.
* A device is *stranded* (`Stranded` of `Firmware`) in four ways: the message
  that the wifi is back after an interruption stops the connection
  (`redis-events.hpp:447-451`) and is used up by that, so nothing has the machine
  connect again; in the states that wait for an id or for work no timeout
  applies and nobody looks at the connection; the nil reply of an empty pool and
  an error reply of redis mean nothing to it. And the reader is never reset: a
  string that was half read when a connection ended takes in the first answers
  of the next.
* `bin/cli/acls.rs:149` deletes all users while a registrar worker may be between
  the two SETUSER commands of an id: the second brings back a user with half its
  rights, and a device that is handed this id logs in and can do nothing
  (`doomed` in `PooledIdsWork` and `WorksEventually`).
* `ResetRegistration` of a device that has no diagnostic, because it has yet to
  report or was cleaned up, has the opposite effect of what the command says
  ("so the renderer will send a new registration qr code",
  `bin/beetle-cli.rs:47`). It makes a diagnostic without `first_seen`, which no
  worker can read (`unreadable` in `WelcomedEventually`): every report of the
  device updates it and then ends the frame of the worker with an error
  (`diagnostics.rs:98-102`), which counts towards the ten after which the process
  exits, no code is ever queued, and no user can claim the device.
  `clean_disconnects` does not find it either (`disconnects.rs:82-87`): it is
  deleted only along with a readable one, and then its user stays. A claim or a
  welcome that comes just after a clean up deleted the diagnostic makes the same.
* Any access check of an unclaimed device makes the user who asks its owner,
  whoever claims it at the same time (`Upsert` of `Ownership`).
* A change of the authority model is carried out for anyone with access: in the
  public model "the owner is the only one who can toggle" (`schema/mod.rs:70`),
  but the job does not know who asked. `OpenedByOwner` holds because only an
  exclusive device can be made public, and only its owner gets that far.
* The guests of a public device, "re-added to the shared list"
  (`schema/mod.rs:73`), stay empty, because the update that would store them has
  no operator and is refused. The "first" user to register a device
  (`schema/mod.rs:105`) is replaced by every later one.
* A rename puts the device on the list of *every* user who has a list, not only
  of those "that have added the device" (`registrar/rename.rs:15-16`), and stops
  at the first user whose list is null. `ListedOnlyIfGranted` excepts it.

## 7. Plan

Done, in the order in which the rest of the system rests on it: `RedisLink`,
`JobBoard`, `JobQueue`, `RenderPipeline`, `DeviceSchedule`, `DeviceState`,
`Ownership`, `Provisioning`, `Identities`, `Diagnostics`, `Mailbox` and
`Firmware`, each with the proofs of all its safety properties.

Open, in order of worth: an abstract specification of `RenderPipeline` as a
producer of what `Mailbox` takes; the refresh of access tokens; a run of
`JobQueue` with a small `CounterRange`, in which the sampled length wraps.

## 8. Not modelled

Web sessions, login and routes (requests, cookies and reads of mongo; their
only redis state changes go through the connection that is modelled);
configuration; the mongo client; the calendar client (its failures are failing
verdicts); rasterization, layout and fonts (a failure is `RasterizeFails`);
one-off migrations; the user interface; the mock device. The conversion of a job
to JSON and of its secrets to tokens is left out but for its effect: a token that
expired makes a popped job undecodable (`PopExpired`).

Of modelled components: the refresh of access tokens (the first half of
`check_schedules` in `registrar/schedule.rs`, and `registrar/users.rs`), whose
outcome is up to an external service and of which the rest of the system sees
that a calendar request fails: a failing run in `DeviceSchedule`; the render history of a device, which nothing reads
back; the redis set of seen ids, which nothing reads; how a user types wifi
credentials into a device, the light and the proximity sensor; a message larger
than the buffer of the firmware (80 KiB); the limit of ten schedules per check
(`schedule.rs:226`), which needs more schedules than an instance can hold. The
bytes of the redis protocol are abstracted to parts, and time to the choice that
a wait ends.

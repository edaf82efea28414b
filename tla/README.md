# AX9000 proxy control: models, checks and proofs

TLA+ specifications of the web console in this repository: a Go program that
switches an AX9000 router between two proxy services which must never run
together (ShellCrash and LeiGod), guards itself with a password, and operates a
node guard through cron.  The modules are translated from the Go sources; what
lies outside the repository (the mode command `router-proxy-mode`, the services,
`crond`, the guard program, the kernel) is an environment of which only what the
code relies on is assumed.

    tlc -workers 2 -config ModeSwitchSafety.cfg MCModeSwitch.tla
    tlapm ModeSwitch_proofs.tla

## 1. The system

| Part | State it keeps | Operations | Interacts with |
|---|---|---|---|
| Mode actions (`router.go`, `api.go`, `app.go`) | `actionMu`, the last action | start, restart, stop, verify, roll back | mode command, mode file, `/proc`, HTTP deadlines |
| Status and health (`router.go`) | none | scan of `/proc`, devices, mode file, memory, load | called by actions, sessions, metrics |
| Credentials (`auth.go`, `password.go`, `config.go`) | sessions, failed logins, the password in memory and in the file | login, logout, me, change the password | session store lock, `credentialMu`, file system |
| Node guard (`nodeguard.go`) | `nodeGuardMu`; the cron table and crond outside | run, enable, disable, status | guard program, cron |
| Metrics sampler (`metrics.go`) | one baseline of counters | sample | all pollers share it |
| Network sessions (`sessions.go`) | the registered devices, cached for a second under `targetMu` | report | status, Mihomo controller, conntrack, ipset |
| Audit log and logs (`audit.go`, `logs.go`) | a ring of 500 entries | add, snapshot | every handler |
| Web client (`web/app.js`) | CSRF token, busy flags, the view | polls, actions | all of the API |
| Life cycle (`main.go`, `packaging/`, `scripts/`) | none | start, 5 s shutdown, respawn, install | procd |

Every request is a goroutine of its own.  Handlers meet at seven locks
(`actionMu`, `authStore.mu`, `credentialMu`, `nodeGuardMu`, `targetMu`, those of the
sampler and of the audit log), at files that other programs write as well, and at
processes that nobody waits for.  Hard are

* the order of system calls that no lock of the program protects: a scan of
  `/proc` and then the mode file; a cron table and then crond; a rename and then
  the password in memory;
* four clocks that run independently: the contexts of a switch and of a
  rollback (50 s each), the write deadline of the server (50 s from the header),
  the ticker of the verification loop;
* a mode command that fails, hangs or is killed halfway and is then followed by
  another one, the rollback;
* handlers that read something under a lock and use it after the unlock;
* requests that queue behind one command that may hang;
* a crash of the console, or a power cut, between any two steps, and a mode command
  that outlives the console.

What makes each part correct: for the mode actions, mutual exclusion of the
services, verdicts that are true, replies about the right action, and an answer
for every request, also when the console dies in between; for the credentials, that
memory, file and disk agree and make one register, that lockout works, that a change
logs everybody out; for the node guard, that
operations exclude each other, crond does what the table says, the lines of others
survive and the mutex is always given back; for the sampler, that rates and usage are
never computed over a reset or a stale baseline; for the reports, that a list of
devices is not older than the cache allows and that nobody waits longer than for one
command; for the audit log, that it is the newest suffix; for the
client, that one action is sent at a time, that the page comes to show the
status of the router and that it notices the end of its session.

## 2. Modules

| Module | Contents |
|---|---|
| `ProxyModes` | modes, processes, actions, the test a switch must pass |
| `SerialActions` | abstract: what README promises of actions, without mutex, commands, clocks |
| `ModeSwitch` | `performAction` and everything it calls; refines `SerialActions` |
| `ModeSwitch_proofs` | its theorems |
| `InterruptedActions` | abstract: what is left of `SerialActions` when the console may die |
| `ConsoleRestart` | `ModeSwitch` in a console that is stopped, killed and started again, with mode commands left behind; refines `InterruptedActions` |
| `ConsoleRestart_proofs` | its theorems |
| `PasswordRegister` | abstract: one register that is compared and replaced in single steps |
| `Credentials` | login, logout, me, password change, `writeConfigAtomic`, crashes, power losses; refines `PasswordRegister` |
| `Credentials_proofs` | its theorems |
| `GuardSchedule` | abstract: one scheduled check, switched by one operation at a time, that crond follows |
| `NodeGuard` | TryLock handlers, the goroutine of a check, the cron rewrite with its rollback, the status probe, other programs that edit the table; refines `GuardSchedule` |
| `NodeGuard_proofs` | its theorems |
| `Metrics` | the sampler of rates and processor usage with its shared baselines, the browsers that poll it |
| `Metrics_proofs` | its theorems |
| `AuditLog` | the events kept, their limit and the excerpts of them |
| `Reports` | status, sessions and logs asked for at the same time: the cache of devices, ipset, the controller, the audit log |
| `Reports_proofs` | its theorems |
| `WebClient` | one page of `app.js`, its requests, the handlers that answer them, the network |
| `WebClient_proofs` | its theorems |
| `MCModeSwitch`, `MCConsoleRestart`, `MCCredentials`, `MCNodeGuard`, `MCMetrics`, `MCReports`, `MCWebClient` | definitions for TLC |

### ModeSwitch

A request `r` goes `idle -> lock -> exec -> wait -> scan -> check -> select ...
-> status -> write -> idle`.  `Begin` is the lock, `readMode` and the table of
actions; `Exec` starts a command unless the context has expired;
`CommandReturns` is the return of `CombinedOutput`, where an expired context
turns an exit status of 0 into an error; `Scan` and `Check` are the two halves of
`currentStatus` (processes first, mode file afterwards); `Retry` and `GiveUp` are
the two cases of the `select`.  `Fail` is the one place where an error becomes a
rollback or the end.  `Status` reads `last` for the reply and releases the mutex,
`Respond` or `LoseResponse` writes it before or after the write deadline.  The
phases `stop`, `switch` and `rollback` tell which command it is; `Goal` is what
this command, and its verification, are about.

The mode command takes the other services' processes down (`ScriptStops`),
records the mode, launches the service, in any order except that the launch
comes after the stop; it may skip the rest at any time, with an error, or with
success once the others are down; it is killed when its context expires.  A
launched process appears later (`ProcessUp`), also after the command is gone, and
may be lost (`ProcessLost`).  Not more is assumed, so whatever is shown here
holds for any mode command that stops the other service first.

A restart of the mode in force whose stop works and whose start does not ends without
a rollback, since `previous` equals the target (`MayRollBack`).  README promises a
restoration after a switch; `SerialActions` says what happens after a restart.

### ConsoleRestart

It extends `ModeSwitch`: every action of a handler is an action here while there is a
console, and `console` is `up`, `closing` or `down`.  `Signal` is the one `main` waits
for; from then on nothing is accepted, and requests in progress go on until `Exit`,
when `Shutdown` returns or its five seconds are over.  `Kill` is any other end.  Both
are `Dies`: the memory of `App` and of all goroutines is lost (`Forgets`), but not the
mode command.  `exec.CommandContext` kills a command from the goroutine that waits for
it, so a command that was at work is left behind (`left`), without a context that could
end it: it stops, records and starts (`LeftStops`, `LeftRecords`, `LeftStarts`) what it
still has to, or ends early.  `Respawn` is procd and the launcher.  The new console has
a free `actionMu`, and may start a command next to the one left behind: `overlapped`
remembers that.  Whether `router-proxy-mode` excludes a second instance of itself is
not in the repository, so exclusion is claimed up to such an overlap, and the
refinement of `InterruptedActions` without any such condition.

### Credentials

A browser has one request in flight and one cookie.  Each access to the session
store and each system call of the file replacement is a step.  `file` is what a
restarted process reads; `disk` is what it would read after a power cut: the
kernel may write the name back at any time (`WriteBack`), with the data only if
`Sync` had been called.  `WriteFails` is an error of any call up to the rename.
`granted` remembers for a session which password it was granted for.  The
5 minutes of the failure window and the life of a session end at any time.
Clients whose wrong guesses are not some other valid password behave like those
whose guesses are; so passwords are drawn from one set.

`PasswordRegister` is what all this looks like from outside.  The register is the
file: the rename is the moment a change takes effect, since logins wait for
`credentialMu` until the memory has followed.  The register is compared and replaced
in one step each, although a change compares at its beginning and renames at its end
with five system calls in between; a crash between rename and commit is one after the
change.  `settled`, the disk, is what a power loss brings back.  A session opened for a
check made before a change is allowed by the register (`Open` follows `Check` at any
distance): that is the finding `OldSessionsEnd`, and the one promise of README that the
register cannot make.  `OnlyRacingLoginsStay` says how far the code keeps it all the
same: a login that passed the check before the change and creates its session after
the store was cleared is the only way for a session of the old password to be left.

### NodeGuard

`Take` is the TryLock, `Conflict` the 409; `StartRun` hands the mutex to the
goroutine, which starts the guard (`RunStarts`) and unlocks (`RunEnds`) when its
process has gone.  The update reads, compares, writes, restarts cron and on an
error writes the old text back and restarts again, each of which can fail.
`Scan`, `Probe`, `Unlock` are the detection of a running guard in the status.  A
table is the guard's entry (none, ours, another line with the same command) and
whether the text has the layout `updateNodeGuardCron` gives it: the comparison of
bytes succeeds only for the latter.  `rest` stands for all the other lines, which
`updateNodeGuardCron` copies and other programs replace at any moment
(`OthersEdit`, in that layout or not); `edited` and `raced` remember how they were left and whether that was
while an update had already read the table.  `spoilt` is a history variable: a crash in
an update, or a second restart that failed as well.

The status takes the action mutex for a moment to see whether it is free (`Probe`), and
an action that comes in that moment is refused with 409 although no operation is under
way (`Conflict`).

`GuardSchedule` is what the user of the page may think of: an entry, a crond that
follows it, and operations that each happen alone.  `told` is the result a handler is
about to write.  The update under way is `Doing`; `Before`, the entry it found, is what
its `original` holds once it has begun to rewrite the table.  A write, a rollback and a
failed restart may each move table and crond apart for a while; the schedule lets that
happen only inside an update, lets it end there with a success only if the entry is the
one asked for, and in both cases only if table and crond agree, unless this or an earlier
update was cut short (`torn`, the `spoilt` of `NodeGuard`).

### Metrics

`Poll` is the two-second timer of a browser, `Enter` the lock and the reading of
the clock at the start of `systemMetrics`, `Sample` the reading of the counters,
the reply and the new baseline at its end; `SampleFails` is the sample when
`/proc/net/dev` cannot be opened.  In between the holder of the mutex reads memory,
storage, links and mesh, which may take time and delays the others, and traffic
goes on: the counters are younger than the time they are stamped with.  `age` is
the time since `lastNetAt`.  `passed`, `since` and `lag` are history variables: what
really went through an interface since the counters of the baseline were read, how long
ago that was, and how long before it the clock had been read.  One counter stands for the received
and for the sent bytes; which interfaces of those present are listed does not
affect the rates.  `/proc/stat` has a baseline of its own, replaced by every sample that
could read it (`SampleCPU`); `Correct` is idle time that the kernel takes back, and
`worked` remembers the busy time since the last sample.  A browser sends its next poll even when the last one is
unanswered; such overlapping polls are polls of different `Pollers` here.

### Reports and AuditLog

A client is a goroutine that makes one report: `Ask`, then for a status or sessions
`Scan` (the processes), `leigodTargets` and `Mode`, in the order of `currentStatus`;
`sessions` goes on to the controller, or to `leigodTargets` a second time and the
connection table; `logs` takes its audit excerpt first and then waits for `logread`.
`leigodTargets` is `Acquire` (`targetMu`), then `Hit` while the cache is younger than
`TTL`, or `RunIpset` followed by `Stored` or `Failed`, all before the mutex is released.
`IpsetReads` is the moment the command looks at the set, which LeiGod may change
before and after.  A failed command empties the cache and stamps it like a good one:
so those who queued behind a command that hung find the cache fresh and do not each
run one of their own.  Time is explicit here (`Tick`): `cacheAge`, `ran` and `spent` are
what the code measures or bounds, `stable` and `sound` are history.  `Due` says where a
goroutine goes on within a tick: with the mutex in its hands, and at the end of a
context.  The parsing of tables and replies, limits of rows and texts are left out.

`AuditLog` is `audit.go`: an entry is the number of its event.  `Event` stands for every
handler that records one.  `askedAt` is history: how many events there were when the
report was asked for, against which `AuditIsNewest` compares it to the last entry.

### WebClient

The page is its variables (`csrf`, `view`, `busy`, `submitting`, `visible`, what
it shows) and the browser's cookie; callbacks of JavaScript run one at a time, so
each is one action.  `Send` puts a request into a free slot with the cookie, and
for a write the token, of this moment; `Receive` is everything the page does when
the reply comes: the `Set-Cookie` of the browser, `showLogin` in `api` after a
401, `showApp`, `setBusy(false)`, the new status, and the request of `refreshAll`
that follows in the same slot.  Replies come in any order and find whatever page
there is by then.  `RequireAuth` and the handlers after it (`Me`, `Status`, `Act`,
`Logout`, `ChangePassword`) are two steps, since a session can end between them.
`Lose` is a request that did not arrive or a reply that did not come back; `Cut` is
a connection that ends while the handler of a write runs on, and `Reload` leaves
such handlers behind as well (`Orphan`: `heard` is false and no reply is sent).  A
session and its token have the same id; `genuine` is the comparison of the two.
Of all that is refreshed only the status is kept; sessions end at any time.

`WritesAreGenuine` is about the token: what the page sends is refused with 403 only
when the session of its cookie has ended anyway.  It has one condition, `crossed`: that
no login was answered while the page waited for `/api/me`.  Without it the property
does not hold, for the second of the following sequences.

Two sequences that the model contains and nothing in the repository rules out are
worth knowing.  A 401 that comes after a new login throws the page out and takes
the new cookie with it.  The login form is visible while `/api/me` is in flight:
its late reply replaces the token of a new login, and writes are refused with 403
until the page is loaded again.

## 3. Runs

| Run | Instance | Shows |
|---|---|---|
| `mode_switch_safety` | 2 requests; switch, restart of the other service, stop, unsupported; any initial mode file; 1 tick = 50 s | `Exclusive`, `OutcomeHolds`, `ReplyMatchesLast`, refinement of `SerialActions` (2.5 million states) |
| `mode_switch_liveness` | 2 requests to switch | `EveryRequestAnswered` |
| `mode_switch_verdict_reaches_browser` | 1 request, contexts and deadline of 2 ticks | `VerdictReachesBrowser` violated, see findings |
| `console_restart` | 2 requests for a restart, 1 death, contexts of 1 tick | `ExclusiveAcrossDeaths`, refinement of `InterruptedActions` (1.6 million states) |
| `credentials_safety` | 3 browsers, 2 passwords, 3 sessions, 1 address, limit 2 | `FileMatchesMemory`, `ConfigSurvives`, `LockoutBound`, refinement of `PasswordRegister`, `OnlyRacingLoginsStay` (360 thousand states) |
| `credentials_old_sessions_end` | 2 browsers | violated |
| `node_guard_operations` | 2 requests, any table, other lines that change | `OneOperation`, `InStep`, `LinesSurvive`, `MutexReleased`, refinement of `GuardSchedule` (810 thousand states) |
| `node_guard_success` | 2 requests | violated |
| `metrics_lone_poller` | 1 browser, slow requests, counters to 2, processor times to 2 | `NeverInflated`, `IntervalIsHonest`, `UsageIsHonest`, `RatesAreShown` (1.7 million states) |
| `metrics_two_pollers` | 2 browsers, requests answered at once | `RatesAreShown` violated |
| `reports` | 2 reports at a time, 1 device, cache 1 tick, ipset 2 ticks, audit log of 3, excerpts of 2 | `BoundedWait`, `AuditIsNewest`, `TargetsAreCurrent` (5.2 million states) |
| `web_client` | 2 requests in flight, 2 sessions, 2 statuses, 1 loss | `OneAction`, `WritesAreGenuine`, `StatusCatchesUp`, `EndedSessionNoticed` (1 million states) |

Bounds.  Two requests reach every race for a mutex, since a third finds it only
taken or free; two of the three browsers can be past the failure check while a
third is changing the password.  One tick stands for the 50 s that contexts and
the write deadline have in common, so each step may be in time or too late, and a
deadline may pass anywhere; with two ticks the lock and the verification may
begin in different ticks.  The set of ids is finite and no id is drawn twice, so
at most three sessions are ever created; two passwords can still be swapped for
ever.  A failure limit of 2 instead of 5 leaves room for one failure before the
last.  `age` stops at `WriteTimeout` and contexts at 0.  Requests (and passwords,
ids, addresses) are symmetric in runs without liveness.  In the runs of `Metrics` a
tick is an eighth of a second below the first threshold (0.25 s is 2 of them) and
coarser above it (the period of 2 s is 3, the 30 s are 6): only the order of the
three durations matters, and that two periods fit below the last, so that a baseline may
be younger than the first threshold or older than the last when requests are slow.
Counters up to 2 can be sampled, reset and grow to the old value again.  Idle time can be
sampled and taken back while the processor works for two jiffies more (`MaxJiffies` 2; 0
in the run that is violated): then the total has grown, idle is below its baseline and
its difference wraps, and the guards of `calculateCPUUsage` are what keeps it from being
shown.  (Either of the two on idle is enough by itself as long as busy time does not go
back; without both `UsageIsHonest` fails.)  `Width` 16 stands for 2^64, so that a negative
difference is a number far above every counter.  This run has one browser: that others
move the baseline is covered by the theorems, for any number of them.  In
`ConsoleRestart` a restart runs all three kinds of command (for off, for its own service
and, to roll back, for the other), `WriteTimeout` 0 drops the deadline that matters to
no property there, and a second death could only leave a command next to another one,
which is an overlap already; the proofs cover any number.  In `Reports` the cache is good
for one tick, ipset may take two, so a list can be read, become stale and be served in
different ticks; of several waiters each meets only the holder and the clock, which
two clients show; `AuditLimit` 3 with 4 events (`MaxRecords`) drops the
oldest, and an excerpt of two (`MaxLogLines`) has an order and is not the same
from either end.  In `WebClient` two
requests overtake each other in every pair of kinds, an old session and a new one
are all that a late reply can confuse, and one loss (`MaxLost`) is enough to leave
a handler running behind the page's back.

Fairness.  Goroutines that can run are run (weak fairness of each request's
steps and of the guard's goroutine) and time passes (`Tick`).  `actionMu` is a
`sync.Mutex`, whose starvation mode hands it to a waiter after 1 ms, and `select`
chooses at random among its ready cases: strong fairness of `Begin` and `GiveUp`.
Of the commands only the kill on an expired context is assumed, for the guard
the kill after five minutes (`JobEnds("console")`).  That a killed command's
output pipe is closed by its descendants is assumed too; the code does not set
`WaitDelay`, and a service that inherits the pipe would keep the handler waiting.
In `Metrics` timers fire, the mutex is handed out and a request ends before its
browser polls again; interfaces have no fairness, and the liveness property is about
those that stay.  In `WebClient` requests are handled and replies arrive (weak
fairness of `Handle` and `Receive`), losses are bounded, and the timer of two
seconds that is enabled again and again finds a free connection in the end
(strong fairness of `Poll`); nothing is assumed of the user.  `ConsoleRestart` and `Reports` state no
fairness: their properties are safety, and the wait in `Reports` is bounded by its
clock.  Arrivals, crashes, expiries, processes, cron and others' edits have no fairness.

A rejected login, an expired cookie or a finished request leaves every system
able to move, so deadlock is checked in all runs.

## 4. Findings

* **The message of a timed-out switch is lost** (`VerdictReachesBrowser`).  The
  verification may use up the 50 s that `WriteTimeout` gives to the whole request, and a
  rollback takes longer still, so the reply with its message cannot be written.  The page
  does show an error, that of the `fetch` whose connection was cut; it does not say what
  README means by an error there, that the target was not healthy in time or the rollback
  failed.  That is found in the audit log only (`last_action` has it too, but the page does
  not show it).
* **A login survives the password change** (`OldSessionsEnd`).  It compares the
  password, the change is saved and the store cleared, then it creates its session.
* **Success without effect** (`SuccessTakesEffect`).  After an update that was cut
  short between the write and the restart of cron, the same request succeeds
  because the table needs no change, and cron is not restarted.  (A crond that
  rescans its tables by itself would pick the entry up later; the code restarts
  it because it does not count on that.)
* **A second browser never sees rates** (`RatesAreShown`).  The baseline belongs to
  all browsers together: one that polls within 0.25 s after another one finds it
  too young, each time, since all poll with the same period.

## 5. Proofs

All theorems hold for any set of requests or browsers, any timeouts and limits;
the assumptions are the named ones of the modules (the placeholders are not
members of the sets, limits are natural numbers, `Clients` is finite where it is
counted).  TLC checks `AutoRollback = TRUE`; the proofs cover both settings.

**ModeSwitch.**  `Exclusive` is not inductive: a command that starts a service
does no harm only if the others are down, and that is so only if no other command
runs.  `LockInv` says that exactly the holder of `actionMu` is inside
`performAction`; `CommandInv` that a command runs only while its handler waits;
`AloneInv` that from the moment a command has stopped the other service until its
handler moves on, that service stays down, through the verification.  With these,
`Check` may combine an old look at the processes with a new look at the file:
nobody else could have changed anything against it, and that is `OutcomeHolds`.
`LocalsInv` relates phase, outcome, previous mode and `last`; from it follow that every
command is given a mode it knows (what `TypeOK` adds to the types of the single
variables, `Typed`), `ReplyMatchesLast` and the refinement, where scans, commands and
clocks are stutters, a write of the mode file is `Change`, and the ends of
`performAction` are `Finish`.

**ConsoleRestart.**  `ModeSwitch`'s invariant falls into two parts.  `HandlerInv` is about
mutex, handlers and commands, and holds through any death: the memory is lost as a whole.
`RouterInv` is about what they may rely on at the router, and needs that nothing else
works on it; with `LeftInv` (a command left behind is the only one, no handler has come to
a command of its own, and what it has stopped stays down) it holds until an overlap:
`ExclusiveAcrossDeaths`.  The refinement rests on `HandlerInv` alone and so holds after
overlaps too: a verdict is a comparison with the mode file made in the very step that
gives it, and a command left behind records only what its request was about.

**Credentials.**  `FileInv` says that the file is ahead of the memory only between
rename and commit, that a file about to be renamed has been synced and that
`flushed` therefore always holds.  `WriterInv` (one client in the critical section)
keeps two changes apart.  `LockoutBound` needs `CountInv`: counted failures plus
logins still able to fail stay below the limit plus the other browsers.  The refinement
of `PasswordRegister` needs `RegisterInv`: what a change compared with is still in force
when it renames.  `OnlyRacingLoginsStay` is shown step by step (`StaleStep`): the password
in memory changes only in a step that leaves its handler waiting to clear the store, and
that wait ends only with an empty store.

**NodeGuard.**  `HolderInv`: the mutex belongs to the handler that is inside, or to
the goroutine; `UpdateInv`: table and crond differ only from the write to the end of
an update, or after one that was cut short.  `LinesInv`: what an update has read, and may
write twice, has the lines of others as they are, unless they were changed since.
The refinement of `GuardSchedule` needs `EntryInv` besides: from the read to the end of
an update the entry is the one found or the one asked for, so a success, reported after a
comparison of texts or after a restart, is about what was asked.  Restarts of cron and
writes in between are `Change`; the last step of an update is `Succeeds` or `Fails`.

**Metrics.**  `GrowthInv`: a counter is ahead of its baseline by no more than what
went through the interface since then, however often the interface was taken down
and set up again in between.  With `Grew` the unsigned difference does not wrap, so
it is at most `passed`: `NeverInflated`.  `ProcessorInv` relates the busy time to the
baseline of the processor, from which `UsageIsHonest` follows by the guards of
`calculateCPUUsage`.  `IntervalInv`: the age of the baseline lies between the time since
its counters were read and that time and the lag, and what the holder of `metrics.mu`
(`MutexInv`) has computed from it stays right since nobody else moves the baseline; so
the divisor of a rate is off by no more than one of the two requests took
(`IntervalIsHonest`).

**Reports.**  `LockInv`: ipset runs exactly for the holder of `targetMu`.  `WaitInv`: who has
waited has done so for no longer than the present command has run, and finds the cache
filled in the very tick the command ended, so it starts none of its own: `BoundedWait`.
`CurrentInv`: if what was read, or is cached, is wrong about a device, the device has come
or gone within the time since, or it is missing and a command has failed;
`TargetsAreCurrent` follows, for each device whatever the others do.  (The run has one
device, which is all that the statement about each device needs; the theorem has any.)
`AuditIsNewest` is inductive with the types: a snapshot of a log that holds the newest
events is the newest of them (`SnapshotIsNewest`), and `askedAt` remembers which moment
that was.  All timeouts and limits are arbitrary.

**WebClient.**  `OneAction` needs that it holds of at most one slot, and that a reply
is always heard, which `Proper` puts into the type of a request: so only the reply
to the one action clears `busy`, and a handler left behind by a reload or a cut
connection never counts.  `Proper` also says which values a handler sends, without
which the token would not be a token.  `WritesAreGenuine` needs three more parts.
`IssuedInv`: ids in cookies and replies were drawn before, so that a new session is
nobody's yet.  `JarInv`: a reply that deletes the cookie logs the page off in the same
step, one that sets it brings its token.  `TokenInv`: the token of a page that shows its
controls is the one of its cookie, or is empty because the session has ended between the
two lookups of `handleMe`; and while `/api/me` is in flight nothing but a login is with
it, whose reply `crossed` records.  The number of requests and sessions is arbitrary.

Every invariant and action property of the passing runs, and each of the four
refinements, is a theorem.  Only model-checked: the liveness properties (`EveryRequestAnswered`,
`MutexReleased`, `RatesAreShown`, `StatusCatchesUp`, `EndedSessionNoticed`), which
are outside what the prover can do.  The findings are
counterexamples and have no proofs.

## 6. Not modelled, and the plan

Not modelled:

* texts, logging, redaction, rendering; how tokens are compared, cookies' attributes,
  routing, security headers: nothing of them changes state;
* figures that are read, converted and shown: memory, storage, links, mesh, sizes, the
  rows of connection tables and of the controller's reply, the state file and the log of
  the guard, diagnostics;
* `config.validate`, beyond that a file whose data were lost is not readable;
* the install and deployment scripts, which are run by hand, one line after the other;
* the `catch` of `api` for a reply whose body cannot be read: a reply arrives whole or is
  lost;
* the timers of the page's other views and the node guard's busy flag, which have the
  form of those modelled; a late reply for the service chosen before can show its
  sessions or logs until the next poll.

Order of work.

1. (done) `ProxyModes`, `SerialActions`, `ModeSwitch` with refinement and proofs.
2. (done) `Credentials` with crashes and power losses, its refinement of
   `PasswordRegister`, and proofs.
3. (done) `NodeGuard` with its cron update and the edits of others, its refinement of
   `GuardSchedule`, and proofs.
4. (done) `Metrics`, the shared baselines of rates and usage, and proofs.
5. (done) `WebClient`, one page over the API, and proofs.
6. (done) `ConsoleRestart`: a console that dies in the middle of an action and a mode
   command that outlives it, with refinement and proofs.
7. (done) `AuditLog` and `Reports`, and proofs.
8. The composition of `ModeSwitch` and `Credentials`: an action that was authorised,
   queued, and runs after its session has ended.  No document says what should happen,
   so it waits for a decision about that.
9. The filters of sessions and logs in `WebClient`, and liveness in `Reports`.
10. What the liveness properties rest on and a proof can reach: that the steps a holder
   of a mutex takes go down in a measure, for `ModeSwitch` and `NodeGuard`.

New questions about a module go into its existing runs where the instance allows.

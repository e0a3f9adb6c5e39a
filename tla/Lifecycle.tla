------------------------------ MODULE Lifecycle ------------------------------
(***************************************************************************)
(* Processes that serve one database: the single-poller lease              *)
(* (src/store/postgres/mod.rs), the watch supervisor, its hot swap and the *)
(* graceful shutdown (src/scheduler.rs, src/api/mod.rs, src/api/config.rs, *)
(* src/runtime.rs).                                                        *)
(*                                                                         *)
(* A configuration is a generation; each generation has one watch loop     *)
(* (the advisory sweep obeys the same flag and is drained with it).  A     *)
(* poll may hang.  A task that is aborted dies at its next await.          *)
(***************************************************************************)
EXTENDS Naturals

CONSTANTS
    Processes,   \* instances started against one database
    NoOne,       \* the advisory lock is free
    MaxGen,      \* bound on the configurations one process runs; 1 is the booted one
    Mishaps,     \* "drop": the request that swaps is cancelled (client gone);
                 \* "session": the lease's connection breaks unnoticed
    Unlucky      \* the processes that may meet them

ASSUME LifecycleAssumption ==
    /\ NoOne \notin Processes
    /\ MaxGen \in Nat \ {0}
    /\ Mishaps \subseteq {"drop", "session"}
    /\ Unlucky \subseteq Processes

VARIABLES
    lock,     \* the session that holds pg_advisory_lock(POLLER_LOCK_*)
    stage,    \* how far Runtime::serve has come
    http,     \* the HTTP server: told to close, and a manual check in flight
    flag,     \* WatchSupervisor.shutdown
    handles,  \* WatchSupervisor.watchers, as generations
    loop,     \* each generation's watch loop
    swap,     \* the hot swap in flight: its step, target and drained handles
    live,     \* the generation of the notifier and of the API-visible index
    bg,       \* the outbox flush and maintenance tasks
    mishaps   \* history: what has happened to this process

lifecycleVars == <<lock, stage, http, flag, handles, loop, swap, live, bg, mishaps>>

Gens      == 1 .. MaxGen
Stages    == {"off", "leased", "serving", "stopping", "draining", "flushing", "leaving"}
LoopState == {"none", "sleeping", "polling", "aborted", "gone"}
SwapSteps == {"none", "stop", "join", "spawn", "publish"}
SwapRec   == [step : SwapSteps, gen : Gens, drained : SUBSET Gens]
NoSwap    == [step |-> "none", gen |-> 1, drained |-> {}]
Quiet     == [closing |-> FALSE, check |-> FALSE]

Alive(p, g) == loop[p][g] \in {"sleeping", "polling"}
Fresh(p)    == {g \in Gens : loop[p][g] = "none"}

NoLoops     == [g \in Gens |-> "none"]
Booted      == [notifier |-> 1, index |-> 1]

LifecycleInit ==
    /\ lock = NoOne
    /\ stage = [p \in Processes |-> "off"]
    /\ http = [p \in Processes |-> Quiet]
    /\ flag = [p \in Processes |-> FALSE]
    /\ handles = [p \in Processes |-> {}]
    /\ loop = [p \in Processes |-> NoLoops]
    /\ swap = [p \in Processes |-> NoSwap]
    /\ live = [p \in Processes |-> Booted]
    /\ bg = [p \in Processes |-> "none"]
    /\ mishaps = [p \in Processes |-> {}]

----------------------------------------------------------------------------
(* Start: engine, lease, then the loops.                                   *)

\* A busy lock is an error and serve returns: no step.
try_acquire_poller_lease(p) ==
    /\ stage[p] = "off"
    /\ lock = NoOne
    /\ lock' = p
    /\ stage' = [stage EXCEPT ![p] = "leased"]
    /\ UNCHANGED <<flag, handles, loop, swap, live, bg, mishaps, http>>

\* api::serve: the boot replace, then start_shared_background.
Serve(p) ==
    /\ stage[p] = "leased"
    /\ stage' = [stage EXCEPT ![p] = "serving"]
    /\ flag' = [flag EXCEPT ![p] = FALSE]
    /\ loop' = [loop EXCEPT ![p][1] = "sleeping"]
    /\ handles' = [handles EXCEPT ![p] = {1}]
    /\ bg' = [bg EXCEPT ![p] = "running"]
    /\ UNCHANGED <<lock, swap, live, mishaps, http>>

----------------------------------------------------------------------------
(* watch_loop.                                                             *)

\* sleep_interruptible returns false, or the check at the top of the loop breaks.
LoopStops(p, g) ==
    /\ loop[p][g] = "sleeping" /\ flag[p]
    /\ loop' = [loop EXCEPT ![p][g] = "gone"]
    /\ UNCHANGED <<lock, stage, flag, handles, swap, live, bg, mishaps, http>>

PollStarts(p, g) ==
    /\ loop[p][g] = "sleeping" /\ ~flag[p]
    /\ loop' = [loop EXCEPT ![p][g] = "polling"]
    /\ UNCHANGED <<lock, stage, flag, handles, swap, live, bg, mishaps, http>>

PollEnds(p, g) ==
    /\ loop[p][g] = "polling"
    /\ loop' = [loop EXCEPT ![p][g] = "sleeping"]
    /\ UNCHANGED <<lock, stage, flag, handles, swap, live, bg, mishaps, http>>

AbortLands(p, g) ==
    /\ loop[p][g] = "aborted"
    /\ loop' = [loop EXCEPT ![p][g] = "gone"]
    /\ UNCHANGED <<lock, stage, flag, handles, swap, live, bg, mishaps, http>>

----------------------------------------------------------------------------
(* The hot swap: AppState::apply_runtime and WatchSupervisor::replace,      *)
(* under apply_lock.                                                       *)

\* engine.apply_runtime_config: a build failure touches nothing.  No request is
\* accepted once the server closes (one that waits then counts as begun before).
SwapNotifier(p) ==
    /\ stage[p] = "serving" /\ swap[p].step = "none" /\ ~http[p].closing
    /\ \E g \in Fresh(p) :
        /\ \A h \in Fresh(p) : g <= h
        /\ live' = [live EXCEPT ![p].notifier = g]
        /\ swap' = [swap EXCEPT ![p] = [step |-> "stop", gen |-> g, drained |-> {}]]
    /\ UNCHANGED <<lock, stage, flag, handles, loop, bg, mishaps, http>>

\* stop_watchers: raise the flag, drain the handles.
stop_watchers(p) ==
    /\ swap[p].step = "stop"
    /\ flag' = [flag EXCEPT ![p] = TRUE]
    /\ handles' = [handles EXCEPT ![p] = {}]
    /\ swap' = [swap EXCEPT ![p].step = "join", ![p].drained = handles[p]]
    /\ UNCHANGED <<lock, stage, loop, live, bg, mishaps, http>>

Finished(p, gs) == \A g \in gs : loop[p][g] \in {"gone", "aborted"}

\* join_all within SHUTDOWN_DRAIN_TIMEOUT, or abort what is left.
AbortAll(p, gs) ==
    loop' = [loop EXCEPT ![p] = [g \in Gens |->
                IF g \in gs /\ Alive(p, g) THEN "aborted" ELSE loop[p][g]]]

\* Mutant: the drained handles are not awaited
MutJoined(p) == UNCHANGED loop

\* Mutant: no timeout around join_all
MutTimeout(p) == Finished(p, swap[p].drained) /\ UNCHANGED loop

Timeout(p) == ~Finished(p, swap[p].drained) /\ AbortAll(p, swap[p].drained)

Joined(p) == \/ Finished(p, swap[p].drained) /\ UNCHANGED loop
             \/ Timeout(p)

JoinWatchers(p) ==
    /\ swap[p].step = "join"
    /\ Joined(p)
    /\ swap' = [swap EXCEPT ![p].step = "spawn", ![p].drained = {}]
    /\ UNCHANGED <<lock, stage, flag, handles, live, bg, mishaps, http>>

\* replace lowers the flag and spawns the new loops.
spawn_watchers(p) ==
    /\ swap[p].step = "spawn"
    /\ flag' = [flag EXCEPT ![p] = FALSE]
    /\ loop' = [loop EXCEPT ![p][swap[p].gen] = "sleeping"]
    /\ handles' = [handles EXCEPT ![p] = {swap[p].gen}]
    /\ swap' = [swap EXCEPT ![p].step = "publish"]
    /\ UNCHANGED <<lock, stage, live, bg, mishaps, http>>

\* Mutant: the index is left to the next request
MutPublishIndex(p) ==
    /\ swap[p].step = "publish"
    /\ swap' = [swap EXCEPT ![p] = NoSwap]
    /\ UNCHANGED <<lock, stage, flag, handles, loop, live, bg, mishaps, http>>

PublishIndex(p) ==
    /\ swap[p].step = "publish"
    /\ live' = [live EXCEPT ![p].index = swap[p].gen]
    /\ swap' = [swap EXCEPT ![p] = NoSwap]
    /\ UNCHANGED <<lock, stage, flag, handles, loop, bg, mishaps, http>>

\* The request's future is dropped while it awaits the drained loops; their
\* handles are dropped with it, which detaches them.
Dropped(p) ==
    /\ "drop" \in Mishaps /\ p \in Unlucky
    /\ stage[p] = "serving" /\ swap[p].step = "join"
    /\ swap' = [swap EXCEPT ![p] = NoSwap]
    /\ mishaps' = [mishaps EXCEPT ![p] = @ \cup {"drop"}]
    /\ UNCHANGED <<lock, stage, flag, handles, loop, live, bg, http>>

----------------------------------------------------------------------------
(* Requests, and shutdown.                                                 *)

\* POST /check polls inside its request; no further one is accepted once the
\* server closes.  It ends with its last poll, or with the client's connection.
CheckStarts(p) ==
    /\ stage[p] = "serving" /\ http[p] = Quiet
    /\ http' = [http EXCEPT ![p].check = TRUE]
    /\ UNCHANGED <<lock, stage, flag, handles, loop, swap, live, bg, mishaps>>

CheckEnds(p) ==
    /\ http[p].check
    /\ http' = [http EXCEPT ![p].check = FALSE]
    /\ UNCHANGED <<lock, stage, flag, handles, loop, swap, live, bg, mishaps>>

\* SIGTERM closes the listener; the watch loops are told nothing yet.
shutdown_signal(p) ==
    /\ stage[p] = "serving" /\ ~http[p].closing
    /\ http' = [http EXCEPT ![p].closing = TRUE]
    /\ UNCHANGED <<lock, stage, flag, handles, loop, swap, live, bg, mishaps>>

\* Mutant: the server is cut off from its requests
MutRequestsServed(p) == http[p].closing

\* with_graceful_shutdown waits, without a timeout, for the requests in flight
RequestsServed(p) == http[p].closing /\ ~http[p].check

\* Then a SIGHUP reload is aborted wherever it is: its swap, if one is in
\* flight, goes no further, and the loops it awaited are detached.
ServerStops(p) ==
    /\ stage[p] = "serving" /\ RequestsServed(p)
    /\ swap[p].step \in {"none", "join"}
    /\ swap' = [swap EXCEPT ![p] = [NoSwap EXCEPT !.step = "stop"]]
    /\ stage' = [stage EXCEPT ![p] = "stopping"]
    /\ mishaps' = [mishaps EXCEPT ![p] = IF swap[p].step = "join" THEN @ \cup {"reload"} ELSE @]
    /\ UNCHANGED <<lock, http, flag, handles, loop, live, bg>>

\* stop_watchers returned: graceful_shutdown raises its own flag.
WatchersStopped(p) ==
    /\ stage[p] = "stopping" /\ swap[p].step = "spawn"
    /\ stage' = [stage EXCEPT ![p] = "draining"]
    /\ swap' = [swap EXCEPT ![p] = NoSwap]
    /\ bg' = [bg EXCEPT ![p] = "stopping"]
    /\ UNCHANGED <<lock, flag, handles, loop, live, mishaps, http>>

\* The background tasks end their cycle, or are aborted after the timeout.
graceful_shutdown(p) ==
    /\ stage[p] = "draining"
    /\ bg' = [bg EXCEPT ![p] = "none"]
    /\ stage' = [stage EXCEPT ![p] = "flushing"]
    /\ UNCHANGED <<lock, flag, handles, loop, swap, live, mishaps, http>>

\* The process is gone, and with it every task, its sessions and the lease.
Ends(p) ==
    /\ stage' = [stage EXCEPT ![p] = "off"]
    /\ http' = [http EXCEPT ![p] = Quiet]
    /\ lock' = IF lock = p THEN NoOne ELSE lock
    /\ flag' = [flag EXCEPT ![p] = FALSE]
    /\ handles' = [handles EXCEPT ![p] = {}]
    /\ loop' = [loop EXCEPT ![p] = NoLoops]
    /\ swap' = [swap EXCEPT ![p] = NoSwap]
    /\ live' = [live EXCEPT ![p] = Booted]
    /\ bg' = [bg EXCEPT ![p] = "none"]
    /\ mishaps' = [mishaps EXCEPT ![p] = {}]

\* The final drain ends or times out and serve returns: PollerLease unlocks,
\* while a detached loop lives until the runtime is dropped.
Exit(p) ==
    /\ stage[p] = "flushing"
    /\ stage' = [stage EXCEPT ![p] = "leaving"]
    /\ lock' = IF lock = p THEN NoOne ELSE lock
    /\ UNCHANGED <<http, flag, handles, loop, swap, live, bg, mishaps>>

\* main drops the runtime; a crash may come at any time.
RuntimeDropped(p) == stage[p] = "leaving" /\ Ends(p)

Die(p) == stage[p] # "off" /\ Ends(p)

\* The lease's TCP session breaks: the server frees the lock, nobody is told.
SessionBreaks(p) ==
    /\ "session" \in Mishaps /\ p \in Unlucky
    /\ lock = p
    /\ lock' = NoOne
    /\ mishaps' = [mishaps EXCEPT ![p] = @ \cup {"session"}]
    /\ UNCHANGED <<stage, flag, handles, loop, swap, live, bg, http>>

SwapStep(p) == stop_watchers(p) \/ JoinWatchers(p)
               \/ (stage[p] = "serving" /\ (spawn_watchers(p) \/ PublishIndex(p)))

ShutdownStep(p) == \/ ServerStops(p) \/ WatchersStopped(p) \/ graceful_shutdown(p)
                   \/ Exit(p) \/ RuntimeDropped(p)

LifecycleStep(p) ==
    \/ try_acquire_poller_lease(p) \/ Serve(p)
    \/ \E g \in Gens : LoopStops(p, g) \/ PollStarts(p, g) \/ PollEnds(p, g)
                       \/ AbortLands(p, g)
    \/ SwapNotifier(p) \/ SwapStep(p) \/ Dropped(p)
    \/ CheckStarts(p) \/ CheckEnds(p)
    \/ shutdown_signal(p) \/ ShutdownStep(p) \/ Die(p) \/ SessionBreaks(p)

LifecycleNext == \E p \in Processes : LifecycleStep(p)

\* Tokio runs every ready task and timers fire.  Polls may hang, in a loop or in a
\* request, so nothing is assumed of their end, nor of a loop's look at the flag.
LifecycleFairness ==
    \A p \in Processes :
        WF_lifecycleVars(SwapStep(p)) /\ WF_lifecycleVars(ShutdownStep(p))

LifecycleSpec == LifecycleInit /\ [][LifecycleNext]_lifecycleVars /\ LifecycleFairness

----------------------------------------------------------------------------
(* Properties.                                                             *)

\* The shape of every variable.
LifecycleTypeOK ==
    /\ lock \in Processes \cup {NoOne}
    /\ stage \in [Processes -> Stages]
    /\ flag \in [Processes -> BOOLEAN]
    /\ handles \in [Processes -> SUBSET Gens]
    /\ loop \in [Processes -> [Gens -> LoopState]]
    /\ swap \in [Processes -> SwapRec]
    /\ live \in [Processes -> [notifier : Gens, index : Gens]]
    /\ bg \in [Processes -> {"none", "running", "stopping"}]
    /\ mishaps \in [Processes -> SUBSET (Mishaps \cup {"reload"})]
    /\ http \in [Processes -> [closing : BOOLEAN, check : BOOLEAN]]

Polls(p) == http[p].check \/ \E g \in Gens : Alive(p, g)

\* The ways a process polls without the lease: its session broke, or its serve has
\* returned while a loop that an interrupted swap detached is still running.
Outlives(p) ==
    \/ "session" \in mishaps[p]
    \/ stage[p] = "leaving" /\ mishaps[p] \cap {"drop", "reload"} # {}

\* At most one process polls, but for those ways: the lease is taken before the
\* first loop is spawned, and given up after the last request, loop and sweep.
OnePoller ==
    \A p, q \in Processes :
        Polls(p) /\ Polls(q) /\ p # q => Outlives(p) \/ Outlives(q)

\* A loop that keeps running is one the supervisor can still stop: replace
\* never lowers the flag under a loop of an earlier configuration.
NoOrphanLoop ==
    \A p \in Processes, g \in Gens :
        Alive(p, g) /\ ~flag[p] => g \in handles[p]

\* NoOrphanLoop holds, whatever swaps, timeouts and shutdowns went before, as
\* long as no request was dropped in the middle of its swap.
LoopsAreOwned ==
    \A p \in Processes, g \in Gens :
        Alive(p, g) /\ ~flag[p] /\ "drop" \notin mishaps[p] => g \in handles[p]

\* Between swaps a serving process polls, notifies and answers from one and
\* the same configuration (as long as no swap was dropped).
SwapIsWhole ==
    \A p \in Processes :
        stage[p] = "serving" /\ swap[p].step = "none" /\ "drop" \notin mishaps[p] =>
            /\ live[p].notifier = live[p].index
            /\ Alive(p, live[p].notifier)

\* A shutdown ends once the requests in flight are answered, even when a watch loop
\* hangs in a poll: from there on every wait has a timeout.  (The wait for the
\* requests has none: a check that hangs holds the shutdown up.)
ShutdownEnds ==
    \A p \in Processes :
        (stage[p] = "serving" /\ RequestsServed(p)) ~> stage[p] = "off"

=============================================================================

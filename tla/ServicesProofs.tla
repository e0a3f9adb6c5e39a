--------------------------- MODULE ServicesProofs ---------------------------
(***************************************************************************)
(* Proofs about the running services: whatever the number of processes and *)
(* of configurations, two processes poll at once only after a lost session *)
(* or an interrupted swap, and a swap leaves no loop behind that the       *)
(* supervisor cannot stop (Lifecycle); a config that validates builds its channels (Channels);    *)
(* what a fan-out reports of a sink is what the sink has seen (Sinks); and *)
(* a channel keeps the secret typed for it (Secrets).                      *)
(***************************************************************************)
EXTENDS Lifecycle, Channels, Sinks, Secrets, FiniteSetTheorems, SequenceTheorems, TLAPS

\* A process whose serve has begun and not returned, and that has not lost its
\* session, holds the lock; before it serves it has no loop, check or swap.
LeaseHeld ==
    \A p \in Processes :
        /\ stage[p] \notin {"off", "leaving"} /\ "session" \notin mishaps[p] => lock = p
        /\ stage[p] \in {"off", "leased"} => ~Polls(p) /\ swap[p].step = "none"

\* Where the handles of the running loops are, step by step of a swap: with
\* the supervisor, with the swap that drained them, or nowhere because the
\* loops have ended.
HandlesKept(p) ==
    /\ stage[p] = "serving" /\ swap[p].step \in {"none", "stop", "publish"} =>
        \A g \in Gens : Alive(p, g) => g \in handles[p]
    /\ stage[p] = "serving" /\ swap[p].step = "join" =>
        flag[p] /\ \A g \in Gens : Alive(p, g) => g \in swap[p].drained
    /\ stage[p] = "serving" /\ swap[p].step = "spawn" =>
        flag[p] /\ \A g \in Gens : ~Alive(p, g)
    /\ \A g \in Gens : Alive(p, g) /\ ~flag[p] => g \in handles[p]

Kept == \A p \in Processes : "drop" \notin mishaps[p] => HandlesKept(p)

\* Which configuration notifies, polls and is shown, step by step of a swap.
InForce(p) ==
    /\ swap[p].step = "none" =>
        ~flag[p] /\ live[p].notifier = live[p].index /\ Alive(p, live[p].notifier)
    /\ swap[p].step # "none" => live[p].notifier = swap[p].gen
    /\ swap[p].step = "publish" => ~flag[p] /\ Alive(p, swap[p].gen)

Whole ==
    \A p \in Processes :
        /\ stage[p] \in {"off", "leased"} => live[p] = Booted
        /\ stage[p] = "serving" /\ "drop" \notin mishaps[p] => InForce(p)

\* What a shutdown has put an end to, step by step: the requests, and then, if no
\* swap was interrupted, the loops.
Stopped(p) ==
    /\ stage[p] # "serving" => ~http[p].check
    /\ mishaps[p] \cap {"drop", "reload"} = {} =>
        /\ stage[p] = "stopping" /\ swap[p].step = "stop" =>
            \A g \in Gens : Alive(p, g) => g \in handles[p]
        /\ stage[p] = "stopping" /\ swap[p].step = "join" =>
            \A g \in Gens : Alive(p, g) => g \in swap[p].drained
        /\ stage[p] = "stopping" /\ swap[p].step = "spawn" =>
            \A g \in Gens : ~Alive(p, g)
        /\ stage[p] \in {"draining", "flushing", "leaving"} =>
            \A g \in Gens : ~Alive(p, g)

AllStopped == \A p \in Processes : Stopped(p)

IInv == LifecycleTypeOK /\ LeaseHeld /\ Kept /\ Whole /\ AllStopped

----------------------------------------------------------------------------

\* The first state has the right shape, an unheld lock and no loop.
LEMMA InitInv == LifecycleInit => IInv
  BY LifecycleAssumption
  DEF LifecycleInit, IInv, LifecycleTypeOK, LeaseHeld, Kept, Whole, HandlesKept, InForce,
      AllStopped, Stopped, Polls, Alive, Gens, Stages, LoopState, SwapRec, SwapSteps, NoSwap,
      NoLoops, Booted, Quiet

\* The record of a swap keeps its shape when its step and the handles it has
\* drained change.
LEMMA RecordUpdates ==
  \A r \in SwapRec, s \in SwapSteps, d \in SUBSET Gens :
    /\ [r EXCEPT !.step = s] \in SwapRec
    /\ [r EXCEPT !.step = s, !.drained = d] \in SwapRec
  BY DEF SwapRec

\* So does the pair of what notifies and what the API shows.
LEMMA IndexUpdates ==
  \A r \in [notifier : Gens, index : Gens], g \in Gens :
    /\ [r EXCEPT !.index = g] \in [notifier : Gens, index : Gens]
    /\ [r EXCEPT !.notifier = g] \in [notifier : Gens, index : Gens]
  OBVIOUS

\* Every step keeps the shape of the variables.
LEMMA TypeStep ==
  ASSUME LifecycleTypeOK, [LifecycleNext]_lifecycleVars
  PROVE  LifecycleTypeOK'
<1> USE LifecycleAssumption DEF LifecycleTypeOK, Stages, LoopState
<1>0. 1 \in Gens /\ NoSwap \in SwapRec
  BY DEF Gens, NoSwap, SwapRec, SwapSteps
<1> USE <1>0
<1>1. CASE UNCHANGED lifecycleVars
  BY <1>1 DEF lifecycleVars
<1>2. SUFFICES ASSUME NEW p \in Processes, LifecycleStep(p) PROVE LifecycleTypeOK'
  BY <1>1 DEF LifecycleNext
<1>3. CASE try_acquire_poller_lease(p)  BY <1>3 DEF try_acquire_poller_lease
<1>4. CASE Serve(p)                     BY <1>4 DEF Serve
<1>5. ASSUME NEW g \in Gens,
             LoopStops(p, g) \/ PollStarts(p, g) \/ PollEnds(p, g) \/ AbortLands(p, g)
      PROVE  LifecycleTypeOK'
  <2>1. CASE LoopStops(p, g)   BY <2>1 DEF LoopStops
  <2>2. CASE PollStarts(p, g)  BY <2>2 DEF PollStarts
  <2>3. CASE PollEnds(p, g)    BY <2>3 DEF PollEnds
  <2>4. CASE AbortLands(p, g)  BY <2>4 DEF AbortLands
  <2> QED BY <1>5, <2>1, <2>2, <2>3, <2>4
<1>6. CASE SwapNotifier(p)
  <2>1. PICK g \in Gens :
            /\ live' = [live EXCEPT ![p].notifier = g]
            /\ swap' = [swap EXCEPT ![p] = [step |-> "stop", gen |-> g, drained |-> {}]]
    BY <1>6 DEF SwapNotifier, Fresh
  <2>2. live' \in [Processes -> [notifier : Gens, index : Gens]]
    <3>1. [live[p] EXCEPT !.notifier = g] \in [notifier : Gens, index : Gens]
      BY IndexUpdates
    <3> QED BY <2>1, <3>1
  <2>3. swap' \in [Processes -> SwapRec]
    BY <2>1 DEF SwapRec, SwapSteps
  <2> QED BY <1>6, <2>2, <2>3 DEF SwapNotifier
<1>7. CASE stop_watchers(p)
  <2>1. [swap[p] EXCEPT !.step = "join", !.drained = handles[p]] \in SwapRec
    BY RecordUpdates DEF SwapSteps
  <2>2. swap' = [swap EXCEPT ![p] = [swap[p] EXCEPT !.step = "join", !.drained = handles[p]]]
    BY <1>7 DEF stop_watchers
  <2>3. swap' \in [Processes -> SwapRec]
    BY <2>1, <2>2
  <2> QED BY <1>7, <2>3 DEF stop_watchers
<1>8. CASE JoinWatchers(p)
  <2>1. [swap[p] EXCEPT !.step = "spawn", !.drained = {}] \in SwapRec
    BY RecordUpdates DEF SwapSteps
  <2>2. swap' = [swap EXCEPT ![p] = [swap[p] EXCEPT !.step = "spawn", !.drained = {}]]
    BY <1>8 DEF JoinWatchers
  <2>3. swap' \in [Processes -> SwapRec]
    BY <2>1, <2>2
  <2>4. CASE UNCHANGED loop
    BY <1>8, <2>3, <2>4 DEF JoinWatchers
  <2>5. CASE AbortAll(p, swap[p].drained)
    <3>1. [g \in Gens |-> IF g \in swap[p].drained /\ Alive(p, g) THEN "aborted" ELSE loop[p][g]]
            \in [Gens -> LoopState]
      OBVIOUS
    <3>2. loop' \in [Processes -> [Gens -> LoopState]]
      BY <2>5, <3>1 DEF AbortAll
    <3> QED BY <1>8, <2>3, <3>2 DEF JoinWatchers
  <2> QED BY <1>8, <2>4, <2>5 DEF JoinWatchers, Joined, Timeout
<1>9. CASE spawn_watchers(p)
  <2>1. swap' \in [Processes -> SwapRec]
    <3>1. [swap[p] EXCEPT !.step = "publish"] \in SwapRec
      BY RecordUpdates DEF SwapSteps
    <3> QED BY <1>9, <3>1 DEF spawn_watchers
  <2>2. swap[p].gen \in Gens
    BY DEF SwapRec
  <2>3. loop' \in [Processes -> [Gens -> LoopState]] /\ handles' \in [Processes -> SUBSET Gens]
    BY <1>9, <2>2 DEF spawn_watchers
  <2> QED BY <1>9, <2>1, <2>3 DEF spawn_watchers
<1>10. CASE PublishIndex(p)
  <2>1. live' \in [Processes -> [notifier : Gens, index : Gens]]
    <3>1. swap[p].gen \in Gens
      BY DEF SwapRec
    <3>2. [live[p] EXCEPT !.index = swap[p].gen] \in [notifier : Gens, index : Gens]
      BY <3>1, IndexUpdates
    <3> QED BY <1>10, <3>2 DEF PublishIndex
  <2>2. swap' \in [Processes -> SwapRec]
    BY <1>10 DEF PublishIndex
  <2> QED BY <1>10, <2>1, <2>2 DEF PublishIndex
<1>11. CASE Dropped(p)                  BY <1>11 DEF Dropped
<1>12. CASE shutdown_signal(p)          BY <1>12 DEF shutdown_signal
<1>13. CASE WatchersStopped(p)          BY <1>13 DEF WatchersStopped
<1>14. CASE graceful_shutdown(p)        BY <1>14 DEF graceful_shutdown
<1>15. CASE Ends(p)                     BY <1>15 DEF Ends, NoLoops, Booted, Quiet
<1>16. CASE SessionBreaks(p)            BY <1>16 DEF SessionBreaks
<1>17. CASE CheckStarts(p)              BY <1>17 DEF CheckStarts
<1>18. CASE CheckEnds(p)                BY <1>18 DEF CheckEnds
<1>19. CASE ServerStops(p)
  <2>1. [NoSwap EXCEPT !.step = "stop"] \in SwapRec
    BY RecordUpdates DEF SwapSteps
  <2>2. swap' \in [Processes -> SwapRec]
    BY <1>19, <2>1 DEF ServerStops
  <2>3. mishaps' \in [Processes -> SUBSET (Mishaps \cup {"reload"})]
    BY <1>19 DEF ServerStops
  <2> QED BY <1>19, <2>2, <2>3 DEF ServerStops
<1>20. CASE Exit(p)                     BY <1>20 DEF Exit
<1> QED
  BY <1>2, <1>3, <1>4, <1>5, <1>6, <1>7, <1>8, <1>9, <1>10, <1>11, <1>12, <1>13, <1>14,
     <1>15, <1>16, <1>17, <1>18, <1>19, <1>20
  DEF LifecycleStep, SwapStep, ShutdownStep, RuntimeDropped, Die

\* Every step keeps the lease with the process that serves: the lock changes
\* hands only when it is free.
LEMMA LeaseStep ==
  ASSUME LifecycleTypeOK, LeaseHeld, [LifecycleNext]_lifecycleVars
  PROVE  LeaseHeld'
<1> USE LifecycleAssumption
    DEF LifecycleTypeOK, LeaseHeld, Polls, Alive, Gens, Stages, LoopState, SwapRec, SwapSteps
<1>1. CASE UNCHANGED lifecycleVars
  BY <1>1 DEF lifecycleVars
<1>2. SUFFICES ASSUME NEW p \in Processes, LifecycleStep(p) PROVE LeaseHeld'
  BY <1>1 DEF LifecycleNext
<1>3. CASE try_acquire_poller_lease(p)  BY <1>3 DEF try_acquire_poller_lease
<1>4. CASE Serve(p)                     BY <1>4 DEF Serve
<1>5. ASSUME NEW g \in Gens,
             LoopStops(p, g) \/ PollStarts(p, g) \/ PollEnds(p, g) \/ AbortLands(p, g)
      PROVE  LeaseHeld'
  <2>1. CASE LoopStops(p, g)   BY <2>1 DEF LoopStops
  <2>2. CASE PollStarts(p, g)  BY <2>2 DEF PollStarts
  <2>3. CASE PollEnds(p, g)    BY <2>3 DEF PollEnds
  <2>4. CASE AbortLands(p, g)  BY <2>4 DEF AbortLands
  <2> QED BY <1>5, <2>1, <2>2, <2>3, <2>4
<1>6. CASE SwapNotifier(p)              BY <1>6 DEF SwapNotifier, Fresh
<1>7. CASE stop_watchers(p)             BY <1>7 DEF stop_watchers
<1>8. CASE JoinWatchers(p)
  BY <1>8 DEF JoinWatchers, Joined, Timeout, AbortAll
<1>9. CASE stage[p] = "serving" /\ spawn_watchers(p)  BY <1>9 DEF spawn_watchers
<1>10. CASE PublishIndex(p)             BY <1>10 DEF PublishIndex, NoSwap
<1>11. CASE Dropped(p)                  BY <1>11 DEF Dropped, NoSwap
<1>12. CASE shutdown_signal(p)          BY <1>12 DEF shutdown_signal
<1>13. CASE WatchersStopped(p)          BY <1>13 DEF WatchersStopped, NoSwap
<1>14. CASE graceful_shutdown(p)        BY <1>14 DEF graceful_shutdown
<1>15. CASE Ends(p)                     BY <1>15 DEF Ends, NoLoops, NoSwap, Quiet
<1>16. CASE SessionBreaks(p)            BY <1>16 DEF SessionBreaks
<1>17. CASE CheckStarts(p)              BY <1>17 DEF CheckStarts
<1>18. CASE CheckEnds(p)                BY <1>18 DEF CheckEnds
<1>19. CASE ServerStops(p)              BY <1>19 DEF ServerStops, NoSwap
<1>20. CASE Exit(p)                     BY <1>20 DEF Exit
<1> QED
  BY <1>2, <1>3, <1>4, <1>5, <1>6, <1>7, <1>8, <1>9, <1>10, <1>11, <1>12, <1>13, <1>14,
     <1>15, <1>16, <1>17, <1>18, <1>19, <1>20
  DEF LifecycleStep, SwapStep, ShutdownStep, RuntimeDropped, Die

\* Every step of a process whose swaps were never dropped keeps the handles of
\* its running loops where somebody can await or abort them.
LEMMA HandlesStep ==
  ASSUME LifecycleTypeOK, LeaseHeld, Kept, [LifecycleNext]_lifecycleVars
  PROVE  Kept'
<1> USE LifecycleAssumption
    DEF LifecycleTypeOK, LeaseHeld, Kept, HandlesKept, Polls, Alive, Gens, Stages, LoopState,
        SwapRec, SwapSteps
<1>1. CASE UNCHANGED lifecycleVars
  BY <1>1 DEF lifecycleVars
<1>2. SUFFICES ASSUME NEW p \in Processes, LifecycleStep(p) PROVE Kept'
  BY <1>1 DEF LifecycleNext
<1>3. CASE try_acquire_poller_lease(p)  BY <1>3 DEF try_acquire_poller_lease
<1>4. CASE Serve(p)                     BY <1>4 DEF Serve
<1>5. ASSUME NEW g \in Gens,
             LoopStops(p, g) \/ PollStarts(p, g) \/ PollEnds(p, g) \/ AbortLands(p, g)
      PROVE  Kept'
  <2>1. CASE LoopStops(p, g)   BY <2>1 DEF LoopStops
  <2>2. CASE PollStarts(p, g)  BY <2>2 DEF PollStarts
  <2>3. CASE PollEnds(p, g)    BY <2>3 DEF PollEnds
  <2>4. CASE AbortLands(p, g)  BY <2>4 DEF AbortLands
  <2> QED BY <1>5, <2>1, <2>2, <2>3, <2>4
<1>6. CASE SwapNotifier(p)              BY <1>6 DEF SwapNotifier, Fresh
<1>7. CASE stop_watchers(p)             BY <1>7 DEF stop_watchers
<1>8. CASE JoinWatchers(p)
  <2>1. swap[p].step = "join" /\ swap'[p].step = "spawn"
    BY <1>8 DEF JoinWatchers
  <2>2. \A g \in Gens : g \in swap[p].drained => loop'[p][g] \notin {"sleeping", "polling"}
    <3>1. CASE Finished(p, swap[p].drained) /\ UNCHANGED loop
      BY <3>1 DEF Finished
    <3>2. CASE AbortAll(p, swap[p].drained)
      BY <3>2 DEF AbortAll
    <3> QED BY <1>8, <3>1, <3>2 DEF JoinWatchers, Joined, Timeout
  <2>3. \A g \in Gens : loop'[p][g] \in {"sleeping", "polling"} => loop'[p][g] = loop[p][g]
    BY <1>8 DEF JoinWatchers, Joined, Timeout, AbortAll
  <2>4. "drop" \notin mishaps[p] => HandlesKept(p)'
    BY <1>8, <2>1, <2>2, <2>3 DEF JoinWatchers
  <2>5. ASSUME NEW q \in Processes, q # p, "drop" \notin mishaps[q] PROVE HandlesKept(q)'
    <3>1. loop'[q] = loop[q] /\ swap'[q] = swap[q]
      BY <1>8, <2>5 DEF JoinWatchers, Joined, Timeout, AbortAll
    <3>2. UNCHANGED <<lock, stage, flag, handles, live, bg, mishaps>>
      BY <1>8 DEF JoinWatchers
    <3> QED BY <2>5, <3>1, <3>2
  <2> QED BY <1>8, <2>4, <2>5 DEF JoinWatchers
<1>9. CASE stage[p] = "serving" /\ spawn_watchers(p)  BY <1>9 DEF spawn_watchers
<1>10. CASE PublishIndex(p)             BY <1>10 DEF PublishIndex, NoSwap
<1>11. CASE Dropped(p)                  BY <1>11 DEF Dropped, NoSwap
<1>12. CASE shutdown_signal(p)          BY <1>12 DEF shutdown_signal
<1>13. CASE WatchersStopped(p)          BY <1>13 DEF WatchersStopped, NoSwap
<1>14. CASE graceful_shutdown(p)        BY <1>14 DEF graceful_shutdown
<1>15. CASE Ends(p)                     BY <1>15 DEF Ends, NoLoops, NoSwap, Quiet
<1>16. CASE SessionBreaks(p)            BY <1>16 DEF SessionBreaks
<1>17. CASE CheckStarts(p)              BY <1>17 DEF CheckStarts
<1>18. CASE CheckEnds(p)                BY <1>18 DEF CheckEnds
<1>19. CASE ServerStops(p)              BY <1>19 DEF ServerStops, NoSwap
<1>20. CASE Exit(p)                     BY <1>20 DEF Exit
<1> QED
  BY <1>2, <1>3, <1>4, <1>5, <1>6, <1>7, <1>8, <1>9, <1>10, <1>11, <1>12, <1>13, <1>14,
     <1>15, <1>16, <1>17, <1>18, <1>19, <1>20
  DEF LifecycleStep, SwapStep, ShutdownStep, RuntimeDropped, Die

\* Every step of a process whose swaps were never dropped keeps notifier, loops
\* and index together, or leaves them to the next step of its swap.
LEMMA WholeStep ==
  ASSUME LifecycleTypeOK, LeaseHeld, Whole, [LifecycleNext]_lifecycleVars
  PROVE  Whole'
<1> USE LifecycleAssumption
    DEF LifecycleTypeOK, LeaseHeld, Whole, InForce, Polls, Alive, Gens, Stages, LoopState,
        SwapRec, SwapSteps
<1>1. CASE UNCHANGED lifecycleVars
  BY <1>1 DEF lifecycleVars
<1>2. SUFFICES ASSUME NEW p \in Processes, LifecycleStep(p) PROVE Whole'
  BY <1>1 DEF LifecycleNext
<1>3. CASE try_acquire_poller_lease(p)  BY <1>3 DEF try_acquire_poller_lease
<1>4. CASE Serve(p)
  <2>1. 1 \in Gens /\ live[p].notifier = 1 /\ live[p].index = 1 /\ swap[p].step = "none"
    BY <1>4 DEF Serve, Booted
  <2>2. loop'[p][1] = "sleeping" /\ ~flag'[p] /\ live' = live /\ swap' = swap
    BY <1>4, <2>1 DEF Serve
  <2>3. InForce(p)'
    BY <2>1, <2>2
  <2>4. ASSUME NEW q \in Processes, q # p PROVE loop'[q] = loop[q] /\ flag'[q] = flag[q]
    BY <1>4, <2>4 DEF Serve
  <2> QED BY <1>4, <2>2, <2>3, <2>4 DEF Serve
<1>5. ASSUME NEW g \in Gens,
             LoopStops(p, g) \/ PollStarts(p, g) \/ PollEnds(p, g) \/ AbortLands(p, g)
      PROVE  Whole'
  <2>1. CASE LoopStops(p, g)   BY <2>1 DEF LoopStops
  <2>2. CASE PollStarts(p, g)  BY <2>2 DEF PollStarts
  <2>3. CASE PollEnds(p, g)    BY <2>3 DEF PollEnds
  <2>4. CASE AbortLands(p, g)  BY <2>4 DEF AbortLands
  <2> QED BY <1>5, <2>1, <2>2, <2>3, <2>4
<1>6. CASE SwapNotifier(p)              BY <1>6 DEF SwapNotifier, Fresh
<1>7. CASE stop_watchers(p)
  <2>1. /\ swap[p].step = "stop" /\ swap'[p].step = "join" /\ swap'[p].gen = swap[p].gen
        /\ flag'[p] /\ UNCHANGED <<stage, loop, live, mishaps>>
    BY <1>7 DEF stop_watchers
  <2>2. ASSUME NEW q \in Processes, q # p PROVE swap'[q] = swap[q] /\ flag'[q] = flag[q]
    BY <1>7, <2>2 DEF stop_watchers
  <2>3. stage[p] = "serving" /\ "drop" \notin mishaps[p] => InForce(p)'
    BY <2>1
  <2>4. ASSUME NEW q \in Processes, q # p, InForce(q) PROVE InForce(q)'
    BY <2>1, <2>2, <2>4
  <2> QED BY <2>1, <2>3, <2>4
<1>8. CASE JoinWatchers(p)
  <2>1. swap[p].step = "join" /\ swap'[p].step = "spawn" /\ swap'[p].gen = swap[p].gen
    BY <1>8 DEF JoinWatchers
  <2>2. ASSUME NEW q \in Processes, q # p PROVE loop'[q] = loop[q] /\ swap'[q] = swap[q]
    BY <1>8, <2>2 DEF JoinWatchers, Joined, Timeout, AbortAll
  <2>3. UNCHANGED <<stage, flag, live, mishaps>>
    BY <1>8 DEF JoinWatchers
  <2>4. stage[p] = "serving" /\ "drop" \notin mishaps[p] => InForce(p)'
    BY <2>1, <2>3
  <2>5. ASSUME NEW q \in Processes, q # p, InForce(q) PROVE InForce(q)'
    BY <2>2, <2>3, <2>5
  <2> QED BY <2>3, <2>4, <2>5
<1>9. CASE stage[p] = "serving" /\ spawn_watchers(p)  BY <1>9 DEF spawn_watchers
<1>10. CASE PublishIndex(p)             BY <1>10 DEF PublishIndex, NoSwap
<1>11. CASE Dropped(p)                  BY <1>11 DEF Dropped, NoSwap
<1>12. CASE shutdown_signal(p)          BY <1>12 DEF shutdown_signal
<1>13. CASE WatchersStopped(p)          BY <1>13 DEF WatchersStopped, NoSwap
<1>14. CASE graceful_shutdown(p)        BY <1>14 DEF graceful_shutdown
<1>15. CASE Ends(p)                     BY <1>15 DEF Ends, NoLoops, NoSwap, Quiet
<1>16. CASE SessionBreaks(p)            BY <1>16 DEF SessionBreaks
<1>17. CASE CheckStarts(p)              BY <1>17 DEF CheckStarts
<1>18. CASE CheckEnds(p)                BY <1>18 DEF CheckEnds
<1>19. CASE ServerStops(p)              BY <1>19 DEF ServerStops, NoSwap
<1>20. CASE Exit(p)                     BY <1>20 DEF Exit
<1> QED
  BY <1>2, <1>3, <1>4, <1>5, <1>6, <1>7, <1>8, <1>9, <1>10, <1>11, <1>12, <1>13, <1>14,
     <1>15, <1>16, <1>17, <1>18, <1>19, <1>20
  DEF LifecycleStep, SwapStep, ShutdownStep, RuntimeDropped, Die

\* A shutdown leaves no request, and no loop whose handle the supervisor had.
LEMMA StoppedStep ==
  ASSUME LifecycleTypeOK, LeaseHeld, Kept, AllStopped, [LifecycleNext]_lifecycleVars
  PROVE  AllStopped'
<1> USE LifecycleAssumption
    DEF LifecycleTypeOK, LeaseHeld, AllStopped, Stopped, Polls, Alive, Gens, Stages, LoopState,
        SwapRec, SwapSteps
<1>1. CASE UNCHANGED lifecycleVars
  BY <1>1 DEF lifecycleVars
<1>2. SUFFICES ASSUME NEW p \in Processes, LifecycleStep(p) PROVE AllStopped'
  BY <1>1 DEF LifecycleNext
<1>3. CASE try_acquire_poller_lease(p)  BY <1>3 DEF try_acquire_poller_lease
<1>4. CASE Serve(p)                     BY <1>4 DEF Serve
<1>5. ASSUME NEW g \in Gens,
             LoopStops(p, g) \/ PollStarts(p, g) \/ PollEnds(p, g) \/ AbortLands(p, g)
      PROVE  AllStopped'
  <2>1. /\ UNCHANGED <<stage, http, handles, swap, mishaps>>
        /\ loop[p][g] \in {"sleeping", "polling", "aborted"}
        /\ \E x \in LoopState : loop' = [loop EXCEPT ![p][g] = x] /\ (x = "gone" \/ Alive(p, g))
    BY <1>5 DEF LoopStops, PollStarts, PollEnds, AbortLands
  <2>2. \A q \in Processes, h \in Gens : Alive(q, h)' => Alive(q, h)
    BY <2>1
  <2> QED BY <2>1, <2>2
<1>6. CASE SwapNotifier(p)              BY <1>6 DEF SwapNotifier, Fresh
<1>7. CASE stop_watchers(p)
  <2>1. /\ swap[p].step = "stop" /\ swap'[p].step = "join" /\ swap'[p].drained = handles[p]
        /\ UNCHANGED <<stage, http, loop, mishaps>>
    BY <1>7 DEF stop_watchers
  <2>2. Stopped(p)'
    BY <2>1
  <2>3. ASSUME NEW q \in Processes, q # p PROVE Stopped(q)'
    <3>1. swap'[q] = swap[q] /\ handles'[q] = handles[q]
      BY <1>7, <2>3 DEF stop_watchers
    <3> QED BY <2>1, <3>1
  <2> QED BY <2>2, <2>3
<1>8. CASE JoinWatchers(p)
  <2>1. swap[p].step = "join" /\ swap'[p].step = "spawn"
    BY <1>8 DEF JoinWatchers
  <2>2. \A g \in Gens : g \in swap[p].drained => loop'[p][g] \notin {"sleeping", "polling"}
    <3>1. CASE Finished(p, swap[p].drained) /\ UNCHANGED loop
      BY <3>1 DEF Finished
    <3>2. CASE AbortAll(p, swap[p].drained)
      BY <3>2 DEF AbortAll
    <3> QED BY <1>8, <3>1, <3>2 DEF JoinWatchers, Joined, Timeout
  <2>3. \A g \in Gens : loop'[p][g] \in {"sleeping", "polling"} => loop'[p][g] = loop[p][g]
    BY <1>8 DEF JoinWatchers, Joined, Timeout, AbortAll
  <2>4. UNCHANGED <<lock, stage, flag, handles, live, bg, mishaps, http>>
    BY <1>8 DEF JoinWatchers
  <2>5. Stopped(p)'
    BY <2>1, <2>2, <2>3, <2>4
  <2>6. ASSUME NEW q \in Processes, q # p PROVE Stopped(q)'
    <3>1. loop'[q] = loop[q] /\ swap'[q] = swap[q]
      BY <1>8, <2>6 DEF JoinWatchers, Joined, Timeout, AbortAll
    <3> QED BY <2>4, <2>6, <3>1
  <2> QED BY <2>5, <2>6
<1>9. CASE stage[p] = "serving" /\ spawn_watchers(p)  BY <1>9 DEF spawn_watchers
<1>10. CASE PublishIndex(p)             BY <1>10 DEF PublishIndex, NoSwap
<1>11. CASE Dropped(p)                  BY <1>11 DEF Dropped, NoSwap
<1>12. CASE shutdown_signal(p)          BY <1>12 DEF shutdown_signal
<1>13. CASE WatchersStopped(p)          BY <1>13 DEF WatchersStopped, NoSwap
<1>14. CASE graceful_shutdown(p)        BY <1>14 DEF graceful_shutdown
<1>15. CASE Ends(p)                     BY <1>15 DEF Ends, NoLoops, NoSwap, Quiet
<1>16. CASE SessionBreaks(p)            BY <1>16 DEF SessionBreaks
<1>17. CASE CheckStarts(p)              BY <1>17 DEF CheckStarts
<1>18. CASE CheckEnds(p)                BY <1>18 DEF CheckEnds
<1>19. CASE ServerStops(p)
  <2>1. swap'[p].step = "stop" /\ stage'[p] = "stopping" /\ ~http'[p].check
    BY <1>19 DEF ServerStops, RequestsServed, NoSwap
  <2>2. swap[p].step = "join" => "reload" \in mishaps'[p]
    BY <1>19 DEF ServerStops
  <2>3. mishaps'[p] \cap {"drop", "reload"} = {} =>
            \A g \in Gens : Alive(p, g) => g \in handles[p]
    BY <1>19, <2>2 DEF ServerStops, Kept, HandlesKept
  <2>4. Stopped(p)'
    BY <1>19, <2>1, <2>3 DEF ServerStops
  <2> QED BY <1>19, <2>4 DEF ServerStops
<1>20. CASE Exit(p)                     BY <1>20 DEF Exit
<1> QED
  BY <1>2, <1>3, <1>4, <1>5, <1>6, <1>7, <1>8, <1>9, <1>10, <1>11, <1>12, <1>13, <1>14,
     <1>15, <1>16, <1>17, <1>18, <1>19, <1>20
  DEF LifecycleStep, SwapStep, ShutdownStep, RuntimeDropped, Die

----------------------------------------------------------------------------

\* The invariant holds of every behaviour.
LEMMA Inductive == LifecycleSpec => []IInv
<1>1. IInv /\ [LifecycleNext]_lifecycleVars => IInv'
  BY TypeStep, LeaseStep, HandlesStep, WholeStep, StoppedStep DEF IInv
<1> QED BY InitInv, <1>1, PTL DEF LifecycleSpec

\* Every variable keeps its shape, whatever the steps of the processes.
THEOREM LifecycleTypeOKHolds == LifecycleSpec => []LifecycleTypeOK
<1>1. IInv => LifecycleTypeOK
  BY DEF IInv
<1> QED BY Inductive, <1>1, PTL

\* Two instances started against one database poll at the same time only if a
\* lease has lost its session (try_acquire_poller_lease, PollerLease), or one is
\* leaving with a loop that an interrupted swap detached: by the time serve returns
\* the requests are answered and every loop with a handle is drained or aborted.
THEOREM OnePollerHolds == LifecycleSpec => []OnePoller
<1>1. IInv => OnePoller
  BY LifecycleAssumption
  DEF IInv, LifecycleTypeOK, LeaseHeld, AllStopped, Stopped, OnePoller, Outlives, Polls, Stages
<1> QED BY Inductive, <1>1, PTL

\* However many configurations a process has swapped in, and whatever timed
\* out on the way, a loop that keeps polling is one its supervisor holds
\* (WatchSupervisor::replace, stop_watchers), unless a swap was dropped.
THEOREM LoopsAreOwnedHolds == LifecycleSpec => []LoopsAreOwned
<1>1. IInv => LoopsAreOwned
  BY DEF IInv, Kept, HandlesKept, LoopsAreOwned
<1> QED BY Inductive, <1>1, PTL

\* Between swaps the notifier, the loops and the index shown by the API are of
\* one configuration (AppState::apply_runtime), unless a swap was dropped.
THEOREM SwapIsWholeHolds == LifecycleSpec => []SwapIsWhole
<1>1. IInv => SwapIsWhole
  BY DEF IInv, Whole, InForce, SwapIsWhole
<1> QED BY Inductive, <1>1, PTL

----------------------------------------------------------------------------
(* Channels.                                                               *)

\* secret_configured, under the variables the document was checked against.
ConfiguredThen(inline, named, global) ==
    secret_present(inline) \/ named # Unset \/ (global \in Variables /\ globals[global] # Unset)

HasThen(entry)    == ConfiguredThen(entry.inline, entry.named, Global(entry.kind))
HasBotThen(entry) == ConfiguredThen(entry.second, entry.second_env, Bot)

\* What is left of a validation once the variables change.
Passed(entry) ==
    /\ entry.kind = "apprise" => is_configured(entry)
    /\ entry.kind = "slack" => /\ HasThen(entry) <=> ~HasBotThen(entry)
                               /\ HasBotThen(entry) => entry.rest
    /\ entry.kind \in {"webhook", "telegram", "express", "novu", "nats", "rabbitmq"} => HasThen(entry)
    /\ entry.kind \in {"telegram", "smtp", "kafka", "express", "novu", "nats", "rabbitmq"} => entry.rest
    /\ entry.kind = "telegram" => entry.mode

ChannelsInv ==
    /\ entries \in Lists
    /\ report = "valid" => \A i \in DOMAIN entries : Passed(entries[i])

\* Validation under the variables of the moment.
LEMMA ValidPasses ==
    ASSUME NEW e, validate_notifier_entry(e), globals' = env,
           e.kind \in {"apprise", "webhook", "express", "novu", "slack", "telegram", "smtp",
                      "kafka", "nats", "rabbitmq"}
    PROVE  Passed(e)'
  <1>1. /\ HasThen(e)' <=> secret_configured(e.inline, e.named, Global(e.kind))
        /\ HasBotThen(e)' <=> secret_configured(e.second, e.second_env, Bot)
    BY DEF HasThen, HasBotThen, ConfiguredThen, secret_configured, env_token
  <1>2. CASE e.kind = "apprise"
    BY <1>2 DEF validate_notifier_entry, Passed, is_configured
  <1>3. CASE e.kind = "slack"
    <2> DEFINE has == secret_configured(e.inline, e.named, Global(e.kind))
               has_bot == secret_configured(e.second, e.second_env, Bot)
    <2>1. has # has_bot /\ (has_bot => e.rest)
      BY <1>3 DEF validate_notifier_entry
    <2>2. (has \in BOOLEAN) /\ (has_bot \in BOOLEAN)
      BY DEF secret_configured, secret_present
    <2>3. has <=> ~has_bot
      BY <2>1, <2>2
    <2> HIDE DEF has, has_bot
    <2>4. /\ HasThen(e)' <=> ~HasBotThen(e)'
          /\ HasBotThen(e)' => e.rest
      BY <1>1, <2>1, <2>3 DEF has, has_bot
    <2> QED BY <1>3, <2>4 DEF Passed
  <1>4. CASE e.kind = "telegram"
    BY <1>1, <1>4 DEF validate_notifier_entry, Passed
  <1>5. CASE e.kind \in {"smtp", "kafka"}
    BY <1>5 DEF validate_notifier_entry, Passed
  <1>6. CASE e.kind = "webhook"
    BY <1>1, <1>6 DEF validate_notifier_entry, Passed
  <1>7. CASE e.kind \in {"express", "novu", "nats", "rabbitmq"}
    BY <1>1, <1>7 DEF validate_notifier_entry, Passed
  <1> QED BY <1>2, <1>3, <1>4, <1>5, <1>6, <1>7

\* A secret that was configured is found, and one that was not is not, if the named
\* variables are there and the global one is as it was.
LEMMA SecretIsFound ==
    ASSUME NEW inline, NEW named \in Variables \cup {Unset}, NEW global,
           named # Unset => env[named] # Unset,
           global \in Variables => env[global] = globals[global]
    PROVE  resolve_channel_secret(inline, named, global) # Unset
             <=> ConfiguredThen(inline, named, global)
  BY ChannelsAssumption DEF resolve_channel_secret, ConfiguredThen, FirstSet, env_token,
     sanitize_secret, secret_present, Unset, Mask

\* Each kind finds what validation demanded.
LEMMA PassedBuilds ==
    ASSUME ChannelsInv, report = "valid", NEW i \in DOMAIN entries,
           \A name \in OwnNames : env[name] # Unset,
           \A name \in Globals \cap Variables : env[name] = globals[name],
           entries[i].parses, ~OnlyMasks(entries[i])
    PROVE  build(entries[i])
  <1> DEFINE entry == entries[i]
  <1>1. /\ entry.kind \in {"apprise", "webhook", "express", "novu", "slack", "telegram", "smtp",
                           "kafka", "nats", "rabbitmq"}
        /\ entry.named \in Variables \cup {Unset} /\ entry.second_env \in Variables \cup {Unset}
    BY ChannelsAssumption DEF ChannelsInv
  <1>2. /\ entry.named # Unset => env[entry.named] # Unset
        /\ entry.second_env # Unset => env[entry.second_env] # Unset
    BY DEF OwnNames, Named
  <1>3. /\ Global(entry.kind) \in Variables => env[Global(entry.kind)] = globals[Global(entry.kind)]
        /\ Bot \in Variables => env[Bot] = globals[Bot]
    BY DEF Globals
  <1>4. Passed(entry)
    BY DEF ChannelsInv
  <1>5. (credential(entry) # Unset <=> HasThen(entry)) /\ (bot(entry) # Unset <=> HasBotThen(entry))
    BY <1>1, <1>2, <1>3, SecretIsFound DEF credential, bot, HasThen, HasBotThen
  <1>6. entry.kind = "apprise" => NewApprise(entry)
    BY <1>1, <1>2, <1>4 DEF Passed, is_configured, NewApprise, resolve_apprise_urls,
       resolve_channel_secret, FirstSet, sanitize_secret, env_token, OnlyMasks
  <1> HIDE DEF entry
  <1>7. entry.kind = "slack" => NewSlack(entry)
    BY <1>4, <1>5 DEF Passed, NewSlack
  <1> QED BY <1>1, <1>4, <1>5, <1>6, <1>7 DEF Passed, build, entry, NewWebhook, NewExpress, NewNovu,
             NewTelegram, NewSmtp, NewKafka, NewNats, NewRabbitMq

\* The invariant: a document found valid stays what validation saw.
THEOREM ChannelsInvariance == ChannelsSpec => []ChannelsInv
  <1>1. ChannelsInit => ChannelsInv
    BY DEF ChannelsInit, ChannelsInv
  <1>2. ChannelsInv /\ [ChannelsNext]_channelsVars => ChannelsInv'
    <2> SUFFICES ASSUME ChannelsInv, [ChannelsNext]_channelsVars PROVE ChannelsInv'
      OBVIOUS
    <2>1. CASE ValidateEntries
      <3>1. entries' = entries /\ globals' = env /\ entries \in Lists
        BY <2>1 DEF ValidateEntries, ChannelsInv
      <3>2. report' = "valid" => \A i \in DOMAIN entries : validate_notifier_entry(entries[i])
        BY <2>1 DEF ValidateEntries
      <3>3. ASSUME report' = "valid", NEW i \in DOMAIN entries PROVE Passed(entries[i])'
        <4>0. PICK list \in Lists : list = entries
          BY <3>1
        <4>1. PICK e : e = entries[i] /\ e = list[i]
          BY <4>0
        <4>2. e.kind \in {"apprise", "webhook", "express", "novu", "slack", "telegram", "smtp",
                         "kafka", "nats", "rabbitmq"}
          BY <3>3, <4>0, <4>1, ChannelsAssumption
        <4>3. Passed(e)'
          BY <3>1, <3>2, <3>3, <4>1, <4>2, ValidPasses
        <4> QED BY <3>1, <4>0, <4>1, <4>3 DEF Passed, HasThen, HasBotThen, ConfiguredThen, is_configured
      <3> QED BY <3>1, <3>3 DEF ChannelsInv
    <2>2. CASE UNCHANGED <<entries, report, globals>>
      BY <2>2 DEF ChannelsInv, Passed, HasThen, HasBotThen, ConfiguredThen
    <2> QED BY <2>1, <2>2 DEF ChannelsNext, build_notifiers, Turn, channelsVars
  <1> QED BY <1>1, <1>2, PTL DEF ChannelsSpec

\* A boot (build_notifiers) fails on a document that validation accepted only for the
\* reasons the property names, whatever was set, unset, sealed or pruned in between.
THEOREM ValidAlwaysBuilds == ChannelsSpec => ValidBuilds
  <1>1. ChannelsInv /\ [ChannelsNext]_channelsVars =>
          [build_notifiers /\ sinks' = "failed" =>
             \/ \E name \in OwnNames : env[name] = Unset
             \/ \E name \in Globals \cap Variables : env[name] # globals[name]
             \/ \E i \in DOMAIN entries : ~entries[i].parses \/ OnlyMasks(entries[i])]_channelsVars
    <2> SUFFICES ASSUME ChannelsInv, build_notifiers, sinks' = "failed",
                        \A name \in OwnNames : env[name] # Unset,
                        \A name \in Globals \cap Variables : env[name] = globals[name],
                        \A i \in DOMAIN entries : entries[i].parses /\ ~OnlyMasks(entries[i])
                 PROVE  FALSE
      OBVIOUS
    <2>1. report = "valid" /\ ~\A i \in DOMAIN entries : build(entries[i])
      BY DEF build_notifiers
    <2> QED BY <2>1, PassedBuilds
  <1> QED BY <1>1, ChannelsInvariance, PTL DEF ChannelsSpec, ValidBuilds

----------------------------------------------------------------------------
(* Sinks: types.                                                           *)

Phases  == {"unasked", "deaf", "open", "error", "todo", "linked", "waiting", "accepted",
            "refused", "ok_false", "conflict", "ok"}
Sending == [op : {"notify", "partial", "test"}, event : Events \cup {TestEvent},
            at : [Sink -> Phases]]

SinksTypeOK ==
    /\ channels \in Setups
    /\ sends \in Seq(Sending)
    /\ inboxes \subseteq [sink : Sink, send : DOMAIN sends]
    /\ busy \subseteq Sink \X DOMAIN sends

----------------------------------------------------------------------------
(* Sinks: what the verdicts rest on.                                       *)

\* The event is for the channel's team, or a test, and has an address there.
Meant(s, i) ==
    /\ sends[s].op = "test" \/ Listens(i, EventOf(s))
    /\ ~Misaddressed(channels[i], EventOf(s))

\* What each phase of a delivery says: a request went out only if it was meant, a
\* notify asks exactly those who listen, "ok: false" comes from the bot APIs, and
\* what was acknowledged is with the service or failed behind its answer.
PhaseHolds(s, i) ==
    /\ sends[s].at[i] \notin {"unasked", "deaf", "open", "error"} => Meant(s, i)
    /\ sends[s].op = "notify" =>
         /\ sends[s].at[i] # "unasked" <=> Listens(i, EventOf(s))
         /\ sends[s].at[i] # "deaf"
    /\ sends[s].at[i] = "ok_false" => Kind(i) \in {"slack", "telegram"}
    /\ sends[s].at[i] \in {"accepted", "conflict", "ok"} => Reached(s, i) \/ <<s, i>> \in odd

\* What Novu works on: a trigger that was meant, whose caller waits or gave up, of
\* a transaction it has not started a workflow for and works on only once.
WorkHolds ==
    /\ \A s \in DOMAIN sends, i \in Sink : <<i, s>> \in busy =>
         /\ Kind(i) = "novu" /\ Meant(s, i) /\ sends[s].at[i] \in {"waiting", "error"}
         /\ transaction_id(s) \notin Triggered(i)
    /\ \A s, t \in DOMAIN sends, i \in Sink :
         <<i, s>> \in busy /\ <<i, t>> \in busy /\ transaction_id(s) = transaction_id(t) => s = t

\* What the services hold was meant, and Novu holds a transaction once.
HeldHolds ==
    /\ \A h \in inboxes : Meant(h.send, h.sink)
    /\ \A g, h \in inboxes :
         /\ g.sink = h.sink /\ Kind(g.sink) = "novu"
         /\ transaction_id(g.send) = transaction_id(h.send)
         => g = h

SinksInv ==
    /\ SinksTypeOK
    /\ \A s \in DOMAIN sends, i \in Sink : PhaseHolds(s, i)
    /\ WorkHolds /\ HeldHolds

----------------------------------------------------------------------------
(* Sinks: steps.                                                           *)

\* What was asked stays asked.
Lasting ==
    /\ channels' = channels
    /\ DOMAIN sends \subseteq DOMAIN sends'
    /\ \A s \in DOMAIN sends : sends'[s].op = sends[s].op /\ sends'[s].event = sends[s].event

\* And then it means what it meant.
LEMMA LastingMeans ==
    ASSUME Lasting
    PROVE  /\ Sink' = Sink
           /\ \A i \in Sink : Kind(i)' = Kind(i)
           /\ \A s \in DOMAIN sends :
                /\ EventOf(s)' = EventOf(s) /\ transaction_id(s)' = transaction_id(s)
                /\ \A i \in Sink : /\ Meant(s, i)' <=> Meant(s, i)
                                   /\ Listens(i, EventOf(s))' <=> Listens(i, EventOf(s))
  BY DEF Lasting, Sink, Kind, EventOf, transaction_id, Meant, Listens

\* Only the phase of one sink in one delivery changes, to p.
Marked(s, i, p) ==
    /\ Lasting /\ DOMAIN sends' = DOMAIN sends
    /\ \A t \in DOMAIN sends, j \in Sink :
         sends'[t].at[j] = IF t = s /\ j = i THEN p ELSE sends[t].at[j]

\* A delivery has its fields.
LEMMA SendTypes ==
    ASSUME SinksTypeOK
    PROVE  /\ sends \in [DOMAIN sends -> Sending]
           /\ \A s \in DOMAIN sends : /\ sends[s].op \in {"notify", "partial", "test"}
                                      /\ sends[s].event \in Events \cup {TestEvent}
                                      /\ sends[s].at \in [Sink -> Phases]
  <1>1. sends \in [1 .. Len(sends) -> Sending] /\ DOMAIN sends = 1 .. Len(sends)
    BY DEF SinksTypeOK
  <1>2. \A e \in Sending : /\ e.op \in {"notify", "partial", "test"}
                           /\ e.event \in Events \cup {TestEvent}
                           /\ e.at \in [Sink -> Phases]
    BY DEF Sending
  <1> HIDE DEF Sending
  <1>3. \A s \in DOMAIN sends : sends[s] \in Sending
    BY <1>1
  <1> QED BY <1>1, <1>2, <1>3

\* Becomes is such a change,
LEMMA BecomesMarks ==
    ASSUME SinksTypeOK, NEW s \in DOMAIN sends, NEW i \in Sink, NEW p \in Phases,
           channels' = channels, Becomes(s, i, p)
    PROVE  Marked(s, i, p) /\ sends' \in Seq(Sending)'
  <1>1. Sending' = Sending /\ Sink' = Sink
    BY DEF Sending, Sink
  <1> DEFINE a == [sends[s].at EXCEPT ![i] = p]
             q == [sends[s] EXCEPT !.at = a]
  <1>2. sends' = [sends EXCEPT ![s] = q]
    BY DEF Becomes
  <1>3. a \in [Sink -> Phases] /\ \A j \in Sink : a[j] = IF j = i THEN p ELSE sends[s].at[j]
    BY SendTypes
  <1> HIDE DEF a
  <1>4. q \in Sending /\ q.at = a /\ q.op = sends[s].op /\ q.event = sends[s].event
    BY <1>3, SendTypes DEF Sending
  <1> HIDE DEF q
  <1>5. /\ DOMAIN sends' = DOMAIN sends /\ sends'[s] = q
        /\ \A t \in DOMAIN sends : t # s => sends'[t] = sends[t]
    BY <1>2
  <1>6. sends' \in Seq(Sending)
    BY <1>2, <1>4 DEF SinksTypeOK
  <1>7. Lasting
    BY <1>4, <1>5 DEF Lasting
  <1>8. Marked(s, i, p)
    BY <1>3, <1>4, <1>5, <1>7 DEF Marked
  <1> QED BY <1>1, <1>6, <1>8

\* and so is no change at all.
LEMMA SameMarks ==
    ASSUME SinksTypeOK, NEW s \in DOMAIN sends, NEW i \in Sink, channels' = channels, sends' = sends
    PROVE  Marked(s, i, sends[s].at[i]) /\ sends' \in Seq(Sending)'
  BY DEF Marked, Lasting, SinksTypeOK, Sending, Sink

\* The phases after such a step.
LEMMA PhasesKeep ==
    ASSUME SinksInv, NEW s \in DOMAIN sends, NEW i \in Sink, NEW p, Marked(s, i, p),
           p \notin {"unasked", "deaf"}, sends[s].at[i] \notin {"unasked", "deaf"},
           p \notin {"open", "error"} => Meant(s, i),
           p = "ok_false" => Kind(i) \in {"slack", "telegram"},
           \A t \in DOMAIN sends, j \in Sink : sends'[t].at[j] \in {"accepted", "conflict", "ok"} =>
               Reached(t, j)' \/ <<t, j>> \in odd'
    PROVE  \A t \in DOMAIN sends', j \in Sink' : PhaseHolds(t, j)'
  <1>1. Lasting /\ DOMAIN sends' = DOMAIN sends
    BY DEF Marked
  <1> SUFFICES ASSUME NEW t \in DOMAIN sends, NEW j \in Sink PROVE PhaseHolds(t, j)'
    BY <1>1, LastingMeans
  <1>2. /\ Meant(t, j)' <=> Meant(t, j)
        /\ Listens(j, EventOf(t))' <=> Listens(j, EventOf(t))
        /\ Kind(j)' = Kind(j) /\ sends'[t].op = sends[t].op
    BY <1>1, LastingMeans DEF Lasting
  <1>3. PhaseHolds(t, j)
    BY DEF SinksInv
  <1>4. CASE t = s /\ j = i
    <2>1. sends'[t].at[j] = p
      BY <1>4 DEF Marked
    <2> QED BY <1>2, <1>3, <1>4, <2>1 DEF PhaseHolds
  <1>5. CASE ~(t = s /\ j = i)
    <2>1. sends'[t].at[j] = sends[t].at[j]
      BY <1>5 DEF Marked
    <2> QED BY <1>2, <1>3, <2>1 DEF PhaseHolds
  <1> QED BY <1>4, <1>5

\* What Novu holds and works on, told by the sets.
LEMMA ReachedIs ==
    ASSUME SinksTypeOK, NEW s, NEW i \in Sink
    PROVE  Reached(s, i) <=>
             \/ [sink |-> i, send |-> s] \in inboxes
             \/ /\ Kind(i) = "novu"
                /\ \/ \E h \in inboxes : h.sink = i /\ transaction_id(h.send) = transaction_id(s)
                   \/ \E t \in DOMAIN sends : <<i, t>> \in busy /\ transaction_id(t) = transaction_id(s)
  <1>1. transaction_id(s) \in Working(i) <=>
           \E t \in DOMAIN sends : <<i, t>> \in busy /\ transaction_id(t) = transaction_id(s)
    <2>1. ASSUME NEW b \in busy, b[1] = i, transaction_id(s) = transaction_id(b[2])
          PROVE  \E t \in DOMAIN sends : <<i, t>> \in busy /\ transaction_id(t) = transaction_id(s)
      <3>1. b[2] \in DOMAIN sends /\ b = <<i, b[2]>>
        BY <2>1 DEF SinksTypeOK
      <3> QED BY <3>1, <2>1
    <2>2. ASSUME NEW t \in DOMAIN sends, <<i, t>> \in busy, transaction_id(t) = transaction_id(s)
          PROVE  transaction_id(s) \in Working(i)
      BY <2>2, <<i, t>>[1] = i, <<i, t>>[2] = t DEF Working
    <2> QED BY <2>1, <2>2 DEF Working
  <1>2. transaction_id(s) \in Triggered(i) <=>
           \E h \in inboxes : h.sink = i /\ transaction_id(h.send) = transaction_id(s)
    BY DEF Triggered
  <1> QED BY <1>1, <1>2 DEF Reached

\* A step that leaves the services alone keeps what they hold.
LEMMA ServicesKeep ==
    ASSUME SinksInv, Lasting, inboxes' = inboxes, busy' = busy,
           \A t \in DOMAIN sends, j \in Sink :
               <<j, t>> \in busy => sends'[t].at[j] \in {"waiting", "error"}
    PROVE  /\ WorkHolds' /\ HeldHolds'
           /\ \A t \in DOMAIN sends, j \in Sink : Reached(t, j) => Reached(t, j)'
           /\ inboxes' \subseteq [sink : Sink', send : DOMAIN sends']
           /\ busy' \subseteq Sink' \X DOMAIN sends'
  <1>t. SinksTypeOK
    BY DEF SinksInv
  <1>1. Sink' = Sink /\ DOMAIN sends \subseteq DOMAIN sends'
    BY LastingMeans DEF Lasting
  <1>2. /\ \A h \in inboxes : h.sink \in Sink /\ h.send \in DOMAIN sends
        /\ \A t, j : <<j, t>> \in busy => t \in DOMAIN sends /\ j \in Sink
    BY <1>t DEF SinksTypeOK
  <1>3. \A j \in Sink : Triggered(j)' = Triggered(j)
    BY <1>2, LastingMeans DEF Triggered
  <1>4. \A j \in Sink : Working(j)' = Working(j)
    <2>1. \A b \in busy : b[1] \in Sink /\ b[2] \in DOMAIN sends
      BY <1>t DEF SinksTypeOK
    <2> QED BY <2>1, LastingMeans DEF Working
  <1>5. WorkHolds'
    BY <1>1, <1>2, <1>3, LastingMeans DEF SinksInv, WorkHolds
  <1>6. HeldHolds'
    BY <1>1, <1>2, LastingMeans DEF SinksInv, HeldHolds
  <1>7. \A t \in DOMAIN sends, j \in Sink : Reached(t, j) => Reached(t, j)'
    BY <1>3, <1>4, LastingMeans DEF Reached
  <1>8. /\ inboxes' \subseteq [sink : Sink', send : DOMAIN sends']
        /\ busy' \subseteq Sink' \X DOMAIN sends'
    BY <1>1, <1>t DEF SinksTypeOK
  <1> QED BY <1>5, <1>6, <1>7, <1>8

\* A step of one delivery that leaves the services alone.
LEMMA QuietKeeps ==
    ASSUME SinksInv, NEW s \in DOMAIN sends, NEW i \in Sink, NEW p \in Phases,
           channels' = channels, Becomes(s, i, p), inboxes' = inboxes, busy' = busy,
           odd \subseteq odd',
           p \notin {"unasked", "deaf"}, sends[s].at[i] \notin {"unasked", "deaf"},
           p \notin {"open", "error"} => Meant(s, i),
           p = "ok_false" => Kind(i) \in {"slack", "telegram"},
           p \in {"accepted", "conflict", "ok"} => Reached(s, i) \/ <<s, i>> \in odd',
           <<i, s>> \in busy => p \in {"waiting", "error"}
    PROVE  SinksInv'
  <1>t. SinksTypeOK
    BY DEF SinksInv
  <1>1. Marked(s, i, p) /\ sends' \in Seq(Sending)'
    BY <1>t, BecomesMarks
  <1>2. Lasting
    BY <1>1 DEF Marked
  <1>3. \A t \in DOMAIN sends, j \in Sink :
           <<j, t>> \in busy => sends'[t].at[j] \in {"waiting", "error"}
    <2>1. SUFFICES ASSUME NEW t \in DOMAIN sends, NEW j \in Sink, <<j, t>> \in busy
                   PROVE  sends'[t].at[j] \in {"waiting", "error"}
      OBVIOUS
    <2>2. sends[t].at[j] \in {"waiting", "error"}
      BY <2>1 DEF SinksInv, WorkHolds
    <2>3. CASE t = s /\ j = i
      BY <1>1, <2>1, <2>3 DEF Marked
    <2>4. CASE ~(t = s /\ j = i)
      BY <1>1, <2>2, <2>4 DEF Marked
    <2> QED BY <2>3, <2>4
  <1>4. /\ WorkHolds' /\ HeldHolds'
        /\ \A t \in DOMAIN sends, j \in Sink : Reached(t, j) => Reached(t, j)'
        /\ inboxes' \subseteq [sink : Sink', send : DOMAIN sends']
        /\ busy' \subseteq Sink' \X DOMAIN sends'
    BY <1>2, <1>3, ServicesKeep
  <1>5. \A t \in DOMAIN sends, j \in Sink : sends'[t].at[j] \in {"accepted", "conflict", "ok"} =>
           Reached(t, j)' \/ <<t, j>> \in odd'
    BY <1>1, <1>4 DEF Marked, SinksInv, PhaseHolds
  <1>6. \A t \in DOMAIN sends', j \in Sink' : PhaseHolds(t, j)'
    BY <1>1, <1>5, PhasesKeep
  <1>7. SinksTypeOK'
    BY <1>1, <1>4, <1>t DEF SinksTypeOK
  <1> QED BY <1>4, <1>6, <1>7 DEF SinksInv

\* What a phase of a request that went out, or is about to, is not.
LEMMA PhaseFacts ==
    ASSUME SinksInv, NEW s \in DOMAIN sends, NEW i \in Sink
    PROVE  /\ sends[s].at[i] \in Phases
           /\ PhaseHolds(s, i)
           /\ <<i, s>> \in busy => sends[s].at[i] \in {"waiting", "error"}
  BY SendTypes DEF SinksInv, WorkHolds

\* One lemma per action: connecting to a broker,
LEMMA DialKeeps ==
    ASSUME SinksInv, NEW s \in DOMAIN sends, NEW i \in Sink, Dial(s, i)
    PROVE  SinksInv'
  <1>1. sends[s].at[i] = "todo" /\ <<i, s>> \notin busy /\ Meant(s, i)
    BY PhaseFacts DEF Dial, PhaseHolds
  <1>2. Becomes(s, i, "linked") \/ Becomes(s, i, "error")
    BY DEF Dial
  <1>3. channels' = channels /\ inboxes' = inboxes /\ busy' = busy /\ odd' = odd
    BY DEF Dial
  <1>4. {"linked", "error"} \subseteq Phases
    BY DEF Phases
  <1>5. CASE Becomes(s, i, "linked")
    BY <1>1, <1>3, <1>4, <1>5, QuietKeeps
  <1>6. CASE Becomes(s, i, "error")
    BY <1>1, <1>3, <1>4, <1>6, QuietKeeps
  <1> QED BY <1>2, <1>5, <1>6

\* (what a request that is about to leave has)
LEMMA ReadyFacts ==
    ASSUME SinksInv, NEW s \in DOMAIN sends, NEW i \in Sink, ReadyToSend(s, i)
    PROVE  /\ sends[s].at[i] \in {"todo", "linked"}
           /\ <<i, s>> \notin busy /\ Meant(s, i)
  <1>1. sends[s].at[i] \in {"todo", "linked"}
    BY DEF ReadyToSend
  <1> QED BY <1>1, PhaseFacts DEF PhaseHolds

\* no connection or a refusal,
LEMMA RefuseKeeps ==
    ASSUME SinksInv, NEW s \in DOMAIN sends, NEW i \in Sink, Unreachable(s, i) \/ Refuse(s, i)
    PROVE  SinksInv'
  <1>1. ReadyToSend(s, i) /\ channels' = channels /\ inboxes' = inboxes /\ busy' = busy /\ odd' = odd
    BY DEF Unreachable, Refuse
  <1>2. sends[s].at[i] \in {"todo", "linked"} /\ <<i, s>> \notin busy /\ Meant(s, i)
    BY <1>1, ReadyFacts
  <1>3. {"refused", "ok_false", "error"} \subseteq Phases
    BY DEF Phases
  <1>4. \/ Becomes(s, i, "error") \/ Becomes(s, i, "refused")
        \/ Becomes(s, i, "ok_false") /\ Kind(i) \in {"slack", "telegram"}
    BY DEF Unreachable, Refuse, Refusals
  <1>5. CASE Becomes(s, i, "error")
    BY <1>1, <1>2, <1>3, <1>5, QuietKeeps
  <1>6. CASE Becomes(s, i, "refused")
    BY <1>1, <1>2, <1>3, <1>6, QuietKeeps
  <1>7. CASE Becomes(s, i, "ok_false") /\ Kind(i) \in {"slack", "telegram"}
    BY <1>1, <1>2, <1>3, <1>7, QuietKeeps
  <1> QED BY <1>4, <1>5, <1>6, <1>7

\* the answer,
LEMMA RespondsKeeps ==
    ASSUME SinksInv, NEW s \in DOMAIN sends, NEW i \in Sink, Responds(s, i)
    PROVE  SinksInv'
  <1> DEFINE p == sends[s].at[i]
             v == Verdict(i, p)
  <1>1. channels' = channels /\ inboxes' = inboxes /\ busy' = busy /\ odd' = odd
    BY DEF Responds
  <1>2. p \in {"waiting", "accepted", "refused", "ok_false", "conflict"}
    BY DEF Responds, Pending
  <1>3. PhaseHolds(s, i) /\ (<<i, s>> \in busy => p \in {"waiting", "error"})
    BY PhaseFacts
  <1>4. Meant(s, i)
    BY <1>2, <1>3 DEF PhaseHolds
  <1>5. {"ok", "error"} \subseteq Phases
    BY DEF Phases
  <1>6. CASE Becomes(s, i, "error")
    BY <1>1, <1>2, <1>5, <1>6, QuietKeeps
  <1>7. CASE p # "waiting" /\ Becomes(s, i, v)
    <2>1. v \in {"ok", "error"}
      BY DEF Verdict, reject_if_ok_false
    <2>2. v = "ok" => p \in {"accepted", "conflict"}
      BY <1>2, <1>3, <1>7 DEF Verdict, reject_if_ok_false, PhaseHolds
    <2>3. v = "ok" => Reached(s, i) \/ <<s, i>> \in odd
      BY <2>2, <1>3 DEF PhaseHolds
    <2>4. <<i, s>> \notin busy
      BY <1>2, <1>3, <1>7
    <2>5. CASE Becomes(s, i, "error")
      BY <1>6, <2>5
    <2>6. CASE v = "ok" /\ Becomes(s, i, "ok")
      BY <1>1, <1>2, <1>4, <1>5, <2>3, <2>4, <2>6, QuietKeeps
    <2> QED BY <1>7, <2>1, <2>5, <2>6
  <1> QED BY <1>6, <1>7 DEF Responds

\* a body that breaks off,
LEMMA CutKeeps ==
    ASSUME SinksInv, NEW s \in DOMAIN sends, NEW i \in Sink, UnclearBody(s, i)
    PROVE  SinksInv'
  <1>1. /\ channels' = channels /\ inboxes' = inboxes /\ busy' = busy
        /\ odd \subseteq odd' /\ <<s, i>> \in odd'
        /\ sends[s].at[i] = "ok_false" /\ Becomes(s, i, "ok")
    BY DEF UnclearBody
  <1>2. <<i, s>> \notin busy /\ Meant(s, i) /\ "ok" \in Phases
    BY <1>1, PhaseFacts DEF PhaseHolds, Phases
  <1> QED BY <1>1, <1>2, QuietKeeps

\* The message arrives: it was meant, and at Novu it was in hand.
LEMMA ArrivalKeeps ==
    ASSUME SinksInv, NEW s \in DOMAIN sends, NEW i \in Sink, NEW p,
           Marked(s, i, p), sends' \in Seq(Sending)',
           inboxes' = inboxes \cup {[sink |-> i, send |-> s]}, busy' = busy \ {<<i, s>>},
           odd \subseteq odd', p \in {"accepted", "error"},
           sends[s].at[i] \notin {"unasked", "deaf"}, Meant(s, i),
           Kind(i) = "novu" => <<i, s>> \in busy
    PROVE  SinksInv'
  <1> DEFINE e == [sink |-> i, send |-> s]
  <1>t. SinksTypeOK
    BY DEF SinksInv
  <1>1. /\ Lasting /\ DOMAIN sends' = DOMAIN sends /\ Sink' = Sink
        /\ \A t \in DOMAIN sends, j \in Sink : ~(t = s /\ j = i) => sends'[t].at[j] = sends[t].at[j]
    BY LastingMeans DEF Marked
  <1>2. /\ \A h \in inboxes : h.sink \in Sink /\ h.send \in DOMAIN sends
        /\ \A t, j : <<j, t>> \in busy => t \in DOMAIN sends /\ j \in Sink
        /\ \A b \in busy : b[1] \in Sink /\ b[2] \in DOMAIN sends /\ b = <<b[1], b[2]>>
    BY <1>t DEF SinksTypeOK
  <1>e. e.sink = i /\ e.send = s /\ inboxes' = inboxes \cup {e} /\ e \in [sink : Sink, send : DOMAIN sends]
    OBVIOUS
  <1> HIDE DEF e
  <1>w. WorkHolds /\ HeldHolds /\ \A t \in DOMAIN sends, j \in Sink : PhaseHolds(t, j)
    BY DEF SinksInv
  <1>3. \A j \in Sink : \A x : x \in Triggered(j)' <=> x \in Triggered(j) \/ (j = i /\ x = transaction_id(s))
    BY <1>1, <1>2, <1>e, LastingMeans DEF Triggered
  <1>4. \A j \in Sink : \A x : x \in Working(j) => x \in Working(j)' \/ (j = i /\ x = transaction_id(s))
    <2> SUFFICES ASSUME NEW j \in Sink, NEW b \in busy, b[1] = j
                 PROVE  transaction_id(b[2]) \in Working(j)' \/ (j = i /\ b[2] = s)
      BY DEF Working
    <2>1. CASE b = <<i, s>>
      BY <2>1, <<i, s>>[1] = i, <<i, s>>[2] = s
    <2>2. CASE b \in busy'
      BY <1>1, <1>2, <2>2, LastingMeans DEF Working
    <2> QED BY <2>1, <2>2
  <1>5. \A t \in DOMAIN sends, j \in Sink : <<j, t>> \in busy' => <<j, t>> \in busy /\ ~(t = s /\ j = i)
    OBVIOUS
  <1>6. ASSUME NEW t \in DOMAIN sends, NEW j \in Sink, <<j, t>> \in busy'
        PROVE  /\ Kind(j)' = "novu" /\ Meant(t, j)' /\ sends'[t].at[j] \in {"waiting", "error"}
               /\ transaction_id(t)' \notin Triggered(j)'
    <2>1. /\ <<j, t>> \in busy /\ ~(t = s /\ j = i) /\ Kind(j) = "novu" /\ Meant(t, j)
          /\ sends[t].at[j] \in {"waiting", "error"} /\ transaction_id(t) \notin Triggered(j)
      BY <1>5, <1>6, <1>w DEF WorkHolds
    <2>2. ~(j = i /\ transaction_id(t) = transaction_id(s))
      BY <1>w, <2>1 DEF WorkHolds
    <2> QED BY <1>1, <1>3, <2>1, <2>2, LastingMeans
  <1>7. WorkHolds'
    BY <1>1, <1>5, <1>6, <1>w, LastingMeans DEF WorkHolds
  <1>8. \A h \in inboxes : h.sink = i /\ Kind(i) = "novu" => transaction_id(h.send) # transaction_id(s)
    <2> SUFFICES ASSUME NEW h \in inboxes, h.sink = i, Kind(i) = "novu"
                 PROVE  transaction_id(h.send) # transaction_id(s)
      OBVIOUS
    <2>1. transaction_id(s) \notin Triggered(i)
      BY <1>w DEF WorkHolds
    <2> QED BY <2>1 DEF Triggered
  <1>9. HeldHolds'
    <2>1. \A h \in inboxes' : /\ h.sink \in Sink /\ h.send \in DOMAIN sends
                              /\ Meant(h.send, h.sink) /\ (h \in inboxes \/ h = e)
      BY <1>2, <1>e, <1>w DEF HeldHolds
    <2>2. \A h \in inboxes' : Meant(h.send, h.sink)'
      BY <1>1, <2>1, LastingMeans
    <2>3. \A g, h \in inboxes' :
             g.sink = h.sink /\ Kind(g.sink) = "novu" /\ transaction_id(g.send) = transaction_id(h.send)
             => g = h
      BY <1>8, <1>e, <1>w, <2>1 DEF HeldHolds
    <2> QED BY <1>1, <2>1, <2>2, <2>3, LastingMeans DEF HeldHolds
  <1>10. \A t \in DOMAIN sends, j \in Sink : Reached(t, j) => Reached(t, j)'
    BY <1>1, <1>3, <1>4, LastingMeans DEF Reached
  <1>11. Reached(s, i)'
    BY DEF Reached
  <1>12. \A t \in DOMAIN sends, j \in Sink : sends'[t].at[j] \in {"accepted", "conflict", "ok"} =>
            Reached(t, j)' \/ <<t, j>> \in odd'
    BY <1>1, <1>10, <1>11, <1>w DEF PhaseHolds
  <1>13. \A t \in DOMAIN sends', j \in Sink' : PhaseHolds(t, j)'
    BY <1>12, PhasesKeep
  <1>14. SinksTypeOK'
    BY <1>1, <1>e, <1>t DEF SinksTypeOK, Lasting
  <1> QED BY <1>7, <1>9, <1>13, <1>14 DEF SinksInv

\* An accepted message.
LEMMA AcceptKeeps ==
    ASSUME SinksInv, NEW s \in DOMAIN sends, NEW i \in Sink, Accept(s, i)
    PROVE  SinksInv'
  <1>1. /\ ReadyToSend(s, i) /\ channels' = channels /\ busy' = busy /\ odd \subseteq odd'
        /\ Becomes(s, i, "accepted") /\ Kind(i) # "novu"
    BY DEF Accept
  <1>2. sends[s].at[i] \in {"todo", "linked"} /\ <<i, s>> \notin busy /\ Meant(s, i)
    BY <1>1, ReadyFacts
  <1>3. "accepted" \in Phases
    BY DEF Phases
  <1>4. CASE inboxes' = inboxes \cup {[sink |-> i, send |-> s]}
    <2>1. Marked(s, i, "accepted") /\ sends' \in Seq(Sending)'
      BY <1>1, <1>3, BecomesMarks DEF SinksInv
    <2>2. busy' = busy \ {<<i, s>>}
      BY <1>1, <1>2
    <2> QED BY <1>1, <1>2, <1>4, <2>1, <2>2, ArrivalKeeps
  <1>5. CASE inboxes' = inboxes /\ <<s, i>> \in odd'
    BY <1>1, <1>2, <1>3, <1>5, QuietKeeps
  <1> QED BY <1>4, <1>5 DEF Accept

\* Novu's work fails: whoever was answered on the strength of it is marked.
LEMMA FailureKeeps ==
    ASSUME SinksInv, NEW s \in DOMAIN sends, NEW i \in Sink, NEW p,
           Marked(s, i, p), sends' \in Seq(Sending)',
           inboxes' = inboxes, busy' = busy \ {<<i, s>>},
           odd' = odd \cup {<<t, i>> : t \in Twins(i, s) \ {s}}, p \in {"refused", "error"},
           sends[s].at[i] \notin {"unasked", "deaf"}, Meant(s, i)
    PROVE  SinksInv'
  <1>t. SinksTypeOK
    BY DEF SinksInv
  <1>1. /\ Lasting /\ DOMAIN sends' = DOMAIN sends /\ Sink' = Sink
        /\ \A t \in DOMAIN sends, j \in Sink :
             sends'[t].at[j] = IF t = s /\ j = i THEN p ELSE sends[t].at[j]
    BY LastingMeans DEF Marked
  <1>2. /\ \A h \in inboxes : h.sink \in Sink /\ h.send \in DOMAIN sends
        /\ \A b \in busy : b[1] \in Sink /\ b[2] \in DOMAIN sends /\ b = <<b[1], b[2]>>
    BY <1>t DEF SinksTypeOK
  <1>w. WorkHolds /\ HeldHolds /\ \A t \in DOMAIN sends, j \in Sink : PhaseHolds(t, j)
    BY DEF SinksInv
  <1>3. \A j \in Sink : Triggered(j)' = Triggered(j)
    BY <1>2, LastingMeans, <1>1 DEF Triggered
  <1>4. \A j \in Sink : \A x : x \in Working(j) => x \in Working(j)' \/ (j = i /\ x = transaction_id(s))
    <2> SUFFICES ASSUME NEW j \in Sink, NEW b \in busy, b[1] = j
                 PROVE  transaction_id(b[2]) \in Working(j)' \/ (j = i /\ b[2] = s)
      BY DEF Working
    <2>1. CASE b = <<i, s>>
      BY <2>1, <<i, s>>[1] = i, <<i, s>>[2] = s
    <2>2. CASE b \in busy'
      BY <1>1, <1>2, <2>2, LastingMeans DEF Working
    <2> QED BY <2>1, <2>2
  <1>5. \A t \in DOMAIN sends, j \in Sink : <<j, t>> \in busy' => <<j, t>> \in busy /\ ~(t = s /\ j = i)
    OBVIOUS
  <1>6. WorkHolds'
    BY <1>1, <1>3, <1>5, <1>w, LastingMeans DEF WorkHolds
  <1>7. HeldHolds'
    BY <1>1, <1>2, <1>w, LastingMeans DEF HeldHolds
  <1>8. \A t \in DOMAIN sends, j \in Sink : sends'[t].at[j] \in {"accepted", "conflict", "ok"} =>
           Reached(t, j)' \/ <<t, j>> \in odd'
    <2> SUFFICES ASSUME NEW t \in DOMAIN sends, NEW j \in Sink,
                        sends'[t].at[j] \in {"accepted", "conflict", "ok"}
                 PROVE  Reached(t, j)' \/ <<t, j>> \in odd'
      OBVIOUS
    <2>1. ~(t = s /\ j = i) /\ sends[t].at[j] \in {"accepted", "conflict", "ok"}
      BY <1>1
    <2>2. Reached(t, j) \/ <<t, j>> \in odd
      BY <1>w, <2>1 DEF PhaseHolds
    <2>3. CASE j = i /\ transaction_id(t) = transaction_id(s)
      BY <2>1, <2>3 DEF Twins
    <2>4. CASE ~(j = i /\ transaction_id(t) = transaction_id(s)) /\ Reached(t, j)
      BY <1>1, <1>3, <1>4, <2>4, LastingMeans DEF Reached
    <2> QED BY <2>2, <2>3, <2>4
  <1>9. \A t \in DOMAIN sends', j \in Sink' : PhaseHolds(t, j)'
    BY <1>8, PhasesKeep
  <1>10. SinksTypeOK'
    BY <1>1, <1>t DEF SinksTypeOK, Lasting
  <1> QED BY <1>6, <1>7, <1>9, <1>10 DEF SinksInv

\* Novu's work, done or failed.
LEMMA WorkKeeps ==
    ASSUME SinksInv, NEW s \in DOMAIN sends, NEW i \in Sink, Work(i, s)
    PROVE  SinksInv'
  <1>t. SinksTypeOK
    BY DEF SinksInv
  <1>1. /\ <<i, s>> \in busy /\ busy' = busy \ {<<i, s>>} /\ channels' = channels
        /\ sends[s].at[i] \in {"waiting", "error"} /\ Meant(s, i)
    BY PhaseFacts DEF Work, PhaseHolds, SinksInv, WorkHolds
  <1>2. {"accepted", "refused"} \subseteq Phases
    BY DEF Phases
  <1>3. CASE inboxes' = inboxes \cup {[sink |-> i, send |-> s]} /\ odd' = odd
             /\ sends' = IF sends[s].at[i] = "waiting" THEN [sends EXCEPT ![s].at[i] = "accepted"] ELSE sends
    <2>1. CASE Becomes(s, i, "accepted")
      <3>1. Marked(s, i, "accepted") /\ sends' \in Seq(Sending)'
        BY <1>1, <1>2, <1>t, <2>1, BecomesMarks
      <3> QED BY <1>1, <1>3, <3>1, ArrivalKeeps
    <2>2. CASE sends[s].at[i] = "error" /\ sends' = sends
      <3>1. Marked(s, i, "error") /\ sends' \in Seq(Sending)'
        BY <1>1, <1>t, <2>2, SameMarks
      <3> QED BY <1>1, <1>3, <3>1, ArrivalKeeps
    <2> QED BY <1>1, <1>3, <2>1, <2>2 DEF Becomes
  <1>4. CASE inboxes' = inboxes /\ odd' = odd \cup {<<t, i>> : t \in Twins(i, s) \ {s}}
             /\ sends' = IF sends[s].at[i] = "waiting" THEN [sends EXCEPT ![s].at[i] = "refused"] ELSE sends
    <2>1. CASE Becomes(s, i, "refused")
      <3>1. Marked(s, i, "refused") /\ sends' \in Seq(Sending)'
        BY <1>1, <1>2, <1>t, <2>1, BecomesMarks
      <3> QED BY <1>1, <1>4, <3>1, FailureKeeps
    <2>2. CASE sends[s].at[i] = "error" /\ sends' = sends
      <3>1. Marked(s, i, "error") /\ sends' \in Seq(Sending)'
        BY <1>1, <1>t, <2>2, SameMarks
      <3> QED BY <1>1, <1>4, <3>1, FailureKeeps
    <2> QED BY <1>1, <1>4, <2>1, <2>2 DEF Becomes
  <1> QED BY <1>3, <1>4 DEF Work

\* A transaction Novu does not know is started once.
LEMMA StartKeeps ==
    ASSUME SinksInv, NEW s \in DOMAIN sends, NEW i \in Sink,
           Becomes(s, i, "waiting"), channels' = channels, inboxes' = inboxes, odd' = odd,
           busy' = busy \cup {<<i, s>>}, Kind(i) = "novu", Meant(s, i),
           sends[s].at[i] \notin {"unasked", "deaf"},
           transaction_id(s) \notin Triggered(i) \cup Working(i)
    PROVE  SinksInv'
  <1>t. SinksTypeOK
    BY DEF SinksInv
  <1>0. "waiting" \in Phases
    BY DEF Phases
  <1>m. Marked(s, i, "waiting") /\ sends' \in Seq(Sending)'
    BY <1>0, <1>t, BecomesMarks
  <1>1. /\ Lasting /\ DOMAIN sends' = DOMAIN sends /\ Sink' = Sink
        /\ \A t \in DOMAIN sends, j \in Sink :
             sends'[t].at[j] = IF t = s /\ j = i THEN "waiting" ELSE sends[t].at[j]
    BY <1>m, LastingMeans DEF Marked
  <1>2. /\ \A h \in inboxes : h.sink \in Sink /\ h.send \in DOMAIN sends
        /\ \A b \in busy : b[1] \in Sink /\ b[2] \in DOMAIN sends /\ b = <<b[1], b[2]>>
    BY <1>t DEF SinksTypeOK
  <1>w. WorkHolds /\ HeldHolds /\ \A t \in DOMAIN sends, j \in Sink : PhaseHolds(t, j)
    BY DEF SinksInv
  <1>3. \A j \in Sink : Triggered(j)' = Triggered(j)
    BY <1>1, <1>2, LastingMeans DEF Triggered
  <1>4. \A j \in Sink : \A x : x \in Working(j) => x \in Working(j)'
    BY <1>1, <1>2, LastingMeans DEF Working
  <1>5. \A t \in DOMAIN sends, j \in Sink : <<j, t>> \in busy' => <<j, t>> \in busy \/ (t = s /\ j = i)
    OBVIOUS
  <1>6. \A t \in DOMAIN sends : <<i, t>> \in busy => transaction_id(t) # transaction_id(s)
    <2> SUFFICES ASSUME NEW t \in DOMAIN sends, <<i, t>> \in busy
                 PROVE  transaction_id(t) \in Working(i)
      OBVIOUS
    <2> QED BY <<i, t>>[1] = i, <<i, t>>[2] = t DEF Working
  <1>7. ASSUME NEW t \in DOMAIN sends, NEW j \in Sink, <<j, t>> \in busy'
        PROVE  /\ Kind(j)' = "novu" /\ Meant(t, j)' /\ sends'[t].at[j] \in {"waiting", "error"}
               /\ transaction_id(t)' \notin Triggered(j)'
    <2>1. CASE t = s /\ j = i
      BY <1>1, <1>3, <2>1, LastingMeans
    <2>2. CASE <<j, t>> \in busy
      <3>1. /\ Kind(j) = "novu" /\ Meant(t, j) /\ sends[t].at[j] \in {"waiting", "error"}
            /\ transaction_id(t) \notin Triggered(j)
        BY <1>w, <2>2 DEF WorkHolds
      <3> QED BY <1>1, <1>3, <3>1, LastingMeans
    <2> QED BY <1>5, <1>7, <2>1, <2>2
  <1>8. WorkHolds'
    <2>1. ASSUME NEW t \in DOMAIN sends, NEW u \in DOMAIN sends, NEW j \in Sink,
                 <<j, t>> \in busy', <<j, u>> \in busy', transaction_id(t) = transaction_id(u)
          PROVE  t = u
      BY <1>5, <1>6, <1>w, <2>1 DEF WorkHolds
    <2> QED BY <1>1, <1>7, <2>1, LastingMeans DEF WorkHolds
  <1>9. HeldHolds'
    BY <1>1, <1>2, <1>w, LastingMeans DEF HeldHolds
  <1>10. \A t \in DOMAIN sends, j \in Sink : sends'[t].at[j] \in {"accepted", "conflict", "ok"} =>
           Reached(t, j)' \/ <<t, j>> \in odd'
    <2> SUFFICES ASSUME NEW t \in DOMAIN sends, NEW j \in Sink,
                        sends'[t].at[j] \in {"accepted", "conflict", "ok"}
                 PROVE  Reached(t, j)' \/ <<t, j>> \in odd'
      OBVIOUS
    <2>1. sends[t].at[j] \in {"accepted", "conflict", "ok"}
      BY <1>1
    <2>2. Reached(t, j) \/ <<t, j>> \in odd
      BY <1>w, <2>1 DEF PhaseHolds
    <2> QED BY <1>1, <1>3, <1>4, <2>2, LastingMeans DEF Reached
  <1>11. \A t \in DOMAIN sends', j \in Sink' : PhaseHolds(t, j)'
    BY <1>10, <1>m, PhasesKeep
  <1>12. SinksTypeOK'
    BY <1>1, <1>m, <1>t DEF SinksTypeOK, Lasting
  <1> QED BY <1>8, <1>9, <1>11, <1>12 DEF SinksInv

\* A trigger, of a transaction known, in hand or new.
LEMMA TriggerKeeps ==
    ASSUME SinksInv, NEW s \in DOMAIN sends, NEW i \in Sink, Trigger(s, i)
    PROVE  SinksInv'
  <1> DEFINE id == transaction_id(s)
  <1>1. ReadyToSend(s, i) /\ channels' = channels /\ inboxes' = inboxes /\ odd' = odd /\ Kind(i) = "novu"
    BY DEF Trigger
  <1>2. sends[s].at[i] \in {"todo", "linked"} /\ <<i, s>> \notin busy /\ Meant(s, i)
    BY <1>1, ReadyFacts
  <1>3. {"accepted", "conflict"} \subseteq Phases
    BY DEF Phases
  <1>4. CASE id \in Triggered(i)
    <2>0. id \notin Working(i)
      <3> SUFFICES ASSUME NEW b \in busy, b[1] = i, transaction_id(b[2]) = id PROVE FALSE
        BY DEF Working
      <3>1. b = <<i, b[2]>> /\ b[2] \in DOMAIN sends
        BY DEF SinksInv, SinksTypeOK
      <3>2. transaction_id(b[2]) \notin Triggered(i)
        BY <3>1 DEF SinksInv, WorkHolds
      <3> QED BY <1>4, <3>2
    <2>1. Becomes(s, i, "accepted") /\ busy' = busy
      BY <1>4, <2>0 DEF Trigger
    <2>2. Reached(s, i)
      BY <1>1, <1>4 DEF Reached
    <2> QED BY <1>1, <1>2, <1>3, <2>1, <2>2, QuietKeeps
  <1>5. CASE id \in Working(i) /\ (Becomes(s, i, "accepted") \/ Becomes(s, i, "conflict")) /\ busy' = busy
    <2>1. Reached(s, i)
      BY <1>1, <1>5 DEF Reached
    <2>2. CASE Becomes(s, i, "accepted")
      BY <1>1, <1>2, <1>3, <1>5, <2>1, <2>2, QuietKeeps
    <2>3. CASE Becomes(s, i, "conflict")
      BY <1>1, <1>2, <1>3, <1>5, <2>1, <2>3, QuietKeeps
    <2> QED BY <1>5, <2>2, <2>3
  <1>6. CASE id \notin Triggered(i) \cup Working(i) /\ Becomes(s, i, "waiting") /\ busy' = busy \cup {<<i, s>>}
    BY <1>1, <1>2, <1>6, StartKeeps
  <1>7. CASE id \notin Triggered(i) /\ id \in Working(i)
    <2>1. Becomes(s, i, "conflict") /\ busy' = busy
      BY <1>7 DEF Trigger
    <2> QED BY <1>5, <1>7, <2>1
  <1>8. CASE id \notin Triggered(i) \cup Working(i)
    <2>1. Becomes(s, i, "waiting") /\ busy' = busy \cup {<<i, s>>}
      BY <1>8 DEF Trigger
    <2> QED BY <1>6, <1>8, <2>1
  <1> QED BY <1>4, <1>7, <1>8

\* A new delivery: what its phases start from.
LEMMA AskKeeps ==
    ASSUME SinksInv, NEW op \in {"notify", "partial", "test"}, NEW event \in Events \cup {TestEvent},
           NEW asked \in SUBSET Sink, NEW shut, Ask(op, event, asked, shut),
           op = "notify" => asked = matching_indices(event)
    PROVE  SinksInv'
  <1>t. SinksTypeOK
    BY DEF SinksInv
  <1> DEFINE at == [i \in Sink |-> IF i \in asked THEN phase(op, event, i, shut) ELSE "unasked"]
             e  == [op |-> op, event |-> event, at |-> at]
  <1>6. Len(sends) \in Nat /\ DOMAIN sends = 1 .. Len(sends)
    BY <1>t DEF SinksTypeOK
  <1>n. PICK n \in Nat : n = Len(sends) + 1
    BY <1>6
  <1>1. \A i \in Sink : phase(op, event, i, shut) \in {"deaf", "open", "error", "todo"}
    BY DEF phase
  <1>2. at \in [Sink -> Phases]
    BY <1>1 DEF Phases
  <1>3. /\ \A i \in Sink : at[i] \in {"unasked", "deaf", "open", "error", "todo"}
        /\ \A i \in Sink : at[i] # "unasked" <=> i \in asked
        /\ \A i \in Sink : at[i] = "deaf" => op # "test" /\ ~Listens(i, event)
        /\ \A i \in Sink : at[i] = "todo" =>
             (op = "test" \/ Listens(i, event)) /\ ~Misaddressed(channels[i], event)
    BY <1>1 DEF phase
  <1> HIDE DEF at
  <1>4. e \in Sending /\ e.op = op /\ e.event = event /\ e.at = at
    BY <1>2 DEF Sending
  <1>5. sends' = Append(sends, e) /\ UNCHANGED <<channels, inboxes, busy, links, odd>>
    BY DEF Ask, at
  <1> HIDE DEF e
  <1>7. sends' \in Seq(Sending) /\ DOMAIN sends' = 1 .. n
        /\ sends'[n] = e /\ \A t \in DOMAIN sends : sends'[t] = sends[t]
    BY <1>4, <1>5, <1>n, <1>t DEF SinksTypeOK
  <1>8. DOMAIN sends' = DOMAIN sends \cup {n} /\ n \notin DOMAIN sends
    BY <1>6, <1>7, <1>n
  <1>9. Lasting /\ Sending' = Sending /\ Sink' = Sink
    BY <1>5, <1>7, <1>8 DEF Lasting, Sending, Sink
  <1>10. \A t \in DOMAIN sends, j \in Sink : <<j, t>> \in busy => sends'[t].at[j] \in {"waiting", "error"}
    BY <1>7 DEF SinksInv, WorkHolds
  <1>11. /\ WorkHolds' /\ HeldHolds'
         /\ \A t \in DOMAIN sends, j \in Sink : Reached(t, j) => Reached(t, j)'
         /\ inboxes' \subseteq [sink : Sink', send : DOMAIN sends']
         /\ busy' \subseteq Sink' \X DOMAIN sends'
    BY <1>5, <1>9, <1>10, ServicesKeep
  <1>12. SinksTypeOK'
    BY <1>5, <1>7, <1>9, <1>11, <1>t DEF SinksTypeOK
  <1>13. ASSUME NEW t \in DOMAIN sends, NEW j \in Sink PROVE PhaseHolds(t, j)'
    <2>1. /\ Meant(t, j)' <=> Meant(t, j)
          /\ Listens(j, EventOf(t))' <=> Listens(j, EventOf(t))
          /\ Kind(j)' = Kind(j) /\ sends'[t] = sends[t]
      BY <1>7, <1>9, LastingMeans
    <2>2. PhaseHolds(t, j)
      BY DEF SinksInv
    <2> QED BY <1>5, <1>11, <2>1, <2>2 DEF PhaseHolds
  <1>14. ASSUME NEW j \in Sink PROVE PhaseHolds(n, j)'
    <2>1. sends'[n].at[j] = at[j] /\ sends'[n].op = op /\ EventOf(n)' = event
      BY <1>4, <1>7 DEF EventOf
    <2>2. /\ Listens(j, EventOf(n))' <=> Listens(j, event)
          /\ Misaddressed(channels[j], EventOf(n))' <=> Misaddressed(channels[j], event)
      BY <1>5, <2>1 DEF Listens, Misaddressed, Address
    <2>3. at[j] = "todo" => Meant(n, j)'
      BY <1>3, <2>1, <2>2 DEF Meant
    <2>4. op = "notify" => (j \in asked <=> Listens(j, event))
      BY DEF matching_indices
    <2>5. op = "notify" => (at[j] # "unasked" <=> Listens(j, event)) /\ at[j] # "deaf"
      BY <1>3, <2>4
    <2>6. at[j] \in {"unasked", "deaf", "open", "error", "todo"}
      BY <1>3
    <2> QED BY <2>1, <2>2, <2>3, <2>5, <2>6 DEF PhaseHolds
  <1>15. \A t \in DOMAIN sends', j \in Sink' : PhaseHolds(t, j)'
    BY <1>8, <1>9, <1>13, <1>14
  <1> QED BY <1>11, <1>12, <1>15 DEF SinksInv

\* A broker's link, or nothing.
LEMMA LinksKeep ==
    ASSUME SinksInv, UNCHANGED <<channels, sends, inboxes, busy, odd>>
    PROVE  SinksInv'
  <1>t. SinksTypeOK
    BY DEF SinksInv
  <1>1. Lasting /\ Sink' = Sink /\ Sending' = Sending
    BY DEF Lasting, Sink, Sending
  <1>2. \A t \in DOMAIN sends, j \in Sink : <<j, t>> \in busy => sends'[t].at[j] \in {"waiting", "error"}
    BY DEF SinksInv, WorkHolds
  <1>3. /\ WorkHolds' /\ HeldHolds'
        /\ \A t \in DOMAIN sends, j \in Sink : Reached(t, j) => Reached(t, j)'
    BY <1>1, <1>2, ServicesKeep
  <1>4. SinksTypeOK'
    BY <1>1, <1>t DEF SinksTypeOK
  <1>5. \A t \in DOMAIN sends', j \in Sink' : PhaseHolds(t, j)'
    <2> SUFFICES ASSUME NEW t \in DOMAIN sends, NEW j \in Sink PROVE PhaseHolds(t, j)'
      BY <1>1
    <2>1. /\ Meant(t, j)' <=> Meant(t, j)
          /\ Listens(j, EventOf(t))' <=> Listens(j, EventOf(t))
          /\ Kind(j)' = Kind(j)
      BY <1>1, LastingMeans
    <2>2. PhaseHolds(t, j)
      BY DEF SinksInv
    <2> QED BY <1>3, <2>1, <2>2 DEF PhaseHolds
  <1> QED BY <1>3, <1>4, <1>5 DEF SinksInv

\* The invariant: phases, Novu's work and what the services hold agree.
THEOREM SinksInvariance == SinksSpec => []SinksInv
  <1>1. SinksInit => SinksInv
    <2> SUFFICES ASSUME SinksInit PROVE SinksInv
      OBVIOUS
    <2>1. channels \in Setups /\ sends = <<>> /\ inboxes = {} /\ busy = {}
      BY DEF SinksInit
    <2>2. DOMAIN sends = {} /\ sends \in Seq(Sending)
      BY <2>1
    <2> QED BY <2>1, <2>2 DEF SinksInv, SinksTypeOK, WorkHolds, HeldHolds
  <1>2. SinksInv /\ [SinksNext]_sinksVars => SinksInv'
    <2> SUFFICES ASSUME SinksInv, [SinksNext]_sinksVars PROVE SinksInv'
      OBVIOUS
    <2>1. ASSUME NEW event \in Events, Notify(event) PROVE SinksInv'
      <3>1. PICK shut \in SUBSET Sink : Ask("notify", event, matching_indices(event), shut)
        BY <2>1 DEF Notify
      <3>2. matching_indices(event) \in SUBSET Sink
        BY DEF matching_indices
      <3> QED BY <3>1, <3>2, AskKeeps
    <2>2. ASSUME NEW event \in Events, NEW asked \in SUBSET Sink, NotifyPartial(event, asked)
          PROVE  SinksInv'
      BY <2>2, AskKeeps DEF NotifyPartial
    <2>3. ASSUME NEW asked \in {Sink} \cup {{i} : i \in Sink}, Test(asked) PROVE SinksInv'
      <3>1. asked \in SUBSET Sink
        OBVIOUS
      <3> QED BY <2>3, <3>1, AskKeeps DEF Test
    <2>4. ASSUME NEW i \in Sink, Break(i) \/ Mend(i) PROVE SinksInv'
      BY <2>4, LinksKeep DEF Break, Mend
    <2>5. ASSUME NEW i \in Sink, NEW s \in DOMAIN sends, Deliver(s, i) PROVE SinksInv'
      BY <2>5, DialKeeps, RefuseKeeps, AcceptKeeps, TriggerKeeps, WorkKeeps, RespondsKeeps, CutKeeps
         DEF Deliver
    <2>6. ASSUME UNCHANGED sinksVars PROVE SinksInv'
      BY <2>6, LinksKeep DEF sinksVars
    <2> QED BY <2>1, <2>2, <2>3, <2>4, <2>5, <2>6 DEF SinksNext
  <1> QED BY <1>1, <1>2, PTL DEF SinksSpec

\* A channel without a template of its own names the release and links to it.
LEMMA MessageSays ==
    ASSUME NEW event, event.title # "", NEW channel, channel.text = {},
           channel.kind \in {"slack", "slack_webhook", "telegram", "express", "webhook", "kafka",
                             "nats", "rabbitmq", "novu", "apprise", "smtp"}
    PROVE  /\ "title" \in Message(channel, event)
           /\ event.url # "" => "url" \in Message(channel, event)
  <1>1. "title" \in Fields(event) /\ (event.url # "" => "url" \in Fields(event))
    BY DEF Fields
  <1>2. /\ "title" \in default_chat_message(event)
        /\ event.url # "" => "url" \in default_chat_message(event)
        /\ event.url # "" => "url" \in default_markdown_body(event)
    BY <1>1 DEF default_chat_message, default_markdown_body, append_event_url
  <1>3. \A fallback : render_template_or(channel.text, event, fallback) = fallback
    BY DEF render_template_or
  <1>4. CASE channel.kind \in {"slack", "slack_webhook", "telegram", "express"}
    <2>1. Message(channel, event) = default_chat_message(event)
      BY <1>3, <1>4 DEF Message
    <2> QED BY <1>2, <2>1
  <1>5. CASE channel.kind \in {"webhook", "kafka", "nats", "rabbitmq"}
    <2>1. Message(channel, event) = Fields(event)
      BY <1>3, <1>5 DEF Message, EventPayload
    <2> QED BY <1>1, <2>1
  <1>6. CASE channel.kind = "novu"
    <2>1. Message(channel, event) = Fields(event)
      BY <1>6 DEF Message, EventPayload
    <2> QED BY <1>1, <2>1
  <1>7. CASE channel.kind = "apprise"
    <2>1. Message(channel, event) = {"title"} \cup append_event_url({"body"}, event)
      BY <1>7 DEF Message
    <2> QED BY <1>1, <2>1 DEF append_event_url
  <1>8. CASE channel.kind = "smtp"
    <2> DEFINE body == IF channel.markdown THEN default_markdown_body(event)
                                           ELSE default_chat_message(event)
    <2>1. Message(channel, event) = {"title"} \cup render_template_or(channel.text, event, body)
      BY <1>8 DEF Message
    <2>2. event.url # "" => "url" \in body
      BY <1>2
    <2> HIDE DEF body
    <2> QED BY <1>3, <2>1, <2>2
  <1> QED BY <1>4, <1>5, <1>6, <1>7, <1>8

\* What a fan-out (notify, notify_partial) reports of a sink is what its channel has
\* seen, in every sequence of deliveries, answers, refusals, cuts and repeats.
THEOREM VerdictsAlwaysTrue == SinksSpec => []VerdictsAreTrue
  <1>1. SinksInv => VerdictsAreTrue
    <2> SUFFICES ASSUME SinksInv PROVE VerdictsAreTrue
      OBVIOUS
    <2>t. SinksTypeOK /\ HeldHolds /\ \A s \in DOMAIN sends, i \in Sink : PhaseHolds(s, i)
      BY DEF SinksInv
    <2>h. \A h \in inboxes : h.sink \in Sink /\ h.send \in DOMAIN sends
      BY <2>t DEF SinksTypeOK
    <2>1. AckedIsHeld
      BY <2>t DEF AckedIsHeld, PhaseHolds
    <2>2. OkMeansTold
      <3> SUFFICES ASSUME NEW s \in DOMAIN sends, sends[s].op = "notify", Answered(s), outcome(s) = "ok"
                   PROVE  /\ matching_indices(EventOf(s)) # {}
                          /\ \A i \in matching_indices(EventOf(s)) : Reached(s, i) \/ <<s, i>> \in odd
        BY DEF OkMeansTold
      <3>1. Asked(s) # {} /\ Failed(s) = {}
        BY DEF outcome
      <3>2. Asked(s) = matching_indices(EventOf(s))
        BY <2>t DEF Asked, matching_indices, PhaseHolds
      <3>3. ASSUME NEW i \in Asked(s) PROVE Reached(s, i) \/ <<s, i>> \in odd
        <4>1. /\ i \in Sink /\ sends[s].at[i] \in Phases /\ sends[s].at[i] \notin Pending
              /\ sends[s].at[i] \notin {"unasked", "deaf"}
          BY <2>t, SendTypes DEF Asked, Answered, PhaseHolds
        <4>2. sends[s].at[i] \notin {"error", "open"}
          BY <3>1 DEF Failed
        <4>3. sends[s].at[i] = "ok"
          BY <4>1, <4>2 DEF Phases, Pending
        <4> QED BY <2>1, <4>1, <4>3 DEF AckedIsHeld
      <3> QED BY <3>1, <3>2, <3>3
    <2>3. TeamsOnly
      BY <2>t DEF TeamsOnly, HeldHolds, Meant
    <2>4. TriggersOnce
      BY <2>t DEF TriggersOnce, HeldHolds, transaction_id
    <2>5. SaysWhat
      <3> SUFFICES ASSUME NEW h \in inboxes
                   PROVE  LET channel == channels[h.sink]
                              message == Message(channel, EventOf(h.send))
                          IN  /\ channel.text = {} => /\ "title" \in message
                                                      /\ EventOf(h.send).url # "" => "url" \in message
                              /\ channel.kind \in ChecksAddress => Address(channel, EventOf(h.send)) # ""
        BY DEF SaysWhat
      <3> DEFINE channel == channels[h.sink]
                 event   == EventOf(h.send)
      <3>1. event \in Events \cup {TestEvent} /\ h.sink \in Sink /\ Meant(h.send, h.sink)
        BY <2>h, <2>t, SendTypes DEF HeldHolds, EventOf
      <3>2. event.title # ""
        BY <3>1, SinksAssumption
      <3>3. channel.kind \in {"slack", "slack_webhook", "telegram", "express", "webhook", "kafka",
                              "nats", "rabbitmq", "novu", "apprise", "smtp"}
        BY <2>t, <3>1, SinksAssumption DEF SinksTypeOK, Sink
      <3>4. channel.kind \in ChecksAddress => Address(channel, event) # ""
        BY <3>1 DEF Meant, Misaddressed
      <3>5. channel.text = {} => /\ "title" \in Message(channel, event)
                                 /\ event.url # "" => "url" \in Message(channel, event)
        BY <3>2, <3>3, MessageSays
      <3> QED BY <3>4, <3>5
    <2> QED BY <2>1, <2>2, <2>3, <2>4, <2>5 DEF VerdictsAreTrue
  <1> QED BY <1>1, SinksInvariance, PTL

----------------------------------------------------------------------------
(* Secrets: what holds of every channel of the running document and of the *)
(* one on screen.                                                          *)

ChannelFields == {"kind", "name", "tip", "value", "env", "owed"}

\* A channel with its fields.
IsChannel(c) == DOMAIN c = ChannelFields /\ c.kind # "none"

\* What the process finds under a name that its environment does not set.
Found(name) == IF name \in DOMAIN vault THEN vault[name] ELSE Nothing

\* An edited channel and the one of the running document it was read from: a
\* rename leaves what restoring goes by.
ReadFrom(c, d) ==
    /\ c.kind = d.kind /\ c.tip = d.tip /\ c.owed = d.owed
    /\ c.kind \in {"webhook", "rabbitmq", "nats"} \/ (c.kind = "slack" /\ c.tip = Nothing)
          => c.name = d.name
    /\ c.env \in {NoEnv, d.env}

\* Masked, or with a secret somebody typed.
Accounted(c, doc) ==
    IF takes(c.value) THEN c.owed = c.value ELSE \E o \in DOMAIN doc : ReadFrom(c, doc[o])

ScreenHolds ==
    /\ screen \in Seq(Range(screen))
    /\ \A i \in DOMAIN screen : IsChannel(screen[i]) /\ Accounted(screen[i], document)

\* The running document: inline secrets only until the first apply.
DocumentHolds ==
    /\ document \in Seq(Range(document))
    /\ \A i \in DOMAIN document :
          /\ IsChannel(document[i])
          /\ takes(document[i].value) => document[i].owed = document[i].value /\ DOMAIN vault = {}
    /\ LookApart(document)

VaultHolds ==
    \A n \in DOMAIN vault : is_ui_managed_secret_name(n) => n \in collect_secret_env_refs(document)

SecretsInv == ScreenHolds /\ DocumentHolds /\ VaultHolds /\ SecretFollows

----------------------------------------------------------------------------
\* A function on 1..n is a sequence of its values.
LEMMA IsSequence ==
    ASSUME NEW f, NEW n \in Nat, f = [i \in 1..n |-> f[i]]
    PROVE  f \in Seq(Range(f)) /\ DOMAIN f = 1..n /\ Len(f) = n
  <1>1. f \in [1..n -> Range(f)]
    BY DEF Range
  <1> QED BY <1>1

LEMMA SequenceDomain ==
    ASSUME NEW f, f \in Seq(Range(f))
    PROVE  Len(f) \in Nat /\ DOMAIN f = 1..Len(f) /\ f = [i \in 1..Len(f) |-> f[i]]
  OBVIOUS

\* A channel leaves the list: those that stay are channels of it.
LEMMA RemovalKeeps ==
    ASSUME NEW f, f \in Seq(Range(f)), NEW i \in DOMAIN f
    PROVE  /\ RemoveAt(f, i) \in Seq(Range(RemoveAt(f, i)))
           /\ \A k \in DOMAIN RemoveAt(f, i) : \E j \in DOMAIN f : RemoveAt(f, i)[k] = f[j]
  <1> DEFINE g == RemoveAt(f, i)
  <1>1. Len(f) \in Nat /\ DOMAIN f = 1..Len(f)
    BY SequenceDomain
  <1>2. /\ Len(g) = Len(f) - 1 /\ g \in Seq(Range(f))
        /\ \A k \in 1..(Len(f) - 1) : g[k] = IF k < i THEN f[k] ELSE f[k + 1]
    <2> DEFINE front == SubSeq(f, 1, i - 1)
               back  == SubSeq(f, i + 1, Len(f))
    <2>1. f \in Seq(Range(f)) /\ i \in 1..Len(f)
      BY <1>1
    <2>2. /\ front \in Seq(Range(f)) /\ Len(front) = i - 1
          /\ \A k \in 1..(i - 1) : front[k] = f[k]
      BY <1>1, <2>1
    <2>3. /\ back \in Seq(Range(f)) /\ Len(back) = Len(f) - i
          /\ \A k \in 1..(Len(f) - i) : back[k] = f[i + k]
      BY <1>1, <2>1
    <2> HIDE DEF front, back
    <2>4. g = front \o back
      BY DEF RemoveAt, front, back
    <2> HIDE DEF g
    <2>5. /\ g \in Seq(Range(f)) /\ Len(g) = Len(front) + Len(back)
          /\ \A k \in 1..(Len(front) + Len(back)) :
                g[k] = IF k <= Len(front) THEN front[k] ELSE back[k - Len(front)]
      BY <2>2, <2>3, <2>4, ConcatProperties
    <2>6. Len(front) + Len(back) = Len(f) - 1
      BY <1>1, <2>1, <2>2, <2>3
    <2>7. ASSUME NEW k \in 1..(Len(f) - 1)
          PROVE  g[k] = IF k < i THEN f[k] ELSE f[k + 1]
      <3>1. CASE k < i
        <4>1. k \in 1..(i - 1) /\ k <= Len(front)
          BY <1>1, <2>1, <2>2, <3>1
        <4>2. g[k] = front[k]
          BY <2>5, <2>6, <4>1
        <4> QED BY <2>2, <3>1, <4>1, <4>2
      <3>2. CASE ~ (k < i)
        <4>1. k - (i - 1) \in 1..(Len(f) - i) /\ ~ (k <= Len(front)) /\ i + (k - (i - 1)) = k + 1
          BY <1>1, <2>1, <2>2, <3>2
        <4>2. g[k] = back[k - Len(front)]
          BY <2>5, <2>6, <4>1
        <4>3. back[k - (i - 1)] = f[i + (k - (i - 1))]
          BY <2>3, <4>1
        <4> QED BY <2>2, <3>2, <4>1, <4>2, <4>3
      <3> QED BY <3>1, <3>2
    <2> QED BY <2>5, <2>6, <2>7
  <1> HIDE DEF g
  <1>3. DOMAIN g = 1..(Len(f) - 1) /\ g = [k \in 1..(Len(f) - 1) |-> g[k]]
    BY <1>1, <1>2
  <1>4. Len(f) - 1 \in Nat
    BY <1>1
  <1>5. g \in Seq(Range(g))
    BY <1>3, <1>4, IsSequence
  <1>6. \A k \in DOMAIN g : \E j \in DOMAIN f : g[k] = f[j]
    BY <1>1, <1>2, <1>3
  <1> QED BY <1>5, <1>6 DEF g

LEMMA AdditionKeeps ==
    ASSUME NEW f, f \in Seq(Range(f)), NEW c
    PROVE  /\ Append(f, c) \in Seq(Range(Append(f, c)))
           /\ \A k \in DOMAIN Append(f, c) :
                 Append(f, c)[k] = c \/ \E j \in DOMAIN f : Append(f, c)[k] = f[j]
  <1> DEFINE g == Append(f, c)
             S == Range(f) \cup {c}
  <1>1. Len(f) \in Nat /\ DOMAIN f = 1..Len(f)
    BY SequenceDomain
  <1>2. f \in Seq(S)
    BY <1>1, SequenceDomain DEF Range
  <1>3. /\ Len(g) = Len(f) + 1 /\ g \in Seq(S)
        /\ \A k \in 1..(Len(f) + 1) : g[k] = IF k = Len(f) + 1 THEN c ELSE f[k]
    BY <1>1, <1>2
  <1> HIDE DEF g
  <1>4. DOMAIN g = 1..(Len(f) + 1) /\ g = [k \in 1..(Len(f) + 1) |-> g[k]]
    BY <1>1, <1>3
  <1>5. g \in Seq(Range(g))
    BY <1>1, <1>4, IsSequence
  <1>6. \A k \in DOMAIN g : g[k] = c \/ \E j \in DOMAIN f : g[k] = f[j]
    BY <1>1, <1>3, <1>4
  <1> QED BY <1>5, <1>6 DEF g

\* The greatest, or the least, of one number.
LEMMA OneOf ==
    ASSUME NEW n \in Nat
    PROVE  Max({n}) = n /\ Min({n}) = n
  BY DEF Max, Min

----------------------------------------------------------------------------
(* Which channel a masked one is taken for.                                *)

Webhooks(doc) == {i \in DOMAIN doc : doc[i].kind = "webhook"}

\* Masked channels are compared by kind, name and tip, and by how many webhooks
\* there are.
LEMMA MasksCompare ==
    ASSUME NEW a, NEW b, NEW doc, NEW c, NEW d, NEW seen,
           a.kind = c.kind, a.name = c.name, a.tip = c.tip,
           b.kind = d.kind, b.name = d.name, b.tip = d.tip,
           placeholder(a.value), placeholder(c.value),
           Webhooks(doc) = Webhooks(seen),
           same_channel(a, b, doc)
    PROVE  same_channel(c, d, seen)
  <1>1. ~ (a.value \notin {Blank, Redacted}) /\ ~ (c.value \notin {Blank, Redacted})
    BY DEF placeholder
  <1>2. CASE a.kind = "webhook"
    BY <1>1, <1>2 DEF same_channel, placeholder, Webhooks
  <1>3. CASE a.kind # "webhook"
    BY <1>3 DEF same_channel
  <1> QED BY <1>2, <1>3

\* What the screen shows of a document: masks, and everything but the secrets.
LEMMA Shown ==
    ASSUME NEW doc, \A i \in DOMAIN doc : IsChannel(doc[i]), NEW i \in DOMAIN doc
    PROVE  LET seen == redact_config(doc) IN
           /\ DOMAIN seen = DOMAIN doc /\ IsChannel(seen[i])
           /\ seen[i].kind = doc[i].kind /\ seen[i].name = doc[i].name /\ seen[i].tip = doc[i].tip
           /\ seen[i].env = doc[i].env /\ seen[i].owed = doc[i].owed
           /\ placeholder(seen[i].value)
  <1> DEFINE seen == redact_config(doc)
  <1>1. DOMAIN seen = DOMAIN doc
    BY DEF redact_config
  <1>2. seen[i] = IF doc[i].value # Blank \/ doc[i].env # NoEnv
                  THEN [doc[i] EXCEPT !.value = Redacted] ELSE doc[i]
    BY DEF redact_config
  <1>3. IsChannel(doc[i])
    OBVIOUS
  <1> HIDE DEF seen
  <1>4. CASE doc[i].value # Blank \/ doc[i].env # NoEnv
    BY <1>1, <1>2, <1>3, <1>4 DEF IsChannel, ChannelFields, placeholder, seen
  <1>5. CASE ~ (doc[i].value # Blank \/ doc[i].env # NoEnv)
    BY <1>1, <1>2, <1>3, <1>5 DEF IsChannel, ChannelFields, placeholder, seen
  <1> QED BY <1>4, <1>5

LEMMA ShownWebhooks ==
    ASSUME NEW doc, \A i \in DOMAIN doc : IsChannel(doc[i])
    PROVE  Webhooks(redact_config(doc)) = Webhooks(doc)
  <1>1. DOMAIN redact_config(doc) = DOMAIN doc
    BY DEF redact_config
  <1>2. \A i \in DOMAIN doc : redact_config(doc)[i].kind = doc[i].kind
    BY Shown
  <1> QED BY <1>1, <1>2 DEF Webhooks

\* Two masked documents of the same channels look apart, or neither does.
LEMMA LookApartKeeps ==
    ASSUME NEW doc, NEW next, DOMAIN next = DOMAIN doc,
           \A i \in DOMAIN doc :
              /\ IsChannel(doc[i]) /\ IsChannel(next[i])
              /\ next[i].kind = doc[i].kind /\ next[i].name = doc[i].name /\ next[i].tip = doc[i].tip,
           LookApart(doc)
    PROVE  LookApart(next)
  <1> DEFINE seen == redact_config(doc)
             shown == redact_config(next)
  <1>1. Webhooks(seen) = Webhooks(shown)
    <2>1. Webhooks(doc) = Webhooks(next)
      BY DEF Webhooks
    <2> QED BY <2>1, ShownWebhooks
  <1>2. SUFFICES ASSUME NEW i \in DOMAIN next, NEW j \in DOMAIN next, i # j,
                        same_channel(shown[i], shown[j], shown)
                 PROVE  FALSE
    BY DEF LookApart
  <1>3. \A k \in DOMAIN doc :
           /\ seen[k].kind = shown[k].kind /\ seen[k].name = shown[k].name
           /\ seen[k].tip = shown[k].tip
           /\ placeholder(seen[k].value) /\ placeholder(shown[k].value)
    BY Shown
  <1>4. ~ same_channel(seen[i], seen[j], seen)
    BY <1>2 DEF LookApart
  <1> HIDE DEF seen, shown
  <1> QED BY <1>1, <1>2, <1>3, <1>4, MasksCompare

\* A masked channel is taken for the one it was read from, or for none.
LEMMA TakenForItsOrigin ==
    ASSUME DocumentHolds, NEW c, placeholder(c.value),
           NEW o \in DOMAIN document, ReadFrom(c, document[o]),
           NEW j \in DOMAIN document, same_channel(c, document[j], document)
    PROVE  j = o
  <1> DEFINE seen == redact_config(document)
             d == document[o]
             e == document[j]
  <1>1. SUFFICES ASSUME j # o PROVE FALSE
    OBVIOUS
  <1>2. ~ same_channel(seen[o], seen[j], seen)
    BY <1>1 DEF DocumentHolds, LookApart
  <1>3. /\ Webhooks(seen) = Webhooks(document)
        /\ \A k \in DOMAIN document :
              /\ seen[k].kind = document[k].kind /\ seen[k].name = document[k].name
              /\ seen[k].tip = document[k].tip /\ placeholder(seen[k].value)
    BY Shown, ShownWebhooks DEF DocumentHolds
  <1> HIDE DEF seen
  <1>4. CASE c.kind = "webhook"
    <2>1. d.kind = "webhook" /\ e.kind = "webhook" /\ c.name = d.name
      BY <1>4 DEF ReadFrom, same_channel
    <2>2. (c.name # Nothing /\ c.name = e.name) \/ Cardinality(Webhooks(document)) = 1
      BY <1>4 DEF same_channel, Webhooks
    <2>3. CASE c.name # Nothing /\ c.name = e.name
      BY <1>2, <1>3, <2>1, <2>3 DEF same_channel
    <2>4. CASE Cardinality(Webhooks(document)) = 1
      <3>1. IsFiniteSet(Webhooks(document))
        <4>1. DOMAIN document = 1..Len(document) /\ Len(document) \in Nat
          BY SequenceDomain DEF DocumentHolds
        <4>2. IsFiniteSet(1..Len(document))
          BY <4>1, FS_Interval
        <4>3. Webhooks(document) \in SUBSET (1..Len(document))
          BY <4>1 DEF Webhooks
        <4> QED BY <4>2, <4>3, FS_Subset
      <3>2. \E x : Webhooks(document) = {x}
        BY <2>4, <3>1, FS_Singleton
      <3>3. o \in Webhooks(document) /\ j \in Webhooks(document)
        BY <2>1 DEF Webhooks
      <3> QED BY <1>1, <3>2, <3>3
    <2> QED BY <2>2, <2>3, <2>4
  <1>5. CASE c.kind = "slack"
    BY <1>2, <1>3, <1>5 DEF ReadFrom, same_channel
  <1>6. CASE c.kind \in {"rabbitmq", "nats"}
    BY <1>2, <1>3, <1>6 DEF ReadFrom, same_channel
  <1>7. CASE c.kind \notin {"webhook", "slack", "rabbitmq", "nats"}
    BY <1>2, <1>3, <1>7 DEF ReadFrom, same_channel
  <1> QED BY <1>4, <1>5, <1>6, <1>7

\* Only a webhook may be taken for none.
LEMMA TakenForSome ==
    ASSUME NEW c, placeholder(c.value), c.kind # "webhook",
           NEW o \in DOMAIN document, ReadFrom(c, document[o])
    PROVE  same_channel(c, document[o], document)
  BY DEF ReadFrom, same_channel

----------------------------------------------------------------------------
(* What restoring makes of the screen.                                     *)

\* One channel on screen, restored.
RestoredAs(c, r) ==
    /\ IsChannel(r)
    /\ r.kind = c.kind /\ r.name = c.name /\ r.tip = c.tip /\ r.owed = c.owed
    /\ takes(c.value) => r.value = c.value
    /\ ~takes(c.value) =>
          \E o \in DOMAIN document :
             LET d == document[o] IN
             /\ ReadFrom(c, d)
             /\ \/ r.kind = "webhook" /\ r = c
                \/ r.env = d.env /\ IF takes(d.value) THEN r.value = d.value ELSE ~takes(r.value)

LEMMA RestoredIs ==
    ASSUME NEW c, NEW p, IsChannel(c)
    PROVE  LET r == restored(c, p) IN
           /\ IsChannel(r)
           /\ r.kind = c.kind /\ r.name = c.name /\ r.tip = c.tip /\ r.owed = c.owed
           /\ takes(c.value) => r.value = c.value
           /\ r.env = IF c.env = NoEnv THEN p.env ELSE c.env
           /\ ~takes(c.value) => IF takes(p.value) THEN r.value = p.value ELSE ~takes(r.value)
  <1> DEFINE v == IF placeholder(c.value) /\ ~placeholder(p.value) THEN p.value ELSE c.value
             e == IF c.env = NoEnv THEN p.env ELSE c.env
             w == IF e # NoEnv /\ placeholder(v) THEN Blank ELSE v
             r == restored(c, p)
  <1>1. r = [c EXCEPT !.value = w, !.env = e]
    BY DEF restored
  <1>2. /\ takes(c.value) => w = c.value
        /\ ~takes(c.value) => IF takes(p.value) THEN w = p.value ELSE ~takes(w)
    BY DEF takes, placeholder
  <1> HIDE DEF v, e, w, r
  <1>3. /\ IsChannel(r) /\ r.value = w /\ r.env = e
        /\ r.kind = c.kind /\ r.name = c.name /\ r.tip = c.tip /\ r.owed = c.owed
    BY <1>1 DEF IsChannel, ChannelFields
  <1>4. e = IF c.env = NoEnv THEN p.env ELSE c.env
    BY DEF e
  <1> QED BY <1>2, <1>3, <1>4 DEF r

LEMMA RestoringAccounts ==
    ASSUME DocumentHolds, ScreenHolds, NEW i \in DOMAIN screen
    PROVE  RestoredAs(screen[i], restore_redacted_secrets(document, screen)[i])
  <1> DEFINE c == screen[i]
             matches == {j \in DOMAIN document : same_channel(c, document[j], document)}
             r == restore_redacted_secrets(document, screen)[i]
  <1>1. IsChannel(c) /\ Accounted(c, document)
    BY DEF ScreenHolds
  <1>2. r = IF matches = {} THEN c ELSE restored(c, document[Min(matches)])
    BY DEF restore_redacted_secrets
  <1> SUFFICES RestoredAs(c, r)
    OBVIOUS
  <1> HIDE DEF c, r
  <1>3. CASE takes(c.value)
    <2>1. CASE matches = {}
      BY <1>1, <1>2, <1>3, <2>1 DEF RestoredAs
    <2>2. CASE matches # {}
      <3>1. r = restored(c, document[Min(matches)])
        BY <1>2, <2>2
      <3> HIDE DEF matches
      <3> QED BY <1>1, <1>3, <3>1, RestoredIs DEF RestoredAs
    <2> QED BY <2>1, <2>2
  <1>4. CASE ~ takes(c.value)
    <2>1. PICK o \in DOMAIN document : ReadFrom(c, document[o])
      BY <1>1, <1>4 DEF Accounted
    <2>2. placeholder(c.value)
      BY <1>4 DEF takes
    <2>3. \A j \in matches : j = o
      BY <2>1, <2>2, TakenForItsOrigin
    <2>4. CASE matches = {}
      <3>1. c.kind = "webhook"
        BY <2>1, <2>2, <2>4, TakenForSome
      <3> HIDE DEF matches
      <3> QED BY <1>1, <1>2, <1>4, <2>1, <2>4, <3>1 DEF RestoredAs
    <2>5. CASE matches # {}
      <3> HIDE DEF matches
      <3>1. matches = {o}
        BY <2>3, <2>5
      <3>2. o \in Nat
        BY SequenceDomain DEF DocumentHolds
      <3>3. Min(matches) = o
        BY <3>1, <3>2, OneOf
      <3>4. r = restored(c, document[o])
        BY <1>2, <2>5, <3>3
      <3>5. r.env = document[o].env
        BY <1>1, <2>1, <3>4, RestoredIs DEF ReadFrom
      <3> QED BY <1>1, <1>4, <2>1, <3>4, <3>5, RestoredIs DEF RestoredAs
    <2> QED BY <2>4, <2>5
  <1> QED BY <1>3, <1>4

\* A generated name is a name.
LEMMA GeneratedNames ==
    ASSUME NEW c, NEW i, IsChannel(c)
    PROVE  /\ auto_name(c, i) # NoEnv
           /\ takes(c.value) => env_of(c, i) # NoEnv
           /\ ~takes(c.value) => env_of(c, i) = c.env
  <1>1. auto_name(c, i).kind # "none"
    BY DEF auto_name, IsChannel
  <1> QED BY <1>1 DEF NoEnv, env_of

LEMMA NormalizedIs ==
    ASSUME NEW doc, NEW i \in DOMAIN doc, IsChannel(doc[i])
    PROVE  LET r == normalized(doc)[i] IN
           /\ IsChannel(r)
           /\ r.kind = doc[i].kind /\ r.name = doc[i].name /\ r.tip = doc[i].tip
           /\ r.owed = doc[i].owed /\ ~takes(r.value) /\ r.env = env_of(doc[i], i)
  <1> DEFINE r == normalized(doc)[i]
             e == env_of(doc[i], i)
  <1>1. r = [doc[i] EXCEPT !.value = Blank, !.env = e]
    BY DEF normalized
  <1> HIDE DEF r, e
  <1>2. /\ IsChannel(r)
        /\ r.kind = doc[i].kind /\ r.name = doc[i].name /\ r.tip = doc[i].tip
        /\ r.owed = doc[i].owed /\ r.value = Blank /\ r.env = e
    BY <1>1 DEF IsChannel, ChannelFields
  <1> QED BY <1>2 DEF takes, placeholder, r, e

----------------------------------------------------------------------------
(* The steps.                                                              *)

\* What a name that the environment does not set resolves to.
LEMMA ResolvesTo ==
    ASSUME NEW c, c.env \notin DOMAIN Environ
    PROVE  resolve_secret(c) = IF takes(c.value) THEN c.value ELSE Found(c.env)
  BY DEF resolve_secret, Found

LEMMA InitKeeps ==
    ASSUME Careful, SecretsInit
    PROVE  SecretsInv
  <1>1. /\ document \in Seq(Range(document)) /\ LookApart(document)
        /\ \A i \in DOMAIN document :
              /\ IsChannel(document[i])
              /\ takes(document[i].value) => document[i].owed = document[i].value
              /\ ~takes(document[i].value) =>
                    document[i].env \in DOMAIN Environ \/ document[i].owed = Nothing
    BY SecretsAssumption DEF SecretsInit, IsChannel, ChannelFields
  <1>2. DOMAIN vault = {}
    BY DEF SecretsInit
  <1>3. ScreenHolds
    <2>1. screen = << >>
      BY DEF SecretsInit
    <2>2. DOMAIN screen = {} /\ screen \in Seq(Range(screen))
      BY <2>1
    <2> QED BY <2>2 DEF ScreenHolds
  <1>4. SecretFollows
    <2>1. SUFFICES ASSUME NEW i \in DOMAIN document, document[i].env \notin DOMAIN Environ
                   PROVE  resolve_secret(document[i]) = document[i].owed
      BY DEF SecretFollows
    <2> QED BY <1>1, <1>2, <2>1, ResolvesTo DEF Found
  <1> QED BY <1>1, <1>2, <1>3, <1>4 DEF SecretsInv, DocumentHolds, VaultHolds

\* The steps of the editor leave document and vault alone.
LEMMA EditingKeeps ==
    ASSUME SecretsInv, UNCHANGED <<document, vault>>, ScreenHolds'
    PROVE  SecretsInv'
  <1>1. DocumentHolds' /\ VaultHolds'
    BY DEF SecretsInv, DocumentHolds, VaultHolds
  <1>2. SecretFollows'
    BY DEF SecretsInv, SecretFollows, resolve_secret
  <1> QED BY <1>1, <1>2 DEF SecretsInv

LEMMA GetKeeps ==
    ASSUME SecretsInv, Get
    PROVE  ScreenHolds'
  <1> DEFINE seen == redact_config(document)
  <1>1. screen' = seen /\ document' = document
    BY DEF Get
  <1>2. DOMAIN document = 1..Len(document) /\ Len(document) \in Nat
    BY SequenceDomain DEF SecretsInv, DocumentHolds
  <1>3. \A i \in DOMAIN document : IsChannel(document[i])
    BY DEF SecretsInv, DocumentHolds
  <1>4. seen = [i \in 1..Len(document) |-> seen[i]]
    BY <1>2 DEF redact_config
  <1>5. seen \in Seq(Range(seen)) /\ DOMAIN seen = DOMAIN document
    <2> HIDE DEF seen
    <2> QED BY <1>2, <1>4, IsSequence
  <1>6. ASSUME NEW i \in DOMAIN seen
        PROVE  /\ IsChannel(seen[i]) /\ ~takes(seen[i].value) /\ ReadFrom(seen[i], document[i])
    <2>1. /\ IsChannel(seen[i]) /\ placeholder(seen[i].value)
          /\ seen[i].kind = document[i].kind /\ seen[i].name = document[i].name
          /\ seen[i].tip = document[i].tip /\ seen[i].env = document[i].env
          /\ seen[i].owed = document[i].owed
      BY <1>3, <1>5, Shown
    <2> HIDE DEF seen
    <2> QED BY <2>1 DEF takes, ReadFrom
  <1> HIDE DEF seen
  <1> QED BY <1>1, <1>5, <1>6 DEF ScreenHolds, Accounted

\* One channel of the screen is replaced.
LEMMA ReplacingKeeps ==
    ASSUME ScreenHolds, NEW i \in DOMAIN screen, NEW c, IsChannel(c), Accounted(c, document),
           document' = document, screen' = [screen EXCEPT ![i] = c]
    PROVE  ScreenHolds'
  <1>1. DOMAIN screen = 1..Len(screen) /\ Len(screen) \in Nat
    BY SequenceDomain DEF ScreenHolds
  <1>2. screen' = [k \in 1..Len(screen) |-> screen'[k]] /\ DOMAIN screen' = DOMAIN screen
    BY <1>1
  <1>3. screen' \in Seq(Range(screen'))
    <2> DEFINE g == screen'
    <2>1. g = [k \in 1..Len(screen) |-> g[k]]
      BY <1>2
    <2> HIDE DEF g
    <2>2. g \in Seq(Range(g))
      BY <1>1, <2>1, IsSequence
    <2> QED BY <2>2 DEF g
  <1>4. ASSUME NEW k \in DOMAIN screen
        PROVE  IsChannel(screen'[k]) /\ Accounted(screen'[k], document)
    <2>1. CASE k = i
      BY <2>1
    <2>2. CASE k # i
      <3>1. screen'[k] = screen[k]
        BY <2>2
      <3>2. IsChannel(screen[k]) /\ Accounted(screen[k], document)
        BY DEF ScreenHolds
      <3> QED BY <3>1, <3>2 DEF Accounted
    <2> QED BY <2>1, <2>2
  <1> QED BY <1>2, <1>3, <1>4 DEF ScreenHolds

LEMMA EditKeeps ==
    ASSUME SecretsInv, NEW i \in DOMAIN screen,
           \/ \E v \in Values : Retype(i, v)
           \/ Leave(i)
           \/ \E label \in Labels : Rename(i, label)
    PROVE  ScreenHolds'
  <1> DEFINE c == screen[i]
  <1>1. ScreenHolds /\ IsChannel(c) /\ Accounted(c, document)
    BY DEF SecretsInv, ScreenHolds
  <1>2. CASE \E v \in Values : Retype(i, v)
    <2>1. PICK v \in Values : Retype(i, v)
      BY <1>2
    <2> DEFINE d == [c EXCEPT !.value = v, !.owed = v]
    <2>2. document' = document /\ screen' = [screen EXCEPT ![i] = d]
      BY <2>1 DEF Retype, Edits
    <2>3. IsChannel(d) /\ d.value = v /\ d.owed = v /\ takes(v)
      BY <1>1, SecretsAssumption DEF IsChannel, ChannelFields
    <2> HIDE DEF c, d
    <2>4. Accounted(d, document)
      BY <2>3 DEF Accounted
    <2> QED BY <1>1, <2>2, <2>3, <2>4, ReplacingKeeps
  <1>3. CASE Leave(i)
    <2> DEFINE d == [c EXCEPT !.value = Blank, !.env = NoEnv]
    <2>1. document' = document /\ screen' = [screen EXCEPT ![i] = d] /\ ~takes(c.value)
      BY <1>3 DEF Leave, Edits, takes, placeholder
    <2>2. /\ IsChannel(d) /\ ~takes(d.value) /\ d.env = NoEnv
          /\ d.kind = c.kind /\ d.name = c.name /\ d.tip = c.tip /\ d.owed = c.owed
      BY <1>1 DEF IsChannel, ChannelFields, takes, placeholder
    <2>3. PICK o \in DOMAIN document : ReadFrom(c, document[o])
      BY <1>1, <2>1 DEF Accounted
    <2> HIDE DEF c, d
    <2>4. ReadFrom(d, document[o])
      BY <2>2, <2>3 DEF ReadFrom
    <2>5. Accounted(d, document)
      BY <2>1, <2>2, <2>4 DEF Accounted
    <2> QED BY <1>1, <2>1, <2>2, <2>5, ReplacingKeeps
  <1>4. CASE \E label \in Labels : Rename(i, label)
    <2>1. PICK label \in Labels : Rename(i, label)
      BY <1>4
    <2> DEFINE d == [c EXCEPT !.name = label]
    <2>2. /\ document' = document /\ screen' = [screen EXCEPT ![i] = d]
          /\ c.kind \notin {"webhook", "rabbitmq", "nats"} /\ (c.kind = "slack" => c.tip # Nothing)
      BY <2>1 DEF Rename, Edits
    <2>3. /\ IsChannel(d) /\ d.value = c.value /\ d.env = c.env
          /\ d.kind = c.kind /\ d.tip = c.tip /\ d.owed = c.owed
      BY <1>1 DEF IsChannel, ChannelFields
    <2> HIDE DEF c, d
    <2>4. \A o \in DOMAIN document : ReadFrom(c, document[o]) => ReadFrom(d, document[o])
      BY <2>2, <2>3 DEF ReadFrom
    <2>5. Accounted(d, document)
      BY <1>1, <2>2, <2>3, <2>4 DEF Accounted
    <2> QED BY <1>1, <2>2, <2>3, <2>5, ReplacingKeeps
  <1> QED BY <1>2, <1>3, <1>4

\* A channel moves, leaves or joins.
LEMMA ListKeeps ==
    ASSUME SecretsInv,
           \/ \E i \in DOMAIN screen : MoveUp(i) \/ Delete(i)
           \/ \E t \in Templates, v \in Values : Add(t, v)
    PROVE  ScreenHolds'
  <1>1. /\ screen \in Seq(Range(screen))
        /\ \A k \in DOMAIN screen : IsChannel(screen[k]) /\ Accounted(screen[k], document)
    BY DEF SecretsInv, ScreenHolds
  <1>2. DOMAIN screen = 1..Len(screen) /\ Len(screen) \in Nat
    BY <1>1, SequenceDomain
  <1>3. document' = document
    BY DEF MoveUp, Delete, Add, Edits
  <1>4. CASE \E i \in DOMAIN screen : MoveUp(i)
    <2>1. PICK i \in DOMAIN screen : MoveUp(i)
      BY <1>4
    <2>2. screen' = [screen EXCEPT ![i] = screen[i - 1], ![i - 1] = screen[i]] /\ i > 1
      BY <2>1 DEF MoveUp
    <2>3. i - 1 \in DOMAIN screen
      BY <1>2, <2>2
    <2>4. DOMAIN screen' = DOMAIN screen /\ screen' = [k \in 1..Len(screen) |-> screen'[k]]
      BY <1>2, <2>2
    <2>5. \A k \in DOMAIN screen : \E j \in DOMAIN screen : screen'[k] = screen[j]
      BY <1>2, <2>2, <2>3
    <2>6. screen' \in Seq(Range(screen'))
      <3> DEFINE g == screen'
      <3>1. g = [k \in 1..Len(screen) |-> g[k]]
        BY <2>4
      <3> HIDE DEF g
      <3>2. g \in Seq(Range(g))
        BY <1>2, <3>1, IsSequence
      <3> QED BY <3>2 DEF g
    <2>7. \A k \in DOMAIN screen' : IsChannel(screen'[k]) /\ Accounted(screen'[k], document)
      BY <1>1, <2>4, <2>5
    <2> QED BY <1>3, <2>6, <2>7 DEF ScreenHolds
  <1>5. CASE \E i \in DOMAIN screen : Delete(i)
    <2>1. PICK i \in DOMAIN screen : Delete(i)
      BY <1>5
    <2>2. screen' = RemoveAt(screen, i)
      BY <2>1 DEF Delete
    <2>3. /\ screen' \in Seq(Range(screen'))
          /\ \A k \in DOMAIN screen' : \E j \in DOMAIN screen : screen'[k] = screen[j]
      BY <1>1, <2>2, RemovalKeeps
    <2>4. \A k \in DOMAIN screen' : IsChannel(screen'[k]) /\ Accounted(screen'[k], document)
      BY <1>1, <2>3
    <2> QED BY <1>3, <2>3, <2>4 DEF ScreenHolds
  <1>6. CASE \E t \in Templates, v \in Values : Add(t, v)
    <2>1. PICK t \in Templates, v \in Values : Add(t, v)
      BY <1>6
    <2> DEFINE c == [kind |-> t.kind, name |-> t.name, tip |-> t.tip,
                     value |-> v, env |-> NoEnv, owed |-> v]
    <2>2. screen' = Append(screen, c)
      BY <2>1 DEF Add
    <2>3. IsChannel(c) /\ Accounted(c, document)
      BY SecretsAssumption DEF IsChannel, ChannelFields, Accounted
    <2> HIDE DEF c
    <2>4. /\ screen' \in Seq(Range(screen'))
          /\ \A k \in DOMAIN screen' : screen'[k] = c \/ \E j \in DOMAIN screen : screen'[k] = screen[j]
      BY <1>1, <2>2, AdditionKeeps
    <2>5. \A k \in DOMAIN screen' : IsChannel(screen'[k]) /\ Accounted(screen'[k], document)
      BY <1>1, <2>3, <2>4
    <2> QED BY <1>3, <2>4, <2>5 DEF ScreenHolds
  <1> QED BY <1>4, <1>5, <1>6

----------------------------------------------------------------------------
(* Applying.                                                               *)

\* What the names of a document hold after its secrets are written.
LEMMA WritesAre ==
    ASSUME NEW doc, doc \in Seq(Range(doc)), NamedApart(doc),
           \A i \in DOMAIN doc : IsChannel(doc[i])
    PROVE  /\ \A i \in DOMAIN doc : takes(doc[i].value) =>
                 /\ env_of(doc[i], i) \in DOMAIN secret_writes(doc)
                 /\ secret_writes(doc)[env_of(doc[i], i)] = doc[i].value
           /\ \A i \in DOMAIN doc : ~takes(doc[i].value) => doc[i].env \notin DOMAIN secret_writes(doc)
           /\ \A n \in DOMAIN secret_writes(doc) :
                 \E i \in DOMAIN doc : takes(doc[i].value) /\ n = env_of(doc[i], i)
  <1> DEFINE taken == {i \in DOMAIN doc : takes(doc[i].value)}
             named(n) == {i \in taken : env_of(doc[i], i) = n}
             names == {env_of(doc[i], i) : i \in taken}
             w == secret_writes(doc)
  <1>1. DOMAIN doc = 1..Len(doc) /\ Len(doc) \in Nat
    BY SequenceDomain
  <1>2. w = [n \in names |-> doc[Max(named(n))].value]
    BY DEF secret_writes
  <1> HIDE DEF w
  <1>3. ASSUME NEW i \in DOMAIN doc, takes(doc[i].value)
        PROVE  env_of(doc[i], i) \in DOMAIN w /\ w[env_of(doc[i], i)] = doc[i].value
    <2> DEFINE n == env_of(doc[i], i)
    <2>1. i \in taken /\ n \in names
      BY <1>3
    <2>2. ASSUME NEW k \in named(n), k # i PROVE FALSE
      BY <1>3, <2>2 DEF NamedApart
    <2>3. named(n) = {i}
      BY <2>1, <2>2
    <2>4. Max(named(n)) = i
      BY <1>1, <2>3, OneOf
    <2> QED BY <1>2, <2>1, <2>4
  <1>4. ASSUME NEW i \in DOMAIN doc, ~takes(doc[i].value), doc[i].env \in DOMAIN w
        PROVE  FALSE
    <2>1. PICK k \in DOMAIN doc : takes(doc[k].value) /\ env_of(doc[k], k) = doc[i].env
      BY <1>2, <1>4
    <2>2. env_of(doc[i], i) = doc[i].env
      BY <1>4 DEF env_of
    <2>3. k # i
      BY <1>4, <2>1
    <2> QED BY <2>1, <2>2, <2>3 DEF NamedApart
  <1>5. \A n \in DOMAIN w : \E i \in DOMAIN doc : takes(doc[i].value) /\ n = env_of(doc[i], i)
    BY <1>2
  <1> QED BY <1>3, <1>4, <1>5 DEF w

\* What the document and the vault become.
LEMMA Applied ==
    ASSUME Careful, SecretsInv, Apply
    PROVE  LET next == restore_redacted_secrets(document, screen)
               refs == normalized(next) IN
           /\ next \in Seq(Range(next)) /\ DOMAIN next = DOMAIN screen
           /\ refs \in Seq(Range(refs)) /\ DOMAIN refs = DOMAIN screen
           /\ \A i \in DOMAIN screen : RestoredAs(screen[i], next[i])
           /\ \A i \in DOMAIN screen :
                 /\ IsChannel(refs[i]) /\ ~takes(refs[i].value)
                 /\ refs[i].kind = next[i].kind /\ refs[i].name = next[i].name
                 /\ refs[i].tip = next[i].tip
                 /\ refs[i].owed = next[i].owed /\ refs[i].env = env_of(next[i], i)
           /\ builds(next) /\ LookApart(next) /\ NamedApart(next)
           /\ document' = refs /\ screen' = << >>
           /\ DOMAIN vault' = (DOMAIN vault \cup DOMAIN secret_writes(next))
                               \ stale_ui_managed_secrets(collect_secret_env_refs(document),
                                                          collect_secret_env_refs(refs))
           /\ \A n \in DOMAIN vault' :
                 vault'[n] = IF n \in DOMAIN secret_writes(next) THEN secret_writes(next)[n] ELSE vault[n]
  <1> DEFINE next == restore_redacted_secrets(document, screen)
             refs == normalized(next)
             writes == secret_writes(next)
             stale == stale_ui_managed_secrets(collect_secret_env_refs(document),
                                               collect_secret_env_refs(refs))
  <1>1. DOMAIN screen = 1..Len(screen) /\ Len(screen) \in Nat
    BY SequenceDomain DEF SecretsInv, ScreenHolds
  <1>2. next = [i \in 1..Len(screen) |-> next[i]] /\ DOMAIN next = DOMAIN screen
    BY <1>1 DEF restore_redacted_secrets
  <1>3. \A i \in DOMAIN screen : RestoredAs(screen[i], next[i])
    BY RestoringAccounts DEF SecretsInv
  <1>4. /\ builds(next) /\ LookApart(next) /\ NamedApart(next)
        /\ document' = refs /\ screen' = << >>
        /\ vault' = [n \in (DOMAIN vault \cup DOMAIN writes) \ stale |->
                        IF n \in DOMAIN writes THEN writes[n] ELSE vault[n]]
    BY DEF Apply
  <1>5. refs = [i \in 1..Len(screen) |-> refs[i]] /\ DOMAIN refs = DOMAIN screen
    BY <1>1, <1>2 DEF normalized
  <1>6. next \in Seq(Range(next))
    <2> HIDE DEF next
    <2> QED BY <1>1, <1>2, IsSequence
  <1>7. refs \in Seq(Range(refs))
    <2> HIDE DEF refs
    <2> QED BY <1>1, <1>5, IsSequence
  <1>8. \A i \in DOMAIN screen :
           /\ IsChannel(refs[i]) /\ ~takes(refs[i].value)
           /\ refs[i].kind = next[i].kind /\ refs[i].name = next[i].name
           /\ refs[i].tip = next[i].tip
           /\ refs[i].owed = next[i].owed /\ refs[i].env = env_of(next[i], i)
    <2> HIDE DEF next
    <2>1. \A i \in DOMAIN next : IsChannel(next[i])
      BY <1>2, <1>3 DEF RestoredAs
    <2> QED BY <1>2, <2>1, NormalizedIs
  <1> HIDE DEF next, refs, writes, stale
  <1>9. /\ DOMAIN vault' = (DOMAIN vault \cup DOMAIN writes) \ stale
        /\ \A n \in DOMAIN vault' :
              vault'[n] = IF n \in DOMAIN writes THEN writes[n] ELSE vault[n]
    BY <1>4
  <1> QED BY <1>2, <1>3, <1>4, <1>5, <1>6, <1>7, <1>8, <1>9 DEF next, refs, writes, stale

LEMMA ApplyKeeps ==
    ASSUME Careful, SecretsInv, Apply
    PROVE  SecretsInv'
  <1> DEFINE next == restore_redacted_secrets(document, screen)
             refs == normalized(next)
             writes == secret_writes(next)
             before == collect_secret_env_refs(document)
             after == collect_secret_env_refs(refs)
             stale == stale_ui_managed_secrets(before, after)
  <1>1. /\ next \in Seq(Range(next)) /\ DOMAIN next = DOMAIN screen
        /\ refs \in Seq(Range(refs)) /\ DOMAIN refs = DOMAIN screen
        /\ \A i \in DOMAIN screen : RestoredAs(screen[i], next[i])
        /\ \A i \in DOMAIN screen :
              /\ IsChannel(refs[i]) /\ ~takes(refs[i].value)
              /\ refs[i].kind = next[i].kind /\ refs[i].name = next[i].name
              /\ refs[i].tip = next[i].tip
              /\ refs[i].owed = next[i].owed /\ refs[i].env = env_of(next[i], i)
        /\ builds(next) /\ LookApart(next) /\ NamedApart(next)
        /\ document' = refs /\ screen' = << >>
        /\ DOMAIN vault' = (DOMAIN vault \cup DOMAIN writes) \ stale
        /\ \A n \in DOMAIN vault' :
              vault'[n] = IF n \in DOMAIN writes THEN writes[n] ELSE vault[n]
    BY Applied
  <1>2. \A i \in DOMAIN next : IsChannel(next[i])
    BY <1>1 DEF RestoredAs
  <1>3. /\ \A i \in DOMAIN next : takes(next[i].value) =>
              env_of(next[i], i) \in DOMAIN writes /\ writes[env_of(next[i], i)] = next[i].value
        /\ \A i \in DOMAIN next : ~takes(next[i].value) => next[i].env \notin DOMAIN writes
        /\ \A n \in DOMAIN writes :
              \E i \in DOMAIN next : takes(next[i].value) /\ n = env_of(next[i], i)
    BY <1>1, <1>2, WritesAre
  <1> HIDE DEF next, writes
  <1>4. after = {env_of(next[i], i) : i \in DOMAIN screen} \ {NoEnv}
    BY <1>1 DEF collect_secret_env_refs
  <1>5. stale = {n \in before \ after : is_ui_managed_secret_name(n)}
    BY DEF stale_ui_managed_secrets
  <1>6. NoEnv \notin DOMAIN vault
    BY DEF SecretsInv, VaultHolds, NoEnv, is_ui_managed_secret_name, collect_secret_env_refs
  <1> HIDE DEF refs, before, after, stale
  <1>7. ScreenHolds'
    <2>1. DOMAIN screen' = {} /\ screen' \in Seq(Range(screen'))
      BY <1>1
    <2> QED BY <2>1 DEF ScreenHolds
  <1>8. DocumentHolds'
    <2>1. LookApart(refs)
      BY <1>1, <1>2, LookApartKeeps
    <2> QED BY <1>1, <2>1 DEF DocumentHolds
  <1>9. VaultHolds'
    <2>1. collect_secret_env_refs(document)' = after
      BY <1>1 DEF after
    <2>2. SUFFICES ASSUME NEW n \in DOMAIN vault', is_ui_managed_secret_name(n)
                   PROVE  n \in after
      BY <2>1 DEF VaultHolds
    <2>3. CASE n \in DOMAIN writes
      <3>1. PICK i \in DOMAIN next : takes(next[i].value) /\ n = env_of(next[i], i)
        BY <1>3, <2>3
      <3>2. n # NoEnv
        BY <1>2, <3>1, GeneratedNames
      <3> QED BY <1>1, <1>4, <3>1, <3>2
    <2>4. CASE n \notin DOMAIN writes
      <3>1. n \in DOMAIN vault /\ n \notin stale
        BY <1>1, <2>4
      <3>2. n \in before
        BY <2>2, <3>1 DEF SecretsInv, VaultHolds, before
      <3> QED BY <1>5, <2>2, <3>1, <3>2
    <2> QED BY <2>3, <2>4
  <1>10. SecretFollows'
    <2> DEFINE found(n) == IF n \in DOMAIN vault' THEN vault'[n] ELSE Nothing
    <2>1. SUFFICES ASSUME NEW i \in DOMAIN screen, refs[i].env \notin DOMAIN Environ
                   PROVE  found(refs[i].env) = refs[i].owed
      BY <1>1 DEF SecretFollows, resolve_secret
    <2> DEFINE c == screen[i]
               r == next[i]
               e == env_of(next[i], i)
    <2>2. refs[i].env = e /\ refs[i].owed = r.owed
      BY <1>1
    <2>3. RestoredAs(c, r) /\ IsChannel(c) /\ Accounted(c, document) /\ IsChannel(r)
      BY <1>1, <1>2 DEF SecretsInv, ScreenHolds
    <2>4. CASE takes(r.value)
      <3>1. e \in DOMAIN writes /\ writes[e] = r.value
        BY <1>1, <1>3, <2>4
      <3>2. e \in after
        BY <1>4, <2>3, <2>4, GeneratedNames
      <3>3. found(e) = r.value
        BY <1>1, <1>5, <3>1, <3>2
      <3>4. r.value = r.owed
        <4>1. CASE takes(c.value)
          BY <2>3, <4>1 DEF RestoredAs, Accounted
        <4>2. CASE ~takes(c.value)
          <5>1. PICK o \in DOMAIN document :
                   /\ ReadFrom(c, document[o])
                   /\ \/ r = c
                      \/ IF takes(document[o].value) THEN r.value = document[o].value ELSE ~takes(r.value)
            BY <2>3, <4>2 DEF RestoredAs
          <5>2. takes(document[o].value) => document[o].value = document[o].owed
            BY DEF SecretsInv, DocumentHolds
          <5>3. r.owed = document[o].owed
            BY <2>3, <5>1 DEF RestoredAs, ReadFrom
          <5> QED BY <2>4, <4>2, <5>1, <5>2, <5>3
        <4> QED BY <4>1, <4>2
      <3> QED BY <1>1, <2>2, <3>3, <3>4
    <2>5. CASE ~takes(r.value)
      <3>1. e = r.env /\ e \notin DOMAIN writes /\ ~takes(c.value)
        BY <1>1, <1>3, <2>3, <2>5, GeneratedNames DEF RestoredAs
      <3>2. e \in DOMAIN vault => e \in after
        BY <1>4, <1>6
      <3>3. found(e) = Found(e)
        BY <1>1, <1>5, <3>1, <3>2 DEF Found
      <3>4. PICK o \in DOMAIN document :
               /\ ReadFrom(c, document[o])
               /\ \/ r.kind = "webhook" /\ r = c
                  \/ /\ r.env = document[o].env
                     /\ ~takes(document[o].value)
        BY <2>3, <2>5, <3>1 DEF RestoredAs
      <3>5. e \notin DOMAIN Environ /\ r.owed = document[o].owed
        BY <1>1, <2>1, <2>3, <3>4 DEF RestoredAs, ReadFrom
      <3>6. CASE r.env = document[o].env /\ ~takes(document[o].value)
        <4>1. resolve_secret(document[o]) = Found(e)
          BY <3>1, <3>5, <3>6, ResolvesTo
        <4>2. resolve_secret(document[o]) = document[o].owed
          BY <3>1, <3>5, <3>6 DEF SecretsInv, SecretFollows
        <4> QED BY <1>1, <2>2, <3>3, <3>5, <4>1, <4>2
      <3>7. CASE r.kind = "webhook" /\ r = c
        <4>1. resolve_secret(r) = Found(e) /\ resolve_secret(r) # Nothing
          <5>1. resolve_secret(r) = Found(e)
            BY <2>5, <3>1, <3>5, ResolvesTo
          <5>2. resolve_secret(r) # Nothing
            BY <1>1, <3>7, SecretsAssumption DEF builds
          <5> QED BY <5>1, <5>2
        <4>2. e \in DOMAIN vault
          BY <4>1 DEF Found
        <4>3. ~takes(document[o].value)
          BY <4>2 DEF SecretsInv, DocumentHolds
        <4>4. r.env = document[o].env
          BY <1>6, <3>1, <3>4, <3>7, <4>2 DEF ReadFrom
        <4> QED BY <3>6, <4>3, <4>4
      <3> QED BY <3>4, <3>6, <3>7
    <2> QED BY <2>4, <2>5
  <1> QED BY <1>7, <1>8, <1>9, <1>10 DEF SecretsInv

----------------------------------------------------------------------------
\* The invariant: a channel of the running document resolves to the secret
\* typed for it, a masked one on screen is still the one it was read from, and
\* the vault keeps no generated name that the document does not use.
THEOREM SecretsInvariance == Careful => (SecretsSpec => []SecretsInv)
  <1> SUFFICES ASSUME Careful PROVE SecretsSpec => []SecretsInv
    OBVIOUS
  <1>1. SecretsInit => SecretsInv
    BY InitKeeps
  <1>2. SecretsInv /\ [SecretsNext]_secretsVars => SecretsInv'
    <2> SUFFICES ASSUME SecretsInv, [SecretsNext]_secretsVars PROVE SecretsInv'
      OBVIOUS
    <2>1. CASE Get
      <3>1. UNCHANGED <<document, vault>>
        BY <2>1 DEF Get
      <3> QED BY <2>1, <3>1, GetKeeps, EditingKeeps
    <2>2. CASE Apply
      BY <2>2, ApplyKeeps
    <2>3. CASE \E i \in DOMAIN screen :
                  \/ \E v \in Values : Retype(i, v)
                  \/ Leave(i)
                  \/ \E label \in Labels : Rename(i, label)
      <3>1. UNCHANGED <<document, vault>>
        BY <2>3 DEF Retype, Leave, Rename, Edits
      <3> QED BY <2>3, <3>1, EditKeeps, EditingKeeps
    <2>4. CASE \/ \E i \in DOMAIN screen : MoveUp(i) \/ Delete(i)
               \/ \E t \in Templates, v \in Values : Add(t, v)
      <3>1. UNCHANGED <<document, vault>>
        BY <2>4 DEF MoveUp, Delete, Add, Edits
      <3> QED BY <2>4, <3>1, ListKeeps, EditingKeeps
    <2>5. CASE UNCHANGED secretsVars
      <3>1. UNCHANGED <<document, vault>> /\ ScreenHolds'
        BY <2>5 DEF secretsVars, SecretsInv, ScreenHolds
      <3> QED BY <3>1, EditingKeeps
    <2> QED BY <2>1, <2>2, <2>3, <2>4, <2>5 DEF SecretsNext
  <1> QED BY <1>1, <1>2, PTL DEF SecretsSpec

\* Where operators keep channels, and the names of secrets, apart, every channel
\* has the secret typed for it after any sequence of reads, edits and applies
\* (restore_redacted_secrets, normalize_secrets_to_refs), and the vault keeps no
\* secret of a channel that is gone (stale_ui_managed_secrets).
THEOREM SecretsAlwaysStay == Careful => (SecretsSpec => []SecretsStay)
  <1> SUFFICES ASSUME Careful PROVE SecretsSpec => []SecretsStay
    OBVIOUS
  <1>1. SecretsInv => SecretsStay
    BY DEF SecretsInv, VaultHolds, SecretsStay, NoOrphans
  <1> QED BY <1>1, SecretsInvariance, PTL

=============================================================================

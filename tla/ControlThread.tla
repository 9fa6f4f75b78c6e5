---------------------------- MODULE ControlThread ----------------------------
(***************************************************************************)
(* The control thread's loop (ControlLoop::threadFunc) against the main   *)
(* thread, which polls the web server, pushes commands, kicks the loop    *)
(* and finally stops and joins it.  The two share the command queue, the  *)
(* stop flag, kick_mutex_, kick_cond_ and kick_generation_.               *)
(*                                                                         *)
(* What the loop does with a command or a status is ControlLoop's matter; *)
(* here a command is only a place in the queue and Modbus I/O a step that *)
(* may lose the link.  Time passes in ticks while the thread is blocked.  *)
(***************************************************************************)
EXTENDS Naturals

CONSTANTS
    Room,               \* commands the queue holds (CAPACITY - 1, 15)
    MaxRetries,         \* MODBUS_MAX_RETRIES (3)
    ReconnectTicks,     \* MODBUS_RECONNECT_INTERVAL_S, in ticks
    IntervalTicks,      \* CONTROL_LOOP_INTERVAL_S, in ticks
    MaxSpurious         \* bound: spurious wake-ups in one run

ASSUME ControlThreadAssumption ==
    /\ Room \in Nat \ {0}
    /\ MaxRetries \in Nat \ {0}
    /\ ReconnectTicks \in Nat \ {0}
    /\ IntervalTicks \in Nat \ {0}
    /\ MaxSpurious \in Nat

VARIABLES
    mainPc,         \* where the main thread is
    queue,          \* number of commands in the queue
    mark,           \* place in the queue of one command under observation, 0 if none
    stopRequested,  \* stop_requested_
    running,        \* running_
    mutex,          \* holder of kick_mutex_ between steps: "free" or "loop"
    kicked,         \* kick_generation_ # observed_generation
    loopPc,         \* where the control thread is
    site,           \* which of its three waits it is in
    retries,        \* failed connects of this reconnect round
    connected,      \* modbus_client_->isConnected()
    signalled,      \* blocked thread was chosen by notify_one
    timer,          \* ticks since the innermost wait_for began
    waited,         \* ticks since the wait_for with the predicate began
    spurious        \* spurious wake-ups so far

mainVars == <<mainPc, queue, mark, stopRequested>>
waitVars == <<site, retries, signalled, timer, waited, spurious>>
vars == <<mainPc, queue, mark, stopRequested, running, mutex, kicked, loopPc, site,
          retries, connected, signalled, timer, waited, spurious>>

Init ==
    /\ mainPc = "serve" /\ queue = 0 /\ mark = 0
    /\ stopRequested = FALSE /\ running = TRUE
    /\ mutex = "free" /\ kicked = FALSE
    /\ loopPc = "start" /\ site = "none" /\ retries = 0
    /\ connected = TRUE
    /\ signalled = FALSE /\ timer = 0 /\ waited = 0 /\ spurious = 0

-----------------------------------------------------------------------------
(* The main thread *)

\* Mutant: a command is queued even when the ring is full.
HandleRequestUnchecked ==
    /\ mainPc = "serve"
    /\ mainPc' = "pushed" /\ queue' = queue + 1
    /\ UNCHANGED <<mark, stopRequested, running, mutex, kicked, loopPc, connected, waitVars>>

\* Mutant: the handler kicks for a refused command too.
HandleRequestAlwaysKicks ==
    /\ mainPc = "serve"
    /\ mainPc' = "pushed"
    /\ queue' = IF queue < Room THEN queue + 1 ELSE queue
    /\ UNCHANGED <<mark, stopRequested, running, mutex, kicked, loopPc, connected, waitVars>>

\* A web handler pushes its command.  It kicks only if the push succeeded;
\* a refused command leaves no trace.  At most one command at a time is
\* put under observation.
HandleRequest ==
    /\ mainPc = "serve"
    /\ IF queue < Room
         THEN /\ mainPc' = "pushed" /\ queue' = queue + 1
              /\ mark' \in IF mark = 0 THEN {0, queue + 1} ELSE {mark}
         ELSE UNCHANGED <<mainPc, queue, mark>>
    /\ UNCHANGED <<stopRequested, running, mutex, kicked, loopPc, connected, waitVars>>

\* Mutant: the generation is bumped but nobody is notified.
NotifyNobody ==
    /\ mutex = "free"
    /\ kicked' = TRUE
    /\ UNCHANGED <<queue, mark, stopRequested, running, mutex, loopPc, waitVars, connected>>

\* kick(): under the mutex, bump the generation and notify the thread if it
\* is blocked.
Notify ==
    /\ mutex = "free"
    /\ kicked' = TRUE
    /\ signalled' = (signalled \/ loopPc = "blocked")
    /\ UNCHANGED <<queue, mark, stopRequested, running, mutex, loopPc, site, retries,
                   connected, timer, waited, spurious>>

KickAfterPush ==
    /\ mainPc = "pushed"
    /\ mainPc' = "serve"
    /\ Notify

\* Mutant: stop() sets the flag and joins without a kick.
StopWithoutKick ==
    /\ mainPc \in {"serve", "joined"}
    /\ IF running
         THEN mainPc' = "join" /\ stopRequested' = TRUE /\ running' = FALSE
         ELSE mainPc' = "gone" /\ UNCHANGED <<stopRequested, running>>
    /\ UNCHANGED <<queue, mark, mutex, kicked, loopPc, connected, waitVars>>

\* g_running became false: main leaves its poll loop and calls stop(),
\* which returns at once when the loop is not running.
Stop ==
    /\ mainPc \in {"serve", "joined"}
    /\ IF running
         THEN mainPc' = "stopKick" /\ stopRequested' = TRUE /\ running' = FALSE
         ELSE mainPc' = "gone" /\ UNCHANGED <<stopRequested, running>>
    /\ UNCHANGED <<queue, mark, mutex, kicked, loopPc, connected, waitVars>>

KickOnStop ==
    /\ mainPc = "stopKick"
    /\ mainPc' = "join"
    /\ Notify

\* thread_->join() returns when threadFunc has.
Join ==
    /\ mainPc = "join" /\ loopPc = "done"
    /\ mainPc' = "joined"
    /\ UNCHANGED <<queue, mark, stopRequested, running, mutex, kicked, loopPc,
                   connected, waitVars>>

-----------------------------------------------------------------------------
(* The control thread *)

\* Modbus I/O may find the link gone; only connect() brings it back.
IO == UNCHANGED connected \/ connected' = FALSE

\* cmd_queue_->empty() and pop() may miss a push whose kick is still to
\* come; an earlier one is visible through kick_mutex_.
LooksEmpty == queue = 0 \/ (queue = 1 /\ mainPc = "pushed")

\* The status read before the loop starts.
FirstRead ==
    /\ loopPc = "start" /\ loopPc' = "check"
    /\ IO
    /\ UNCHANGED <<mainVars, running, mutex, kicked, waitVars>>

\* Head of the loop: stop, reconnect or go on.
Check ==
    /\ loopPc = "check"
    /\ loopPc' = CASE stopRequested -> "exit"
                   [] ~stopRequested /\ connected -> "drain"
                   [] OTHER -> "retry"
    /\ retries' = 0
    /\ UNCHANGED <<mainVars, running, mutex, kicked, connected, site, signalled,
                   timer, waited, spurious>>

\* One turn of the reconnect loop: connect() succeeds, ...
ConnectOk ==
    /\ loopPc = "retry" /\ ~stopRequested /\ retries < MaxRetries
    /\ connected' = TRUE /\ loopPc' = "drain"
    /\ UNCHANGED <<mainVars, running, mutex, kicked, waitVars>>

\* ... or fails and the thread is to wait before the next turn.
ConnectFail ==
    /\ loopPc = "retry" /\ ~stopRequested /\ retries < MaxRetries
    /\ retries' = retries + 1 /\ loopPc' = "lock" /\ site' = "retry"
    /\ UNCHANGED <<mainVars, running, mutex, kicked, connected, signalled, timer,
                   waited, spurious>>

\* Mutant: a failed reconnect round ends the thread.
RetryOverGivesUp ==
    /\ loopPc = "retry" /\ (stopRequested \/ retries >= MaxRetries)
    /\ loopPc' = "exit"
    /\ UNCHANGED <<mainVars, running, mutex, kicked, connected, waitVars>>

\* The reconnect loop ends without a connection: after MaxRetries failures
\* a last wait and back to the head, on stop straight on to the commands.
RetryOver ==
    /\ loopPc = "retry" /\ (stopRequested \/ retries >= MaxRetries)
    /\ IF retries >= MaxRetries
         THEN loopPc' = "lock" /\ site' = "giveup"
         ELSE loopPc' = "drain" /\ UNCHANGED site
    /\ UNCHANGED <<mainVars, running, mutex, kicked, connected, retries, signalled,
                   timer, waited, spurious>>

\* processCommands pops one command and attempts its writes, also over a
\* link that an earlier command of the batch has just found lost; a command
\* that fails is not queued again ...
PopCommand ==
    /\ loopPc = "drain" /\ queue > 0
    /\ queue' = queue - 1
    /\ mark' = IF mark > 0 THEN mark - 1 ELSE 0
    /\ IO
    /\ UNCHANGED <<mainPc, stopRequested, running, mutex, kicked, loopPc, waitVars>>

\* ... until the queue looks empty.
Drained ==
    /\ loopPc = "drain" /\ LooksEmpty
    /\ loopPc' = "cycle"
    /\ UNCHANGED <<mainVars, running, mutex, kicked, connected, waitVars>>

\* readStatus, applyControlLogic and the publication of the snapshot, then
\* the sleep, unless the cycle took longer than the interval.
ReadApplyPublish ==
    /\ loopPc = "cycle"
    /\ IO
    /\ \/ loopPc' = "lock" /\ site' = "sleep"
       \/ loopPc' = "check" /\ UNCHANGED site
    /\ UNCHANGED <<mainVars, running, mutex, kicked, retries, signalled, timer,
                   waited, spurious>>

\* UniqueLock lock(kick_mutex_); the sleep also notes the generation.
Lock ==
    /\ loopPc = "lock" /\ mutex = "free"
    /\ mutex' = "loop" /\ loopPc' = "pred"
    /\ kicked' = IF site = "sleep" THEN FALSE ELSE kicked
    /\ UNCHANGED <<mainVars, running, connected, waitVars>>

\* Where the thread goes on after the wait it is in.
AfterWait == IF site = "retry" THEN "retry" ELSE "check"

\* Mutant: the lock lives on after the wait.
PredTrueKeepsLock ==
    /\ loopPc = "pred"
    /\ stopRequested \/ (site = "sleep" /\ (kicked \/ queue > 0))
    /\ loopPc' = AfterWait
    /\ UNCHANGED <<mainVars, running, mutex, kicked, connected, waitVars>>

\* pred(): true, the wait is over and the lock released.
PredTrue ==
    /\ loopPc = "pred"
    /\ stopRequested \/ (site = "sleep" /\ (kicked \/ queue > 0))
    /\ loopPc' = AfterWait /\ mutex' = "free"
    /\ timer' = 0 /\ waited' = 0
    /\ UNCHANGED <<mainVars, running, kicked, connected, site, retries, signalled, spurious>>

\* Mutant: the sleep's predicate looks at the generation only.
PredFalseGenerationOnly ==
    /\ loopPc = "pred"
    /\ ~stopRequested
    /\ site = "sleep" => ~kicked
    /\ loopPc' = "block"
    /\ UNCHANGED <<mainVars, running, mutex, kicked, connected, waitVars>>

\* pred(): false, the thread is going to block with the lock still held.
PredFalse ==
    /\ loopPc = "pred"
    /\ ~stopRequested
    /\ site = "sleep" => ~kicked /\ LooksEmpty
    /\ loopPc' = "block"
    /\ UNCHANGED <<mainVars, running, mutex, kicked, connected, waitVars>>

\* wait_for(lock, ms): block and release the lock in one step.
Block ==
    /\ loopPc = "block"
    /\ loopPc' = "blocked" /\ mutex' = "free"
    /\ signalled' = FALSE /\ timer' = 0
    /\ UNCHANGED <<mainVars, running, kicked, connected, site, retries, waited, spurious>>

Ticks == IF site = "sleep" THEN IntervalTicks ELSE ReconnectTicks

Tick ==
    /\ loopPc = "blocked" /\ ~signalled /\ timer < Ticks
    /\ timer' = timer + 1 /\ waited' = waited + 1
    /\ UNCHANGED <<mainVars, running, mutex, kicked, loopPc, connected, site, retries,
                   signalled, spurious>>

\* Woken by a notification: with the lock again, back to the predicate, and
\* if it is false to another wait_for with the full timeout.
Wake ==
    /\ loopPc = "blocked" /\ signalled /\ mutex = "free"
    /\ loopPc' = "pred" /\ mutex' = "loop"
    /\ UNCHANGED <<mainVars, running, kicked, connected, waitVars>>

SpuriousWake ==
    /\ loopPc = "blocked" /\ mutex = "free" /\ spurious < MaxSpurious
    /\ loopPc' = "pred" /\ mutex' = "loop" /\ spurious' = spurious + 1
    /\ UNCHANGED <<mainVars, running, kicked, connected, site, retries, signalled,
                   timer, waited>>

\* Timed out: the wait is over whatever the predicate says.
TimeOut ==
    /\ loopPc = "blocked" /\ timer = Ticks /\ mutex = "free"
    /\ loopPc' = AfterWait
    /\ timer' = 0 /\ waited' = 0
    /\ UNCHANGED <<mainVars, running, mutex, kicked, connected, site, retries, signalled,
                   spurious>>

\* The thread's end: disconnect and clear running_.
Exit ==
    /\ loopPc = "exit" /\ loopPc' = "done"
    /\ connected' = FALSE /\ running' = FALSE
    /\ UNCHANGED <<mainVars, mutex, kicked, waitVars>>

\* The program's end.
Terminated == mainPc = "gone" /\ UNCHANGED vars

Main == HandleRequest \/ KickAfterPush \/ Stop \/ KickOnStop \/ Join

Compute ==
    \/ FirstRead \/ Check \/ ConnectOk \/ ConnectFail \/ RetryOver
    \/ PopCommand \/ Drained \/ ReadApplyPublish
    \/ Lock \/ PredTrue \/ PredFalse \/ Block \/ Wake \/ Exit

Next == Main \/ Compute \/ Tick \/ SpuriousWake \/ TimeOut \/ Terminated

\* Both threads keep running; users and signals are not obliged to come,
\* and no wait is obliged ever to time out.  A kick gets the mutex that the
\* loop takes and gives back again and again: the loop is off it for the
\* whole of its Modbus I/O.
Fairness ==
    /\ WF_vars(Compute)
    /\ SF_vars(KickAfterPush) /\ WF_vars(KickOnStop) /\ WF_vars(Join)
    /\ WF_vars(mainPc = "joined" /\ Stop)

\* Time passes too, and a device that is tried again and again answers.
TimeAndDevice ==
    /\ WF_vars(Tick) /\ WF_vars(TimeOut)
    /\ SF_vars(ConnectOk)

Spec == Init /\ [][Next]_vars /\ Fairness

-----------------------------------------------------------------------------
(* Properties *)

TypeOK ==
    /\ mainPc \in {"serve", "pushed", "stopKick", "join", "joined", "gone"}
    /\ queue \in 0 .. Room /\ mark \in 0 .. queue
    /\ stopRequested \in BOOLEAN /\ running \in BOOLEAN
    /\ mutex \in {"free", "loop"} /\ kicked \in BOOLEAN
    /\ loopPc \in {"start", "check", "retry", "drain", "cycle", "lock", "pred",
                   "block", "blocked", "exit", "done"}
    /\ site \in {"none", "retry", "giveup", "sleep"}
    /\ retries \in 0 .. MaxRetries /\ connected \in BOOLEAN
    /\ signalled \in BOOLEAN /\ timer \in Nat /\ waited \in Nat
    /\ spurious \in 0 .. MaxSpurious

\* A thread about to block, or blocked and not notified.
Asleep == loopPc = "block" \/ (loopPc = "blocked" /\ ~signalled)

\* No wake-up is lost.  The thread never sleeps between cycles while a
\* command waits in the queue, nor in any of its waits while a stop is
\* requested, unless the kick for it is still to come.
NoLostWakeup ==
    Asleep =>
        /\ site = "sleep" => queue = 0 \/ mainPc = "pushed"
        /\ stopRequested => mainPc = "stopKick"

\* The thread holds kick_mutex_ only while it evaluates a predicate or is
\* about to block, never during Modbus I/O: a web handler's kick, which
\* runs in the thread that polls the web server, is not held up by it.
KickNeverWaitsForIO ==
    loopPc \in {"start", "retry", "drain", "cycle", "exit"} => mutex = "free"

\* Kicks that come while the thread waits to reconnect wake it, find the
\* predicate false and restart its full timeout.  Because a handler kicks
\* only for a command it could queue and nothing is popped meanwhile, at
\* most Room of them can do so, and one more whose command was popped before
\* its kick came: the wait is longer than its timeout but bounded.
WaitBounded ==
    waited <= IF site = "sleep" THEN IntervalTicks * (1 + MaxSpurious)
                                ELSE ReconnectTicks * (2 + Room + MaxSpurious)

\* A pushed command is taken from the queue, unless the program stops or the
\* link is lost first, without a timeout having to expire: the kick always
\* gets through.
KickSuffices == mark > 0 ~> (mark = 0 \/ stopRequested \/ ~connected)

\* No outage leaves a command in the queue for ever: unless the program
\* stops first processCommands takes it, however often the link is lost
\* before, provided that time passes and that the device answers in the end.
\* This says nothing of its writes.  A command taken right after the link
\* was lost is attempted once, and a priority or occupancy command whose
\* write fails is gone (ControlLoop.cpp, processCommands); what the handlers
\* and later turns make of failed writes is module ControlLoop's matter.
CommandTaken == TimeAndDevice => (mark > 0 ~> (mark = 0 \/ stopRequested))

\* A requested stop is never slept through: the thread ends, and the main
\* thread gets past its join, without a timeout having to expire, even in
\* the middle of a reconnect round.
StopCompletes == stopRequested ~> mainPc = "gone"
=============================================================================

------------------------------ MODULE WebPage ------------------------------
(***************************************************************************)
(* A web page (static/app.js) and the program behind it, for the working   *)
(* mode: the user's clicks, the page's pending choice with its timers, the *)
(* POSTs and the polling of /api/status over connections that fail, the    *)
(* handlers (WebServer.cpp), the command queue, the turns of the control   *)
(* loop and the snapshots it publishes.                                    *)
(*                                                                         *)
(* The page has five modes: 3 and 4 are the server's mode 3 with DHW and   *)
(* with heating priority.  Each POST has a connection of its own, so two   *)
(* of them may be served in either order.  Timers and answers take any     *)
(* time.  The queue is the FIFO that CmdQueue implements, the status       *)
(* answered the latest snapshot, as StatusQueue shows.  Of the control     *)
(* loop there is the working mode and the priority; the link to the device *)
(* may fail between any two of its steps, the finer failures are           *)
(* ControlLoop's.                                                          *)
(***************************************************************************)
EXTENDS Naturals, Sequences

CONSTANTS
    StartModes, StartPriorities,    \* the settings when the page is opened
    ClickModes,     \* the mode buttons the user presses
    OtherCommands,  \* commands other clients send
    QueueRoom,      \* commands the queue holds (15)
    MaxRetries,     \* MAX_RETRIES of apiGet (3)
    MaxClicks,      \* bound: clicks on a mode button
    MaxFaults,      \* bound: requests of other clients, POSTs and polls that
                    \* fail, and outages of the link to the device
    None            \* null

PageModes == 0 .. 4
Priorities == {"dhw", "heating"}
Commands == [type : {"mode"}, value : 0 .. 3] \cup [type : {"prio"}, value : Priorities]

ASSUME WebPageAssumption ==
    /\ StartModes \subseteq 0 .. 3 /\ StartPriorities \subseteq Priorities
    /\ ClickModes \subseteq PageModes /\ OtherCommands \subseteq Commands
    /\ QueueRoom \in Nat \ {0} /\ MaxRetries \in Nat
    /\ MaxClicks \in Nat /\ MaxFaults \in Nat
    /\ None \notin PageModes

VARIABLES
    currentMode,    \* the mode the page shows
    pendingMode,    \* the user's choice until the server confirms it
    deviceStatus,   \* "Online", "Offline" or "Error"
    timers,         \* timeouts of setWorkingMode that have not fired
    polling,        \* isUpdating
    answer,         \* the snapshot on its way to the page, if any
    retries,        \* apiGet's retries
    posts,          \* POSTs whose answer has not arrived
    queue,          \* the command queue
    pc,             \* where the control loop is in its turn
    working,        \* desired_working_mode_
    priority,       \* current_priority_
    register,       \* the device's priority register
    status,         \* the priority in the snapshot being filled; "heating" is
                    \* the default
    published,      \* the snapshot published last
    link,           \* the device can be reached
    connected,      \* the client holds a connection
    used,           \* how much of the bounds is used up
    last,           \* ghost: the mode clicked last
    troubled,       \* ghost: a POST failed, was refused or overlapped with
                    \* another, or another client sent a command
    unseen          \* ghost: the connection broke after the last status was read

page == <<currentMode, pendingMode, deviceStatus, timers, polling, answer, retries>>
loop == <<pc, working, priority, register, status, published, connected>>
ghosts == <<last, troubled, unseen>>
vars == <<page, posts, queue, loop, link, used, ghosts>>

Bound == [clicks |-> MaxClicks, faults |-> MaxFaults]

\* The environment acts once more.
Use(b) == used[b] < Bound[b] /\ used' = [used EXCEPT ![b] = @ + 1]

\* setWorkingMode's backendMode.
Backend(m) == IF m \in {3, 4} THEN 3 ELSE m

\* updateUI's displayMode.
Display(mode, prio) == IF mode = 3 /\ prio = "heating" THEN 4 ELSE mode

\* The page is opened while the program runs: settings and register may
\* disagree until the first turn.
Init ==
    /\ currentMode = 3 /\ pendingMode = None /\ deviceStatus = "Online"
    /\ timers = 0 /\ polling = FALSE /\ answer = <<>> /\ retries = 0
    /\ posts = {} /\ queue = <<>>
    /\ pc = "turn" /\ working \in StartModes
    /\ priority \in StartPriorities /\ register \in Priorities /\ status = "heating"
    /\ published = [online |-> TRUE, mode |-> working, prio |-> register]
    /\ link = TRUE /\ connected = TRUE
    /\ used = [clicks |-> 0, faults |-> 0]
    /\ last = None /\ troubled = FALSE /\ unseen = FALSE

-----------------------------------------------------------------------------
(* The page *)

Post(m) == [id |-> used.clicks, mode |-> Backend(m), served |-> FALSE]

\* Mutant: no timeout for a choice the server does not confirm.
ClickNoTimer(m) ==
    /\ m # currentMode
    /\ Use("clicks")
    /\ currentMode' = m /\ pendingMode' = m
    /\ posts' = posts \cup {Post(m)}
    /\ last' = m /\ troubled' = (troubled \/ posts # {})
    /\ UNCHANGED <<deviceStatus, timers, polling, answer, retries, queue, loop, link, unseen>>

\* setWorkingMode, by a mode button or the power button.
Click(m) ==
    /\ m # currentMode
    /\ Use("clicks")
    /\ currentMode' = m /\ pendingMode' = m
    /\ timers' = timers + 1
    /\ posts' = posts \cup {Post(m)}
    /\ last' = m /\ troubled' = (troubled \/ posts # {})
    /\ UNCHANGED <<deviceStatus, polling, answer, retries, queue, loop, link, unseen>>

\* A timeout fires; it clears the choice whichever click started it.
TimerFires ==
    /\ timers > 0
    /\ timers' = timers - 1
    /\ pendingMode' = None
    /\ UNCHANGED <<currentMode, deviceStatus, polling, answer, retries, posts, queue, loop, link, used, ghosts>>

\* The answer to a POST: 202 whether or not the command was queued.
PostAnswered(p) ==
    /\ p.served
    /\ posts' = posts \ {p}
    /\ UNCHANGED <<page, queue, loop, link, used, ghosts>>

\* A POST fails, before it was served or after: the choice is given up.
PostFails(p) ==
    /\ Use("faults")
    /\ posts' = posts \ {p}
    /\ pendingMode' = None
    /\ troubled' = TRUE
    /\ UNCHANGED <<currentMode, deviceStatus, timers, polling, answer, retries, queue, loop, link,
                   last, unseen>>

\* fetchStatus, every five seconds unless a poll is under way.
PollBegin ==
    /\ ~polling
    /\ polling' = TRUE
    /\ UNCHANGED <<currentMode, pendingMode, deviceStatus, timers, answer, retries, posts, queue, loop, link,
                   used, ghosts>>

Shown(s) == IF s.online THEN "Online" ELSE "Offline"

\* Mutant: every status overwrites the user's choice.
UpdateUIAlways ==
    /\ answer # <<>>
    /\ currentMode' = Display(Head(answer).mode, Head(answer).prio)
    /\ pendingMode' = IF pendingMode = currentMode' THEN None ELSE pendingMode
    /\ deviceStatus' = Shown(Head(answer))
    /\ polling' = FALSE /\ answer' = <<>> /\ retries' = 0
    /\ UNCHANGED <<timers, posts, queue, loop, link, used, ghosts>>

\* updateUI: a pending choice is kept until the server's mode matches it.
UpdateUI ==
    /\ answer # <<>>
    /\ LET displayMode == Display(Head(answer).mode, Head(answer).prio) IN
         /\ currentMode' = IF pendingMode = None THEN displayMode ELSE currentMode
         /\ pendingMode' = IF pendingMode = displayMode THEN None ELSE pendingMode
    /\ deviceStatus' = Shown(Head(answer))
    /\ polling' = FALSE /\ answer' = <<>> /\ retries' = 0
    /\ UNCHANGED <<timers, posts, queue, loop, link, used, ghosts>>

\* A try of the poll fails and is repeated.
PollRetry ==
    /\ polling /\ retries < MaxRetries
    /\ used.faults < MaxFaults
    /\ answer' = <<>> /\ retries' = retries + 1
    /\ UNCHANGED <<currentMode, pendingMode, deviceStatus, timers, polling, posts, queue, loop, link,
                   used, ghosts>>

\* The last try fails: the page gives up the pending choice.
PollFails ==
    /\ polling /\ retries = MaxRetries
    /\ Use("faults")
    /\ polling' = FALSE /\ answer' = <<>> /\ retries' = 0
    /\ pendingMode' = None /\ deviceStatus' = "Error"
    /\ UNCHANGED <<currentMode, timers, posts, queue, loop, link, ghosts>>

-----------------------------------------------------------------------------
(* The web server *)

ModeCommand(m) == [type |-> "mode", value |-> m]

\* push: a full queue refuses the command.
Pushed(c) == IF Len(queue) < QueueRoom THEN Append(queue, c) ELSE queue

\* handleRequest and apiSetModeHandler: the priority in the body is ignored.
ServePost(p) ==
    /\ ~p.served
    /\ posts' = (posts \ {p}) \cup {[p EXCEPT !.served = TRUE]}
    /\ queue' = Pushed(ModeCommand(p.mode))
    /\ troubled' = (troubled \/ Len(queue) = QueueRoom)
    /\ UNCHANGED <<page, loop, link, used, last, unseen>>

\* Another client sets a mode or a priority.
OtherRequest(c) ==
    /\ Use("faults")
    /\ queue' = Pushed(c)
    /\ troubled' = TRUE
    /\ UNCHANGED <<page, posts, loop, link, last, unseen>>

\* apiStatusHandler.
ServePoll ==
    /\ polling /\ answer = <<>>
    /\ answer' = <<published>>
    /\ UNCHANGED <<currentMode, pendingMode, deviceStatus, timers, polling, retries, posts, queue, loop,
                   link, used, ghosts>>

-----------------------------------------------------------------------------
(* The control loop and its link to the device *)

\* The head of threadFunc's loop.  Rounds of connect that fail change
\* nothing, and nothing is published in them.
BeginTurn ==
    /\ pc = "turn"
    /\ connected \/ link
    /\ pc' = "commands" /\ connected' = TRUE /\ unseen' = FALSE
    /\ UNCHANGED <<page, posts, queue, working, priority, register, status, published, link,
                   used, last, troubled>>

\* The priority a working mode demands.
Demanded(m, p) == CASE m \in {1, 3} -> "dhw" [] m = 2 -> "heating" [] OTHER -> p

\* processCommands, one command, over a link that works.
Execute ==
    /\ pc = "commands" /\ queue # <<>> /\ link /\ connected
    /\ queue' = Tail(queue)
    /\ LET c == Head(queue) IN
         /\ working' = IF c.type = "mode" THEN c.value ELSE working
         /\ priority' = IF c.type = "mode" THEN Demanded(c.value, priority) ELSE c.value
         /\ register' = IF c.type = "mode" THEN Demanded(c.value, register) ELSE c.value
    /\ UNCHANGED <<page, posts, pc, status, published, connected, link, used, ghosts>>

\* Mutant: the mode is remembered only when the device took it.
ExecuteFailsForgets ==
    /\ pc = "commands" /\ queue # <<>> /\ ~(link /\ connected)
    /\ queue' = Tail(queue)
    /\ connected' \in {FALSE, connected}
    /\ UNCHANGED <<page, posts, pc, working, priority, register, status, published, link,
                   used, ghosts>>

\* processCommands, one command whose first write fails; the serial client
\* drops its connection then, the TCP client keeps it.
ExecuteFails ==
    /\ pc = "commands" /\ queue # <<>> /\ ~(link /\ connected)
    /\ queue' = Tail(queue)
    /\ working' = IF Head(queue).type = "mode" THEN Head(queue).value ELSE working
    /\ connected' \in {FALSE, connected}
    /\ UNCHANGED <<page, posts, pc, priority, register, status, published, link, used, ghosts>>

\* readStatus succeeds; the snapshot has the priority before enforcement.
Read ==
    /\ pc = "commands" /\ queue = <<>> /\ link /\ connected
    /\ pc' = "apply" /\ status' = register
    /\ UNCHANGED <<page, posts, queue, working, priority, register, published, connected, link,
                   used, ghosts>>

\* Mutant: a failed read publishes nothing.
ReadFailsSilently ==
    /\ pc = "commands" /\ queue = <<>> /\ ~(link /\ connected)
    /\ pc' = "turn" /\ connected' = FALSE
    /\ UNCHANGED <<page, posts, queue, working, priority, register, status, published, link,
                   used, ghosts>>

\* readStatus fails: a snapshot of default values, with the working mode.
ReadFails ==
    /\ pc = "commands" /\ queue = <<>> /\ ~(link /\ connected)
    /\ pc' = "turn" /\ connected' = FALSE
    /\ published' = [online |-> FALSE, mode |-> working, prio |-> "heating"]
    /\ UNCHANGED <<page, posts, queue, working, priority, register, status, link, used, ghosts>>

Publish ==
    /\ published' = [online |-> TRUE, mode |-> working, prio |-> status]
    /\ status' = "heating"

\* applyControlLogic: the priority the mode demands is written unless the
\* loop believes it set already.
Apply ==
    /\ pc = "apply" /\ link
    /\ LET wanted == Demanded(working, priority) IN
         /\ priority' = wanted
         /\ register' = IF wanted # priority THEN wanted ELSE register
    /\ pc' = "turn" /\ Publish
    /\ UNCHANGED <<page, posts, queue, working, connected, link, used, ghosts>>

\* The link failed after the last register a status needs was read.  What is
\* still read or written then may drop the connection; the snapshot says
\* online all the same.
ApplyFails ==
    /\ pc = "apply" /\ ~link
    /\ connected' \in BOOLEAN /\ unseen' = ~connected'
    /\ pc' = "turn" /\ Publish
    /\ UNCHANGED <<page, posts, queue, working, priority, register, link, used, last, troubled>>

Outage ==
    /\ link
    /\ Use("faults")
    /\ link' = FALSE
    /\ UNCHANGED <<page, posts, queue, loop, ghosts>>

Repair ==
    /\ ~link
    /\ link' = TRUE
    /\ UNCHANGED <<page, posts, queue, loop, used, ghosts>>

-----------------------------------------------------------------------------
Loop == BeginTurn \/ Execute \/ ExecuteFails \/ Read \/ ReadFails \/ Apply \/ ApplyFails

Next ==
    \/ \E m \in ClickModes : Click(m)
    \/ \E p \in posts : PostAnswered(p) \/ PostFails(p) \/ ServePost(p)
    \/ TimerFires \/ PollBegin \/ UpdateUI \/ PollRetry \/ PollFails
    \/ \E c \in OtherCommands : OtherRequest(c)
    \/ ServePoll \/ Loop \/ Outage \/ Repair

\* The browser runs its timers and polls, the server answers, and the control
\* loop takes its turns.  Nobody repairs the link.
Fairness ==
    /\ WF_vars(TimerFires) /\ WF_vars(PollBegin) /\ WF_vars(ServePoll)
    /\ WF_vars(UpdateUI) /\ WF_vars(Loop)
    /\ WF_vars(\E p \in posts : ServePost(p) \/ PostAnswered(p))

Spec == Init /\ [][Next]_vars /\ Fairness

-----------------------------------------------------------------------------
(* Properties *)

\* What pendingMode is for (app.js:14): until its timeout fires, the user's
\* first choice is shown, although polls bring older modes, stay under way
\* and confirm it from a snapshot that was taken before the command; as long
\* as no request and no link fails.  Mode 4 is left out, the server cannot
\* take it.
FirstChoiceShown ==
    used.clicks = 1 /\ timers = 1 /\ last # 4 /\ ~troubled /\ used.faults = 0
        => currentMode = last

\* With a device that can be reached in the end, the page ends up showing it
\* online, in the mode the control loop is in and with the priority in the
\* device's register, whatever was clicked, lost and refused before.
PageConverges ==
    <>[]link => <>[](deviceStatus = "Online" /\ currentMode = Display(working, register))

\* The mode clicked last is the one the control loop ends up in, unless a
\* POST failed, was refused by the full queue or overlapped with another, or
\* someone else interfered; outages of the device do not matter.
LastClickWins ==
    <>[](last # None /\ ~troubled /\ link => working = Backend(last))

\* A device that stays out of reach is shown so, unless the connection broke
\* between the registers a status needs and the end of the turn: the rounds
\* of connecting that follow publish nothing (ControlLoop.cpp:726).
OutageShown == <>[]~link => <>[](unseen \/ deviceStatus # "Online")
=============================================================================

--------------------------- MODULE WebPage_proofs ---------------------------
(***************************************************************************)
(* Proofs about WebPage, for every set of buttons, start settings and     *)
(* other clients' commands, queue size and number of clicks and faults.   *)
(*                                                                         *)
(* The first result is about the page: the choice it shows.  It needs     *)
(* where the mode shown comes from: answer, published snapshot, snapshot  *)
(* being filled and registers follow each other, so a snapshot that shows *)
(* the choice cannot be followed by one that does not (Follows).  The     *)
(* second is about the way of a choice to the control loop: it is in a    *)
(* POST, or last in the queue, or in force (OnItsWay).                    *)
(***************************************************************************)
EXTENDS WebPage, SequenceTheorems, TLAPS

-----------------------------------------------------------------------------
(* The inductive invariant *)

Posts == [id : Nat, mode : 0 .. 3, served : BOOLEAN]

\* The types the proofs need, and how clicks, timers and the last choice go
\* together.
Types ==
    /\ used \in [clicks : Nat, faults : Nat]
    /\ timers \in Nat /\ timers <= used.clicks
    /\ posts \subseteq Posts
    /\ queue \in Seq(Commands) /\ Len(queue) <= QueueRoom
    /\ used.clicks = 0 => last = None
    /\ used.clicks > 0 => last \in PageModes

\* An outage counts as a fault, so without one the link is there.
Reachable == used.faults = 0 => link /\ connected

\* Without trouble there is no request but the page's own.
OwnRequests ==
    ~troubled =>
        /\ used.clicks = 0 => queue = <<>> /\ posts = {}
        /\ used.clicks = 1 =>
             /\ \A p \in posts : p.mode = Backend(last)
             /\ \A i \in 1 .. Len(queue) : queue[i] = ModeCommand(Backend(last))

Shows(s, m) == Display(s.mode, s.prio) = m

\* Mode m is that of the registers when the snapshot being filled shows it,
\* of both when the published one does, and of all when the answer does.
Follows(m) ==
    /\ pc = "apply" /\ Display(working, status) = m => Display(working, register) = m
    /\ Shows(published, m) =>
         /\ Display(working, register) = m
         /\ pc = "apply" => Display(working, status) = m
    /\ answer # <<>> /\ Shows(Head(answer), m) => Shows(published, m)

\* So it is for every mode but 4 before the first click, and for the mode
\* clicked after it.
Quiet == ~troubled /\ used.faults = 0
FollowsAll ==
    Quiet => \A m \in 0 .. 3 : used.clicks = 0 \/ (used.clicks = 1 /\ m = last) => Follows(m)

\* The choice is pending, or confirmed by a snapshot that cannot be followed
\* by one with another mode.
ChoiceHeld ==
    Quiet /\ used.clicks = 1 /\ timers = 1 /\ last # 4 =>
        /\ currentMode = last
        /\ \/ pendingMode = last
           \/ /\ pendingMode = None /\ Shows(published, last)
              /\ answer # <<>> => Shows(Head(answer), last)

Inv == Types /\ Reachable /\ OwnRequests /\ FollowsAll /\ ChoiceHeld

-----------------------------------------------------------------------------
(* The way of the last choice to the control loop *)

\* Without trouble the last choice is in the only POST, not served yet, or
\* the last command in the queue, or the working mode.
OnItsWay ==
    ~troubled /\ last # None =>
        /\ \A p, q \in posts : p = q
        /\ \A p \in posts : ~p.served => p.mode = Backend(last)
        /\ \/ \E p \in posts : ~p.served
           \/ queue # <<>> /\ queue[Len(queue)] = ModeCommand(Backend(last))
           \/ queue = <<>> /\ working = Backend(last)

NothingBefore == ~troubled /\ last = None => posts = {} /\ queue = <<>>

\* The safety half of LastClickWins: when every POST has been served and the
\* queue is empty, the working mode is the one clicked last.
LastChoiceInForce ==
    ~troubled /\ last # None /\ queue = <<>> /\ (\A p \in posts : p.served)
        => working = Backend(last)

-----------------------------------------------------------------------------
(* The steps, sorted by what they change *)

\* Nothing changes outside the page's timers and polls, the control loop and
\* the link: no request is made, and the bounds on them are left alone.
NoRequest == UNCHANGED <<posts, queue, used, last, troubled>>

\* The steps that make, answer or refuse no request and execute no command.
LEMMA OtherSteps ==
    ASSUME \/ TimerFires \/ PollBegin \/ UpdateUI \/ PollRetry \/ ServePoll
           \/ BeginTurn \/ Read \/ ReadFails \/ Apply \/ ApplyFails \/ Repair
           \/ UNCHANGED vars
    PROVE  NoRequest
  BY DEF NoRequest, TimerFires, PollBegin, UpdateUI, PollRetry, ServePoll, BeginTurn,
         Read, ReadFails, Apply, ApplyFails, Repair, vars, page, loop, ghosts

\* What a use of a bound does to the counters.
LEMMA UseCounts ==
    ASSUME used \in [clicks : Nat, faults : Nat]
    PROVE  /\ Use("clicks") => /\ used' \in [clicks : Nat, faults : Nat]
                               /\ used'.clicks = used.clicks + 1
                               /\ used'.faults = used.faults
           /\ Use("faults") => /\ used' \in [clicks : Nat, faults : Nat]
                               /\ used'.clicks = used.clicks
                               /\ used'.faults = used.faults + 1
  BY DEF Use

\* A queue after a push, whether or not it had room.
LEMMA PushedQueue ==
    ASSUME queue \in Seq(Commands), Len(queue) <= QueueRoom, NEW c \in Commands
    PROVE  /\ Pushed(c) \in Seq(Commands) /\ Len(Pushed(c)) <= QueueRoom
           /\ \A i \in 1 .. Len(Pushed(c)) :
                Pushed(c)[i] = c \/ (i \in 1 .. Len(queue) /\ Pushed(c)[i] = queue[i])
           /\ Len(queue) # QueueRoom =>
                Pushed(c) # <<>> /\ Pushed(c)[Len(Pushed(c))] = c
  <1>0. QueueRoom \in Nat
    BY WebPageAssumption
  <1>1. CASE Len(queue) < QueueRoom
    <2>1. Pushed(c) = Append(queue, c)
      BY <1>1 DEF Pushed
    <2> QED
      BY <1>0, <1>1, <2>1
  <1>2. CASE ~(Len(queue) < QueueRoom)
    <2>1. Pushed(c) = queue
      BY <1>2 DEF Pushed
    <2> QED
      BY <1>0, <1>2, <2>1
  <1> QED
    BY <1>1, <1>2

\* A POST carries one of the server's modes.
LEMMA PostType ==
    ASSUME Types, NEW m \in ClickModes
    PROVE  /\ m \in PageModes /\ m # None
           /\ Post(m) \in Posts /\ Post(m).mode = Backend(m) /\ ~Post(m).served
  <1>1. m \in 0 .. 4 /\ m # None
    BY WebPageAssumption DEF PageModes
  <1>2. Backend(m) \in 0 .. 3
    BY <1>1 DEF Backend
  <1> QED
    BY <1>1, <1>2 DEF Types, Post, Posts, PageModes

\* A mode command of a POST is a command.
LEMMA ModeCommandType ==
    ASSUME NEW m \in 0 .. 3
    PROVE  ModeCommand(m) \in Commands
  BY DEF ModeCommand, Commands

\* What serving a POST leaves of the POSTs.
LEMMA ServedPosts ==
    ASSUME Types, NEW p \in posts, ServePost(p)
    PROVE  /\ posts' \subseteq Posts
           /\ \A x \in posts' : x \in posts \/ (x.mode = p.mode /\ x.served)
           /\ \A x \in posts' : x \in posts \ {p} \/ x = [p EXCEPT !.served = TRUE]
  <1> DEFINE y == [p EXCEPT !.served = TRUE]
  <1>1. p \in Posts
    BY DEF Types
  <1>2. y \in Posts /\ y.mode = p.mode /\ y.served
    BY <1>1 DEF Posts
  <1>3. posts' = (posts \ {p}) \cup {y}
    BY DEF ServePost
  <1> HIDE DEF y
  <1>4. /\ posts' \subseteq Posts
        /\ \A x \in posts' : x \in posts \/ (x.mode = p.mode /\ x.served)
    BY <1>2, <1>3 DEF Types
  <1>5. \A x \in posts' : x \in posts \ {p} \/ x = y
    BY <1>3
  <1> QED
    BY <1>4, <1>5 DEF y

\* Types, step by step.
LEMMA TypesKept ==
    ASSUME Types, [Next]_vars
    PROVE  Types'
  <1> USE DEF Types
  <1>1. ASSUME NEW m \in ClickModes, Click(m)
        PROVE  Types'
    <2>1. /\ Use("clicks") /\ timers' = timers + 1 /\ posts' = posts \cup {Post(m)}
          /\ last' = m /\ queue' = queue
      BY <1>1 DEF Click
    <2> QED
      BY <2>1, UseCounts, PostType
  <1>2. ASSUME NEW p \in posts, PostAnswered(p)
        PROVE  Types'
    BY <1>2 DEF PostAnswered, page, ghosts
  <1>3. ASSUME NEW p \in posts, PostFails(p)
        PROVE  Types'
    BY <1>3, UseCounts DEF PostFails
  <1>4. ASSUME NEW p \in posts, ServePost(p)
        PROVE  Types'
    <2>1. queue' = Pushed(ModeCommand(p.mode)) /\ UNCHANGED <<timers, used, last>>
      BY <1>4 DEF ServePost, page
    <2>2. ModeCommand(p.mode) \in Commands
      BY ModeCommandType DEF Posts
    <2> QED
      BY <1>4, <2>1, <2>2, PushedQueue, ServedPosts
  <1>5. CASE TimerFires
    BY <1>5 DEF TimerFires, ghosts
  <1>6. CASE PollFails
    BY <1>6, UseCounts DEF PollFails, ghosts
  <1>7. ASSUME NEW c \in OtherCommands, OtherRequest(c)
        PROVE  Types'
    <2>1. c \in Commands
      BY WebPageAssumption
    <2>2. /\ Use("faults") /\ queue' = Pushed(c) /\ UNCHANGED <<timers, posts, last>>
      BY <1>7 DEF OtherRequest, page
    <2> QED
      BY <2>1, <2>2, UseCounts, PushedQueue
  <1>8. CASE Execute \/ ExecuteFails
    <2>1. queue # <<>> /\ queue' = Tail(queue) /\ UNCHANGED <<timers, posts, used, last>>
      BY <1>8 DEF Execute, ExecuteFails, page, ghosts
    <2> QED
      BY <2>1, WebPageAssumption
  <1>9. CASE Outage
    BY <1>9, UseCounts DEF Outage, page, ghosts
  <1>10. CASE \/ PollBegin \/ UpdateUI \/ PollRetry \/ ServePoll
              \/ BeginTurn \/ Read \/ ReadFails \/ Apply \/ ApplyFails \/ Repair
              \/ UNCHANGED vars
    <2>1. timers' = timers
      BY <1>10 DEF PollBegin, UpdateUI, PollRetry, ServePoll, BeginTurn, Read, ReadFails,
                   Apply, ApplyFails, Repair, vars, page
    <2> QED
      BY <1>10, <2>1, OtherSteps DEF NoRequest
  <1> QED
    BY <1>1, <1>2, <1>3, <1>4, <1>5, <1>6, <1>7, <1>8, <1>9, <1>10 DEF Next, Loop

\* Trouble and faults are never forgotten.
LEMMA QuietBefore ==
    ASSUME Types, [Next]_vars
    PROVE  /\ ~troubled' => ~troubled
           /\ used'.faults = 0 => used.faults = 0
  <1>0. used.faults \in Nat
    BY DEF Types
  <1>1. ASSUME NEW m \in ClickModes, Click(m)
        PROVE  /\ ~troubled' => ~troubled
               /\ used'.faults = 0 => used.faults = 0
    <2>1. Use("clicks") /\ troubled' = (troubled \/ posts # {})
      BY <1>1 DEF Click
    <2>2. used'.faults = used.faults
      BY <2>1, UseCounts DEF Types
    <2> QED
      BY <2>1, <2>2, Zenon
  <1>2. ASSUME NEW p \in posts, ServePost(p)
        PROVE  /\ ~troubled' => ~troubled
               /\ used'.faults = 0 => used.faults = 0
    <2>1. used' = used /\ troubled' = (troubled \/ Len(queue) = QueueRoom)
      BY <1>2 DEF ServePost
    <2> QED
      BY <2>1, Zenon
  <1>3. CASE \/ PollFails \/ Outage
             \/ \E p \in posts : PostFails(p)
             \/ \E c \in OtherCommands : OtherRequest(c)
    <2>1. Use("faults") /\ (troubled' = troubled \/ troubled' = TRUE)
      BY <1>3 DEF PollFails, Outage, PostFails, OtherRequest, ghosts
    <2>2. used'.faults # 0
      BY <1>0, <2>1, UseCounts DEF Types
    <2>3. ~troubled' => ~troubled
      <3>1. CASE troubled' = troubled
        BY <3>1, Zenon
      <3>2. CASE troubled' = TRUE
        BY <3>2, Zenon
      <3> QED
        BY <2>1, <3>1, <3>2
    <2> QED
      BY <2>2, <2>3
  <1>4. CASE \/ Execute \/ ExecuteFails
             \/ \E p \in posts : PostAnswered(p)
    <2>1. used' = used /\ troubled' = troubled
      BY <1>4 DEF Execute, ExecuteFails, PostAnswered, ghosts
    <2> QED
      BY <2>1, Zenon
  <1>5. CASE \/ TimerFires \/ PollBegin \/ UpdateUI \/ PollRetry \/ ServePoll
             \/ BeginTurn \/ Read \/ ReadFails \/ Apply \/ ApplyFails \/ Repair
             \/ UNCHANGED vars
    <2>1. used' = used /\ troubled' = troubled
      BY <1>5, OtherSteps DEF NoRequest
    <2> QED
      BY <2>1, Zenon
  <1> QED
    BY <1>1, <1>2, <1>3, <1>4, <1>5 DEF Next, Loop

\* Without a fault nothing takes the link or the connection away.
LEMMA ReachableKept ==
    ASSUME Types, Reachable, [Next]_vars
    PROVE  Reachable'
  <1>0. used'.faults = 0 => used.faults = 0
    BY QuietBefore
  <1>1. CASE Outage
    <2>1. used'.faults # 0
      BY <1>1, UseCounts DEF Outage, Types
    <2> QED
      BY <2>1 DEF Reachable
  <1>2. CASE ExecuteFails \/ ReadFails \/ ApplyFails
    <2>1. ~(link /\ connected) /\ UNCHANGED used
      BY <1>2 DEF ExecuteFails, ReadFails, ApplyFails
    <2> QED
      BY <2>1 DEF Reachable
  <1>3. CASE \/ \E m \in ClickModes : Click(m)
             \/ \E p \in posts : PostAnswered(p) \/ PostFails(p) \/ ServePost(p)
             \/ TimerFires \/ PollBegin \/ UpdateUI \/ PollRetry \/ PollFails
             \/ \E c \in OtherCommands : OtherRequest(c)
             \/ ServePoll \/ Execute \/ Read \/ Apply \/ UNCHANGED vars
    <2>1. UNCHANGED <<link, connected>>
      BY <1>3 DEF Click, PostAnswered, PostFails, ServePost, TimerFires, PollBegin, UpdateUI,
                  PollRetry, PollFails, OtherRequest, ServePoll, Execute, Read, Apply,
                  vars, page, loop
    <2> QED
      BY <1>0, <2>1 DEF Reachable
  <1>4. CASE BeginTurn \/ Repair
    <2>1. \/ connected' = TRUE /\ link' = link
          \/ ~link
      BY <1>4 DEF BeginTurn, Repair
    <2> QED
      BY <1>0, <2>1 DEF Reachable
  <1> QED
    BY <1>1, <1>2, <1>3, <1>4 DEF Next, Loop

\* The page's own request is the only one, step by step.
LEMMA OwnRequestsKept ==
    ASSUME Types, OwnRequests, [Next]_vars
    PROVE  OwnRequests'
  <1>0. used.clicks \in Nat
    BY DEF Types
  <1>1. ASSUME NEW m \in ClickModes, Click(m)
        PROVE  OwnRequests'
    <2>1. /\ Use("clicks") /\ posts' = posts \cup {Post(m)} /\ queue' = queue
          /\ last' = m /\ troubled' = (troubled \/ posts # {})
      BY <1>1 DEF Click
    <2>2. used'.clicks = used.clicks + 1
      BY <2>1, UseCounts DEF Types
    <2>3. ASSUME ~troubled', used'.clicks = 1
          PROVE  queue' = <<>> /\ \A p \in posts' : p.mode = Backend(last')
      <3>1. ~troubled
        BY <2>1, <2>3, Zenon
      <3>2. used.clicks = 0
        BY <1>0, <2>2, <2>3
      <3>3. queue = <<>> /\ posts = {}
        BY <3>1, <3>2 DEF OwnRequests
      <3> QED
        BY <2>1, <3>3, PostType
    <2>4. used'.clicks # 0
      BY <1>0, <2>2
    <2> QED
      BY <2>3, <2>4 DEF OwnRequests
  <1>2. ASSUME NEW p \in posts, PostAnswered(p)
        PROVE  OwnRequests'
    BY <1>2 DEF PostAnswered, OwnRequests, ghosts
  <1>3. ASSUME NEW p \in posts, ServePost(p)
        PROVE  OwnRequests'
    <2>1. /\ queue' = Pushed(ModeCommand(p.mode)) /\ UNCHANGED <<used, last>>
          /\ troubled' = (troubled \/ Len(queue) = QueueRoom)
      BY <1>3 DEF ServePost
    <2>2. ModeCommand(p.mode) \in Commands
      BY ModeCommandType DEF Types, Posts
    <2>3. \A x \in posts' : x \in posts \/ x.mode = p.mode
      BY <1>3, ServedPosts
    <2>4. \A i \in 1 .. Len(queue') :
             \/ queue'[i] = ModeCommand(p.mode)
             \/ i \in 1 .. Len(queue) /\ queue'[i] = queue[i]
      BY <2>1, <2>2, PushedQueue DEF Types
    <2> QED
      BY <2>1, <2>3, <2>4 DEF OwnRequests
  <1>4. CASE Execute \/ ExecuteFails
    <2>1. queue # <<>> /\ queue' = Tail(queue) /\ UNCHANGED <<posts, used, last, troubled>>
      BY <1>4 DEF Execute, ExecuteFails, ghosts
    <2>2. \A i \in 1 .. Len(queue') : i + 1 \in 1 .. Len(queue) /\ queue'[i] = queue[i + 1]
      BY <2>1 DEF Types
    <2> QED
      BY <2>1, <2>2 DEF OwnRequests
  <1>5. CASE (\E p \in posts : PostFails(p)) \/ (\E c \in OtherCommands : OtherRequest(c))
    BY <1>5 DEF PostFails, OtherRequest, OwnRequests
  <1>6. CASE PollFails \/ Outage
    <2>1. used'.clicks = used.clicks /\ UNCHANGED <<posts, queue, last, troubled>>
      BY <1>6, UseCounts DEF PollFails, Outage, Types, ghosts
    <2> QED
      BY <2>1 DEF OwnRequests
  <1>7. CASE \/ TimerFires \/ PollBegin \/ UpdateUI \/ PollRetry \/ ServePoll
             \/ BeginTurn \/ Read \/ ReadFails \/ Apply \/ ApplyFails \/ Repair
             \/ UNCHANGED vars
    BY <1>7, OtherSteps DEF NoRequest, OwnRequests
  <1> QED
    BY <1>1, <1>2, <1>3, <1>4, <1>5, <1>6, <1>7 DEF Next, Loop

-----------------------------------------------------------------------------
(* The choice the page shows *)

\* What a mode other than 4 on display says of mode and priority.
LEMMA DisplayMode ==
    ASSUME NEW m \in 0 .. 3, NEW w, NEW p
    PROVE  Display(w, p) = m <=> w = m /\ ~(m = 3 /\ p = "heating")
  BY DEF Display

\* Mode 3 demands DHW priority.
LEMMA DemandedInThree == \A p : Demanded(3, p) = "dhw"
  BY DEF Demanded

\* A snapshot with the mode is followed by others with the mode, as long as
\* no command is executed and no access fails.
LEMMA FollowsKept ==
    ASSUME NEW m \in 0 .. 3, Follows(m), link, connected, [Next]_vars, ~Execute
    PROVE  Follows(m)'
  <1>1. CASE \/ \E n \in ClickModes : Click(n)
             \/ \E p \in posts : PostAnswered(p) \/ PostFails(p) \/ ServePost(p)
             \/ TimerFires \/ PollBegin \/ UpdateUI \/ PollRetry \/ PollFails
             \/ \E c \in OtherCommands : OtherRequest(c)
             \/ BeginTurn \/ Outage \/ Repair \/ UNCHANGED vars
    <2>1. UNCHANGED <<working, register, status, published>>
      BY <1>1 DEF Click, PostAnswered, PostFails, ServePost, TimerFires, PollBegin, UpdateUI,
                  PollRetry, PollFails, OtherRequest, BeginTurn, Outage, Repair, vars, loop
    <2>2. pc' = pc \/ pc' = "commands"
      BY <1>1 DEF Click, PostAnswered, PostFails, ServePost, TimerFires, PollBegin, UpdateUI,
                  PollRetry, PollFails, OtherRequest, BeginTurn, Outage, Repair, vars, loop
    <2>3. answer' = answer \/ answer' = <<>>
      BY <1>1 DEF Click, PostAnswered, PostFails, ServePost, TimerFires, PollBegin, UpdateUI,
                  PollRetry, PollFails, OtherRequest, BeginTurn, Outage, Repair, vars, page
    <2> QED
      BY <2>1, <2>2, <2>3 DEF Follows, Shows
  <1>2. CASE ServePoll
    <2>1. answer' = <<published>> /\ UNCHANGED <<pc, working, register, status, published>>
      BY <1>2 DEF ServePoll, loop
    <2>2. Head(answer') = published
      BY <2>1
    <2> QED
      BY <2>1, <2>2 DEF Follows, Shows
  <1>3. CASE Read
    <2>1. /\ pc' = "apply" /\ status' = register
          /\ UNCHANGED <<answer, working, register, published>>
      BY <1>3 DEF Read, page
    <2> QED
      BY <2>1 DEF Follows, Shows
  <1>4. CASE Apply
    <2>1. /\ pc = "apply" /\ pc' = "turn" /\ UNCHANGED <<answer, working>>
          /\ published' = [online |-> TRUE, mode |-> working, prio |-> status]
          /\ register' \in {Demanded(working, priority), register}
      BY <1>4 DEF Apply, Publish, page
    <2>2. Shows(published, m)' <=> Display(working, status) = m
      BY <2>1 DEF Shows
    <2>3. Display(working, register) = m => Display(working, register)' = m
      <3> SUFFICES ASSUME Display(working, register) = m
                   PROVE  Display(working', register') = m
        OBVIOUS
      <3>1. working' = m /\ ~(m = 3 /\ register = "heating")
        BY <2>1, DisplayMode
      <3>2. m = 3 => Demanded(working, priority) = "dhw"
        BY <2>1, <3>1, DemandedInThree
      <3>3. ~(m = 3 /\ register' = "heating")
        BY <2>1, <3>1, <3>2
      <3> QED
        BY <3>1, <3>3, DisplayMode
    <2> QED
      BY <2>1, <2>2, <2>3 DEF Follows, Shows
  <1>5. ~ExecuteFails /\ ~ReadFails /\ ~ApplyFails
    BY DEF ExecuteFails, ReadFails, ApplyFails
  <1> QED
    BY <1>1, <1>2, <1>3, <1>4, <1>5 DEF Next, Loop

\* The command of the only click sets its mode, and with mode 3 the priority
\* it is displayed by.
LEMMA FollowsExecuted ==
    ASSUME NEW m \in 0 .. 3, Follows(m), Execute, Head(queue) = ModeCommand(m)
    PROVE  Follows(m)'
  <1>1. /\ pc' = "commands" /\ UNCHANGED <<answer, published>>
        /\ working' = m /\ register' = Demanded(m, register)
    BY DEF Execute, ModeCommand, page
  <1>2. m = 3 => register' = "dhw"
    BY <1>1, DemandedInThree
  <1>3. Display(working', register') = m
    BY <1>1, <1>2, DisplayMode
  <1> QED
    BY <1>1, <1>3 DEF Follows, Shows

\* FollowsAll, for the steps that are no click and for clicks.
LEMMA FollowsAllKept ==
    ASSUME Inv, [Next]_vars
    PROVE  FollowsAll'
  <1> SUFFICES ASSUME Quiet', NEW m \in 0 .. 3,
                      used'.clicks = 0 \/ (used'.clicks = 1 /\ m = last')
               PROVE  Follows(m)'
    BY DEF FollowsAll
  <1>0. /\ Types /\ used.clicks \in Nat
        /\ ~troubled /\ used.faults = 0 /\ link /\ connected
    BY QuietBefore DEF Inv, Types, Quiet, Reachable
  <1>1. \/ used'.clicks = used.clicks /\ last' = last
        \/ used.clicks = 0
    <2>1. CASE \E n \in ClickModes : Click(n)
      <3>1. used'.clicks = used.clicks + 1
        BY <1>0, <2>1, UseCounts DEF Click, Types
      <3> QED
        BY <1>0, <3>1
    <2>2. CASE \/ PollFails \/ Outage
               \/ \E p \in posts : PostFails(p)
               \/ \E c \in OtherCommands : OtherRequest(c)
      BY <1>0, <2>2, UseCounts DEF PollFails, Outage, PostFails, OtherRequest, Types, ghosts
    <2>3. CASE \/ Execute \/ ExecuteFails
               \/ \E p \in posts : PostAnswered(p) \/ ServePost(p)
      BY <2>3 DEF Execute, ExecuteFails, PostAnswered, ServePost, ghosts
    <2>4. CASE \/ TimerFires \/ PollBegin \/ UpdateUI \/ PollRetry \/ ServePoll
               \/ BeginTurn \/ Read \/ ReadFails \/ Apply \/ ApplyFails \/ Repair
               \/ UNCHANGED vars
      BY <2>4, OtherSteps DEF NoRequest
    <2> QED
      BY <2>1, <2>2, <2>3, <2>4 DEF Next, Loop
  <1>2. used.clicks = 0 \/ (used.clicks = 1 /\ m = last)
    BY <1>1
  <1>3. Follows(m)
    BY <1>0, <1>2 DEF Inv, FollowsAll, Quiet
  <1>4. CASE ~Execute
    BY <1>0, <1>3, <1>4, FollowsKept
  <1>5. CASE Execute
    <2>1. queue # <<>> /\ queue \in Seq(Commands)
      BY <1>0, <1>5 DEF Execute, Types
    <2>2. used.clicks = 1 /\ m = last
      BY <1>0, <1>2, <2>1 DEF Inv, OwnRequests
    <2>3. queue[1] = ModeCommand(Backend(last))
      BY <1>0, <2>1, <2>2 DEF Inv, OwnRequests
    <2>4. Backend(last) = m
      BY <2>2 DEF Backend
    <2>5. Head(queue) = ModeCommand(m)
      BY <2>1, <2>3, <2>4
    <2> QED
      BY <1>3, <1>5, <2>5, FollowsExecuted
  <1> QED
    BY <1>4, <1>5

\* The choice is held: polls cannot take it away, and the only other thing
\* that clears it is its timer.
LEMMA ChoiceKept ==
    ASSUME Inv, [Next]_vars
    PROVE  ChoiceHeld'
  <1> SUFFICES ASSUME Quiet', used'.clicks = 1, timers' = 1, last' # 4
               PROVE  /\ currentMode' = last'
                      /\ \/ pendingMode' = last'
                         \/ /\ pendingMode' = None /\ Shows(published', last')
                            /\ answer' # <<>> => Shows(Head(answer'), last')
    BY DEF ChoiceHeld, Shows
  <1>0. /\ Types /\ used.clicks \in Nat /\ used.faults = 0 /\ used'.faults = 0
        /\ Quiet /\ link /\ connected /\ timers \in Nat /\ timers <= used.clicks
    BY QuietBefore DEF Inv, Types, Quiet, Reachable
  <1>1. CASE \E m \in ClickModes : Click(m)
    BY <1>1 DEF Click
  <1>2. CASE \/ PollFails \/ Outage
             \/ \E p \in posts : PostFails(p)
             \/ \E c \in OtherCommands : OtherRequest(c)
    <2>1. used'.faults = used.faults + 1
      BY <1>0, <1>2, UseCounts DEF PollFails, Outage, PostFails, OtherRequest, Types
    <2> QED
      BY <1>0, <2>1
  <1>3. CASE ExecuteFails \/ ReadFails \/ ApplyFails
    BY <1>0, <1>3 DEF ExecuteFails, ReadFails, ApplyFails
  <1>4. CASE TimerFires
    BY <1>0, <1>4 DEF TimerFires, ghosts
  <1>5. CASE \/ \E p \in posts : PostAnswered(p) \/ ServePost(p)
             \/ PollBegin \/ UpdateUI \/ PollRetry \/ ServePoll
             \/ BeginTurn \/ Execute \/ Read \/ Apply \/ Repair \/ UNCHANGED vars
    <2>1. UNCHANGED <<used, timers, last>>
      BY <1>5 DEF PostAnswered, ServePost, PollBegin, UpdateUI, PollRetry, ServePoll,
                  BeginTurn, Execute, Read, Apply, Repair, vars, page, ghosts
    <2>2. /\ last \in 0 .. 3 /\ last # None
      BY <1>0, <2>1, WebPageAssumption DEF Types, PageModes
    <2>3. /\ currentMode = last
          /\ \/ pendingMode = last
             \/ /\ pendingMode = None /\ Shows(published, last)
                /\ answer # <<>> => Shows(Head(answer), last)
      BY <1>0, <2>1 DEF Inv, ChoiceHeld
    <2>4. Follows(last)
      BY <1>0, <2>1, <2>2 DEF Inv, FollowsAll
    <2>5. CASE UpdateUI
      <3> DEFINE displayMode == Display(Head(answer).mode, Head(answer).prio)
      <3>1. /\ answer # <<>> /\ answer' = <<>> /\ published' = published
            /\ currentMode' = IF pendingMode = None THEN displayMode ELSE currentMode
            /\ pendingMode' = IF pendingMode = displayMode THEN None ELSE pendingMode
        BY <2>5 DEF UpdateUI, loop
      <3>2. Shows(Head(answer), last) <=> displayMode = last
        BY DEF Shows
      <3> HIDE DEF displayMode
      <3>3. CASE pendingMode = last
        <4>1. currentMode' = last
          BY <2>2, <2>3, <3>1, <3>3
        <4>2. CASE displayMode = last
          BY <2>1, <2>4, <3>1, <3>2, <3>3, <4>1, <4>2 DEF Follows
        <4>3. CASE displayMode # last
          BY <2>1, <3>1, <3>3, <4>1, <4>3
        <4> QED
          BY <4>2, <4>3
      <3>4. CASE pendingMode # last
        BY <2>1, <2>2, <2>3, <3>1, <3>2, <3>4
      <3> QED
        BY <3>3, <3>4
    <2>6. CASE ServePoll
      <3>1. /\ answer' = <<published>>
            /\ UNCHANGED <<currentMode, pendingMode, published>>
        BY <2>6 DEF ServePoll, loop
      <3>2. Head(answer') = published
        BY <3>1
      <3> QED
        BY <2>1, <2>3, <3>1, <3>2
    <2>7. CASE Apply
      <3>1. /\ UNCHANGED <<currentMode, pendingMode, answer>> /\ pc = "apply"
            /\ published' = [online |-> TRUE, mode |-> working, prio |-> status]
        BY <2>7 DEF Apply, Publish, page
      <3>2. Shows(published, last) => Shows(published', last)
        BY <2>4, <3>1 DEF Follows, Shows
      <3> QED
        BY <2>1, <2>3, <3>1, <3>2
    <2>8. CASE \/ \E p \in posts : PostAnswered(p) \/ ServePost(p)
               \/ PollBegin \/ PollRetry
               \/ BeginTurn \/ Execute \/ Read \/ Repair \/ UNCHANGED vars
      <3>1. UNCHANGED <<currentMode, pendingMode, published>>
        BY <2>8 DEF PostAnswered, ServePost, PollBegin, PollRetry, BeginTurn, Execute, Read,
                    Repair, vars, page, loop
      <3>2. answer' = answer \/ answer' = <<>>
        BY <2>8 DEF PostAnswered, ServePost, PollBegin, PollRetry, BeginTurn, Execute, Read,
                    Repair, vars, page
      <3> QED
        BY <2>1, <2>3, <3>1, <3>2
    <2> QED
      BY <1>5, <2>5, <2>6, <2>7, <2>8
  <1> QED
    BY <1>1, <1>2, <1>3, <1>4, <1>5 DEF Next, Loop

\* The invariant holds at the start: nothing has been clicked, and the page's
\* first snapshot shows the registers.
LEMMA InitInv == Init => Inv
  <1> SUFFICES ASSUME Init PROVE Inv
    OBVIOUS
  <1>1. Types
    BY WebPageAssumption DEF Init, Types
  <1>2. Reachable /\ OwnRequests /\ ChoiceHeld
    BY DEF Init, Reachable, OwnRequests, ChoiceHeld
  <1>3. FollowsAll
    BY DEF Init, FollowsAll, Follows, Shows
  <1> QED
    BY <1>1, <1>2, <1>3 DEF Inv

LEMMA NextInv == Inv /\ [Next]_vars => Inv'
  <1> SUFFICES ASSUME Inv, [Next]_vars PROVE Inv'
    OBVIOUS
  <1>1. Types' /\ Reachable' /\ OwnRequests'
    BY TypesKept, ReachableKept, OwnRequestsKept DEF Inv
  <1>2. FollowsAll' /\ ChoiceHeld'
    BY FollowsAllKept, ChoiceKept
  <1> QED
    BY <1>1, <1>2 DEF Inv

-----------------------------------------------------------------------------
(* The way of the last choice, step by step *)

LEMMA WayKept ==
    ASSUME Types, OnItsWay, NothingBefore, [Next]_vars
    PROVE  OnItsWay' /\ NothingBefore'
  <1>1. ASSUME NEW m \in ClickModes, Click(m)
        PROVE  OnItsWay' /\ NothingBefore'
    <2>1. /\ posts' = posts \cup {Post(m)} /\ last' = m
          /\ troubled' = (troubled \/ posts # {})
      BY <1>1 DEF Click
    <2>2. ~troubled' => posts' = {Post(m)}
      <3>1. ~troubled' => posts = {}
        BY <2>1, Zenon
      <3> QED
        BY <2>1, <3>1
    <2>3. m # None /\ Post(m).mode = Backend(m) /\ ~Post(m).served
      BY PostType
    <2> QED
      BY <2>1, <2>2, <2>3 DEF OnItsWay, NothingBefore
  <1>2. ASSUME NEW p \in posts, PostAnswered(p)
        PROVE  OnItsWay' /\ NothingBefore'
    <2>1. p.served /\ posts' = posts \ {p} /\ UNCHANGED <<queue, working, last, troubled>>
      BY <1>2 DEF PostAnswered, loop, ghosts
    <2> QED
      BY <2>1 DEF OnItsWay, NothingBefore
  <1>3. ASSUME NEW p \in posts, ServePost(p)
        PROVE  OnItsWay' /\ NothingBefore'
    <2> DEFINE y == [p EXCEPT !.served = TRUE]
    <2>1. /\ queue' = Pushed(ModeCommand(p.mode)) /\ last' = last /\ ~p.served
          /\ troubled' = (troubled \/ Len(queue) = QueueRoom)
      BY <1>3 DEF ServePost
    <2> SUFFICES ASSUME ~troubled'
                 PROVE  OnItsWay' /\ NothingBefore'
      BY DEF OnItsWay, NothingBefore
    <2>2. ~troubled /\ Len(queue) # QueueRoom
      BY <2>1, Zenon
    <2>3. last # None
      BY <2>2 DEF NothingBefore
    <2>4. posts = {p} /\ p.mode = Backend(last)
      BY <2>1, <2>2, <2>3 DEF OnItsWay
    <2>5. y.served
      BY DEF Types, Posts
    <2>6. \A x \in posts' : x = y
      BY <1>3, <2>4, ServedPosts
    <2>7. ModeCommand(p.mode) \in Commands
      BY ModeCommandType DEF Types, Posts
    <2>8. queue' # <<>> /\ queue'[Len(queue')] = ModeCommand(Backend(last))
      BY <2>1, <2>2, <2>4, <2>7, PushedQueue DEF Types
    <2> HIDE DEF y
    <2> QED
      BY <2>1, <2>3, <2>5, <2>6, <2>8 DEF OnItsWay, NothingBefore
  <1>4. CASE Execute \/ ExecuteFails
    <2>1. /\ queue # <<>> /\ queue' = Tail(queue) /\ UNCHANGED <<posts, last, troubled>>
          /\ working' = IF Head(queue).type = "mode" THEN Head(queue).value ELSE working
      BY <1>4 DEF Execute, ExecuteFails, ghosts
    <2>2. queue \in Seq(Commands) /\ Len(queue) \in Nat
      BY DEF Types
    <2> SUFFICES ASSUME ~troubled', last # None,
                        queue[Len(queue)] = ModeCommand(Backend(last))
                 PROVE  \/ queue' # <<>> /\ queue'[Len(queue')] = ModeCommand(Backend(last))
                        \/ queue' = <<>> /\ working' = Backend(last)
      BY <2>1 DEF OnItsWay, NothingBefore
    <2>3. CASE Len(queue) = 1
      <3>1. Len(queue') = 0 /\ queue' \in Seq(Commands)
        BY <2>1, <2>2, <2>3
      <3>2. queue' = <<>>
        BY <3>1
      <3>3. Head(queue) = queue[1]
        BY <2>2
      <3>4. Head(queue) = ModeCommand(Backend(last))
        BY <2>3, <3>3
      <3> QED
        BY <2>1, <3>2, <3>4 DEF ModeCommand
    <2>4. CASE Len(queue) > 1
      <3>1. Len(queue') = Len(queue) - 1
        BY <2>1, <2>2, <2>4
      <3>2. queue' # <<>>
        BY <2>2, <2>4, <3>1, EmptySeq
      <3>3. queue'[Len(queue) - 1] = queue[Len(queue)]
        BY <2>1, <2>2, <2>4
      <3> QED
        BY <3>1, <3>2, <3>3
    <2>5. Len(queue) \in Nat \ {0}
      BY <2>1, <2>2, EmptySeq
    <2>6. Len(queue) = 1 \/ Len(queue) > 1
      <3>1. \A n \in Nat \ {0} : n = 1 \/ n > 1
        OBVIOUS
      <3> QED
        BY <2>5, <3>1, Zenon
    <2> QED
      BY <2>3, <2>4, <2>6
  <1>5. CASE (\E p \in posts : PostFails(p)) \/ (\E c \in OtherCommands : OtherRequest(c))
    BY <1>5 DEF PostFails, OtherRequest, OnItsWay, NothingBefore
  <1>6. CASE \/ TimerFires \/ PollBegin \/ UpdateUI \/ PollRetry \/ PollFails \/ ServePoll
             \/ BeginTurn \/ Read \/ ReadFails \/ Apply \/ ApplyFails \/ Outage \/ Repair
             \/ UNCHANGED vars
    <2>1. UNCHANGED <<posts, queue, last, troubled>>
      BY <1>6, OtherSteps DEF NoRequest, PollFails, Outage, ghosts
    <2>2. working' = working
      BY <1>6 DEF TimerFires, PollBegin, UpdateUI, PollRetry, PollFails, ServePoll, BeginTurn,
                  Read, ReadFails, Apply, ApplyFails, Outage, Repair, vars, loop
    <2> QED
      BY <2>1, <2>2 DEF OnItsWay, NothingBefore
  <1> QED
    BY <1>1, <1>2, <1>3, <1>4, <1>5, <1>6 DEF Next, Loop

-----------------------------------------------------------------------------
(* Theorems *)

LEMMA Invariance == Spec => []Inv
  BY InitInv, NextInv, PTL DEF Spec

\* Until its timeout fires the user's first choice is shown, however polls
\* that were under way, turns of the control loop and the command itself
\* interleave, in whatever mode and priority the program was found.
THEOREM ChoiceShown == Spec => []FirstChoiceShown
  <1>1. Inv => FirstChoiceShown
    BY DEF Inv, ChoiceHeld, Quiet, FirstChoiceShown
  <1> QED
    BY <1>1, Invariance, PTL

\* Any number of clicks, with the link lost and repaired in between: once
\* the page's POSTs are served and the queue is empty, the working mode is
\* the one clicked last, unless a POST failed, was refused or overlapped
\* with another, or somebody else sent a command.  What LastClickWins adds
\* is that this point is reached.
THEOREM LastChoiceCarriedOut == Spec => []LastChoiceInForce
  <1>1. Init => OnItsWay /\ NothingBefore
    BY DEF Init, OnItsWay, NothingBefore
  <1>2. Inv => Types
    BY DEF Inv
  <1>3. Types /\ OnItsWay /\ NothingBefore /\ [Next]_vars => OnItsWay' /\ NothingBefore'
    BY WayKept
  <1>4. OnItsWay => LastChoiceInForce
    BY DEF OnItsWay, LastChoiceInForce
  <1> QED
    BY <1>1, <1>2, <1>3, <1>4, Invariance, PTL DEF Spec
=============================================================================

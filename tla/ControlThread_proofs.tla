------------------------ MODULE ControlThread_proofs ------------------------
(***************************************************************************)
(* Proofs about ControlThread, for every queue size, number of retries,   *)
(* length of the waits and number of spurious wake-ups.  NoLostWakeup is  *)
(* inductive once it is known who holds the mutex (MutexHolder).  That a  *)
(* wait is bounded takes an account of the timeouts it has begun again    *)
(* (WaitAccount).                                                         *)
(***************************************************************************)
EXTENDS ControlThread, Integers, TLAPS

\* The thread holds kick_mutex_ exactly while it is at its predicate or
\* about to block.
MutexHolder == mutex = "loop" <=> loopPc \in {"pred", "block"}

\* stop() kicks after it has set the flag, which nothing takes back.
StopUnderWay == mainPc = "stopKick" => stopRequested

Inv == TypeOK /\ MutexHolder /\ NoLostWakeup /\ StopUnderWay

\* The state in which start() leaves the two threads.
LEMMA InitInv == Init => Inv
  <1> SUFFICES ASSUME Init
               PROVE  Inv
    OBVIOUS
  <1> USE DEF Init
  <1>1. /\ queue \in 0 .. Room /\ mark \in 0 .. queue
        /\ retries \in 0 .. MaxRetries /\ spurious \in 0 .. MaxSpurious
        /\ timer \in Nat /\ waited \in Nat
    BY ControlThreadAssumption
  <1>2. /\ stopRequested \in BOOLEAN /\ running \in BOOLEAN /\ kicked \in BOOLEAN
        /\ connected \in BOOLEAN /\ signalled \in BOOLEAN
    BY Zenon
  <1>3. TypeOK
    BY <1>1, <1>2 DEF TypeOK
  <1>4. MutexHolder /\ NoLostWakeup /\ StopUnderWay
    BY DEF MutexHolder, NoLostWakeup, Asleep, StopUnderWay
  <1> QED
    BY <1>3, <1>4 DEF Inv

\* Every step keeps the variables in their types.
LEMMA NextTypeOK == TypeOK /\ [Next]_vars => TypeOK'
  <1> SUFFICES ASSUME TypeOK, [Next]_vars
               PROVE  TypeOK'
    OBVIOUS
  <1> USE ControlThreadAssumption DEF TypeOK, mainVars, waitVars
  <1>1. CASE HandleRequest
    BY <1>1 DEF HandleRequest
  <1>2. CASE KickAfterPush
    BY <1>2 DEF KickAfterPush, Notify
  <1>3. CASE Stop
    BY <1>3 DEF Stop
  <1>4. CASE KickOnStop
    BY <1>4 DEF KickOnStop, Notify
  <1>5. CASE Join
    BY <1>5 DEF Join
  <1>6. CASE FirstRead
    BY <1>6 DEF FirstRead, IO
  <1>7. CASE Check
    BY <1>7 DEF Check
  <1>8. CASE ConnectOk
    BY <1>8 DEF ConnectOk
  <1>8f. CASE ConnectFail
    BY <1>8f DEF ConnectFail
  <1>9. CASE RetryOver
    BY <1>9 DEF RetryOver
  <1>10. CASE PopCommand
    <2>1. connected' \in BOOLEAN
      BY <1>10, Zenon DEF PopCommand, IO
    <2>2. queue' \in 0 .. Room /\ mark' \in 0 .. queue'
      BY <1>10 DEF PopCommand
    <2> QED
      BY <1>10, <2>1, <2>2 DEF PopCommand
  <1>11. CASE Drained
    BY <1>11 DEF Drained
  <1>12. CASE ReadApplyPublish
    BY <1>12 DEF ReadApplyPublish, IO
  <1>13. CASE Lock
    BY <1>13 DEF Lock
  <1>14. CASE PredTrue \/ PredFalse
    BY <1>14 DEF PredTrue, PredFalse, AfterWait
  <1>15. CASE Block
    BY <1>15 DEF Block
  <1>16. CASE Wake \/ SpuriousWake
    BY <1>16 DEF Wake, SpuriousWake
  <1>17. CASE Exit
    BY <1>17 DEF Exit
  <1>18. CASE Tick
    BY <1>18 DEF Tick
  <1>19. CASE TimeOut
    BY <1>19 DEF TimeOut, AfterWait
  <1>20. CASE UNCHANGED vars
    BY <1>20 DEF vars
  <1> QED
    BY <1>1, <1>2, <1>3, <1>4, <1>5, <1>6, <1>7, <1>8, <1>8f, <1>9, <1>10, <1>11, <1>12,
       <1>13, <1>14, <1>15, <1>16, <1>17, <1>18, <1>19, <1>20
       DEF Next, Main, Compute, Terminated

\* Every step keeps the mutex with its holder and loses no wake-up.
LEMMA NextSafe == Inv /\ [Next]_vars => MutexHolder' /\ NoLostWakeup' /\ StopUnderWay'
  <1> SUFFICES ASSUME Inv, [Next]_vars
               PROVE  MutexHolder' /\ NoLostWakeup' /\ StopUnderWay'
    OBVIOUS
  <1> USE DEF Inv, MutexHolder, NoLostWakeup, Asleep, StopUnderWay, mainVars, waitVars
  <1>1. CASE HandleRequest
    BY <1>1 DEF HandleRequest
  <1>2. CASE KickAfterPush \/ KickOnStop
    BY <1>2 DEF KickAfterPush, KickOnStop, Notify, TypeOK
  <1>3. CASE Stop
    BY <1>3 DEF Stop
  <1>4. CASE Join
    BY <1>4 DEF Join
  <1>5. CASE FirstRead \/ Check
    BY <1>5 DEF FirstRead, Check
  <1>6. CASE ConnectOk \/ ConnectFail \/ RetryOver
    BY <1>6 DEF ConnectOk, ConnectFail, RetryOver
  <1>7. CASE PopCommand \/ Drained \/ ReadApplyPublish
    BY <1>7 DEF PopCommand, Drained, ReadApplyPublish
  <1>8. CASE Lock
    BY <1>8 DEF Lock
  <1>9. CASE PredTrue
    BY <1>9 DEF PredTrue, AfterWait
  <1>10. CASE PredFalse
    BY <1>10 DEF PredFalse, LooksEmpty
  <1>11. CASE Block
    BY <1>11 DEF Block
  <1>12. CASE Tick
    BY <1>12 DEF Tick
  <1>13. CASE Wake \/ SpuriousWake
    BY <1>13 DEF Wake, SpuriousWake
  <1>14. CASE TimeOut
    BY <1>14 DEF TimeOut, AfterWait
  <1>15. CASE Exit
    BY <1>15 DEF Exit
  <1>16. CASE UNCHANGED vars
    BY <1>16 DEF vars
  <1> QED
    BY <1>1, <1>2, <1>3, <1>4, <1>5, <1>6, <1>7, <1>8, <1>9, <1>10, <1>11, <1>12,
       <1>13, <1>14, <1>15, <1>16
       DEF Next, Main, Compute, Terminated

\* The invariant holds in every reachable state; fairness is not needed.
LEMMA Invariance == Spec => []Inv
  <1>1. Inv /\ [Next]_vars => Inv'
    BY NextTypeOK, NextSafe DEF Inv
  <1> QED
    BY InitInv, <1>1, PTL DEF Spec

\* The queue never overflows its ring, the reconnect counter stays within
\* MODBUS_MAX_RETRIES and the observed command within the queue.
THEOREM TypeCorrect == Spec => []TypeOK
  BY Invariance, PTL DEF Inv

\* The control thread never sleeps through a queued command or a stop.
THEOREM WakeupsKept == Spec => []NoLostWakeup
  BY Invariance, PTL DEF Inv

\* The control thread never does Modbus I/O with kick_mutex_ held.
THEOREM KickIsQuick == Spec => []KickNeverWaitsForIO
  <1>1. Inv => KickNeverWaitsForIO
    BY DEF Inv, TypeOK, MutexHolder, KickNeverWaitsForIO
  <1> QED
    BY <1>1, Invariance, PTL
-----------------------------------------------------------------------------
(* How long a wait may last *)

\* Timeouts that the wait under way may have spent before its present one: in
\* the sleep one for each spurious wake-up; in a reconnect wait also one for
\* each command in the queue, whose kick came after the wait began or is
\* still to come, and one for a kick whose command was popped before it.
Restarts ==
    IF site = "sleep" THEN spurious
    ELSE 1 + queue + spurious - (IF mainPc = "pushed" THEN 1 ELSE 0)

\* A notified thread is going to spend the rest of its timeout on a kick.
Due == IF signalled /\ site # "sleep" /\ ~stopRequested THEN 1 ELSE 0

\* With its predicate true the wait is not going to begin again.
Over == IF stopRequested \/ (site = "sleep" /\ kicked) THEN 1 ELSE 0

\* The ticks of a wait are those of the timeouts it began again and those
\* of the present one, and only a kick that makes the predicate of the
\* sleep true can end the sleep's timeout.
WaitAccount ==
    /\ loopPc \notin {"pred", "block", "blocked"} => waited = 0
    /\ loopPc = "pred" => waited <= Ticks * (Restarts + Over)
    /\ loopPc = "block" => waited <= Ticks * Restarts
    /\ loopPc = "blocked" =>
         /\ timer <= Ticks /\ waited <= Ticks * (Restarts - Due) + timer
         /\ site = "sleep" /\ signalled => kicked

\* More timeouts take no less time.
LEMMA MoreTimeouts ==
    ASSUME NEW t \in Nat, NEW a \in Int, NEW b \in Int, a <= b
    PROVE  t * a \in Int /\ t * b \in Int /\ t * a <= t * b
  <1>1. t * b = t * a + t * (b - a)
    BY Z3T(30)
  <1>2. b - a \in Nat
    OBVIOUS
  <1>3. t * (b - a) \in Nat
    BY <1>2, Z3T(30)
  <1> QED
    BY <1>1, <1>3

\* One timeout more takes a timeout longer.
LEMMA OneTimeoutMore ==
    ASSUME NEW t \in Nat, NEW a \in Int
    PROVE  t * a \in Int /\ t * (a + 1) = t * a + t
  BY Z3T(30)

\* The terms of the account are integers.
LEMMA AccountTypes ==
    ASSUME TypeOK
    PROVE  Ticks \in Nat /\ Restarts \in Int /\ Due \in {0, 1} /\ Over \in {0, 1}
  BY ControlThreadAssumption DEF TypeOK, Ticks, Restarts, Due, Over

\* A wait that no step of the control thread touches keeps its account: the
\* main thread may add to the queue, kick or request the stop.
LEMMA AccountKept ==
    ASSUME TypeOK, TypeOK', WaitAccount,
           UNCHANGED <<loopPc, site, timer, waited>>,
           Restarts <= Restarts', Restarts - Due <= Restarts' - Due', Over <= Over',
           (loopPc = "blocked" /\ site = "sleep" /\ signalled => kicked)'
    PROVE  WaitAccount'
  <1> DEFINE T == Ticks
             R == Restarts
             Q == Restarts'
             D == Due
             E == Due'
             O == Over
             P == Over'
  <1>1. T \in Nat /\ R \in Int /\ D \in Int /\ O \in Int
    BY AccountTypes
  <1>2. Q \in Int /\ E \in Int /\ P \in Int
    BY ControlThreadAssumption DEF TypeOK, Restarts, Due, Over
  <1>3. Ticks' = T
    BY DEF Ticks
  <1>4. waited \in Int /\ timer \in Int
    BY DEF TypeOK
  <1> HIDE DEF T, R, Q, D, E, O, P
  <1>5. /\ R <= Q /\ R - D <= Q - E /\ O <= P
    BY DEF R, Q, D, E, O, P
  <1>6. T * R <= T * Q /\ T * R \in Int /\ T * Q \in Int
    BY <1>1, <1>2, <1>5, MoreTimeouts
  <1>7. T * (R - D) <= T * (Q - E) /\ T * (R - D) \in Int /\ T * (Q - E) \in Int
    BY <1>1, <1>2, <1>5, MoreTimeouts
  <1>8. T * (R + O) <= T * (Q + P) /\ T * (R + O) \in Int /\ T * (Q + P) \in Int
    <2>1. R + O \in Int /\ Q + P \in Int /\ R + O <= Q + P
      BY <1>1, <1>2, <1>5
    <2> QED
      BY <1>1, <2>1, MoreTimeouts
  <1>9. /\ loopPc = "pred" => waited <= T * (R + O)
        /\ loopPc = "block" => waited <= T * R
        /\ loopPc = "blocked" => timer <= T /\ waited <= T * (R - D) + timer
    BY DEF WaitAccount, T, R, O, D
  <1>10. /\ loopPc = "pred" => waited <= T * (Q + P)
         /\ loopPc = "block" => waited <= T * Q
         /\ loopPc = "blocked" => timer <= T /\ waited <= T * (Q - E) + timer
    BY <1>4, <1>6, <1>7, <1>8, <1>9
  <1>11. loopPc \notin {"pred", "block", "blocked"} => waited = 0
    BY DEF WaitAccount
  <1> QED
    BY <1>3, <1>10, <1>11 DEF WaitAccount, T, Q, P, E

\* The main thread keeps the account: a push adds a kick to come, a kick
\* uses one up, the stop makes the predicate true.
LEMMA MainKeepsAccount == Inv /\ Inv' /\ WaitAccount /\ Main => WaitAccount'
  <1> SUFFICES ASSUME Inv, Inv', WaitAccount, Main
               PROVE  WaitAccount'
    OBVIOUS
  <1> USE DEF waitVars
  <1>1. TypeOK /\ TypeOK'
    BY DEF Inv
  <1>2. UNCHANGED <<loopPc, site, timer, waited, spurious>>
    BY DEF Main, HandleRequest, KickAfterPush, Stop, KickOnStop, Join, Notify
  <1>3. Restarts <= Restarts' /\ Restarts - Due <= Restarts' - Due' /\ Over <= Over'
    <2>1. CASE HandleRequest
      <3>1. UNCHANGED <<stopRequested, kicked, signalled>> /\ mainPc = "serve"
        BY <2>1 DEF HandleRequest
      <3>2. \/ queue' = queue + 1 /\ mainPc' = "pushed"
            \/ UNCHANGED <<queue, mainPc>>
        BY <2>1 DEF HandleRequest
      <3>3. Due' = Due /\ Over' = Over
        BY <1>2, <3>1 DEF Due, Over
      <3>4. queue \in Int /\ spurious \in Int
        BY <1>1 DEF TypeOK
      <3>5. Restarts' = Restarts
        BY <1>2, <3>1, <3>2, <3>4 DEF Restarts
      <3>6. Restarts \in Int /\ Due \in Int /\ Over \in Int
        BY <1>1, AccountTypes
      <3> QED
        BY <3>3, <3>5, <3>6
    <2>2. CASE KickAfterPush
      BY <1>1, <1>2, <2>2 DEF KickAfterPush, Notify, TypeOK, Restarts, Due, Over
    <2>3. CASE Stop
      BY <1>1, <1>2, <2>3 DEF Stop, TypeOK, Restarts, Due, Over
    <2>4. CASE KickOnStop
      <3>1. stopRequested
        BY <2>4 DEF KickOnStop, Inv, StopUnderWay
      <3> QED
        BY <1>1, <1>2, <2>4, <3>1 DEF KickOnStop, Notify, TypeOK, Restarts, Due, Over
    <2>5. CASE Join
      BY <1>1, <1>2, <2>5 DEF Join, TypeOK, Restarts, Due, Over
    <2> QED
      BY <2>1, <2>2, <2>3, <2>4, <2>5 DEF Main
  <1>4. (loopPc = "blocked" /\ site = "sleep" /\ signalled => kicked)'
    BY <1>2 DEF WaitAccount, Main, HandleRequest, KickAfterPush, Stop, KickOnStop, Join,
                Notify
  <1> QED
    BY <1>1, <1>2, <1>3, <1>4, AccountKept
\* The control thread's own steps keep the account: a wait begins with
\* nothing spent, a wake-up settles the timeout it ends, and a wait that is
\* over forgets its ticks.
LEMMA LoopKeepsAccount ==
    Inv /\ Inv' /\ WaitAccount /\ [Compute \/ Tick \/ SpuriousWake \/ TimeOut]_vars
        => WaitAccount'
  <1> SUFFICES ASSUME Inv, Inv', WaitAccount,
                      [Compute \/ Tick \/ SpuriousWake \/ TimeOut]_vars
               PROVE  WaitAccount'
    OBVIOUS
  <1> USE DEF mainVars, waitVars
  <1> DEFINE T == Ticks
             R == Restarts
             D == Due
             O == Over
  <1>1. /\ T \in Nat /\ R \in Int /\ D \in {0, 1} /\ O \in {0, 1}
        /\ waited \in Nat /\ timer \in Nat
    BY AccountTypes DEF Inv, TypeOK
  <1>2. T * R \in Int /\ T * (R + 1) = T * R + T
    BY <1>1, OneTimeoutMore
  <1>3. T * (R - 1) \in Int /\ T * R = T * (R - 1) + T
    <2>1. R - 1 \in Int /\ (R - 1) + 1 = R
      BY <1>1
    <2> QED
      BY <1>1, <2>1, OneTimeoutMore
  <1>4. CASE FirstRead \/ Check \/ ConnectOk \/ ConnectFail \/ RetryOver \/ PopCommand
             \/ Drained \/ ReadApplyPublish \/ Exit
    BY <1>4 DEF WaitAccount, FirstRead, Check, ConnectOk, ConnectFail, RetryOver, PopCommand,
                Drained, ReadApplyPublish, Exit
  <1>5. CASE Lock
    <2>1. /\ loopPc' = "pred" /\ waited' = 0
          /\ Ticks' = T /\ Restarts' = R /\ (Over' = 0 \/ Over' = 1)
      BY <1>5 DEF Lock, WaitAccount, Ticks, Restarts, Over
    <2>2. 0 <= R
      BY DEF Inv, TypeOK, Restarts
    <2>3. 0 <= T * (R + 0) /\ 0 <= T * (R + 1)
      <3>1. T * 0 <= T * (R + 0) /\ T * 0 <= T * (R + 1)
        BY <1>1, <2>2, MoreTimeouts
      <3>2. T * 0 = 0
        BY <1>1, Z3T(30)
      <3> QED
        BY <3>1, <3>2
    <2> QED
      BY <2>1, <2>3 DEF WaitAccount
  <1>6. CASE PredTrue \/ TimeOut
    BY <1>6 DEF WaitAccount, PredTrue, TimeOut, AfterWait
  <1>7. CASE PredFalse
    <2>1. /\ loopPc = "pred" /\ loopPc' = "block" /\ Over = 0
          /\ Ticks' = T /\ Restarts' = R /\ waited' = waited
      BY <1>7 DEF PredFalse, Ticks, Restarts, Over
    <2>2. R + 0 = R
      BY <1>1
    <2>3. waited <= T * R
      BY <2>1, <2>2 DEF WaitAccount
    <2> QED
      BY <2>1, <2>3 DEF WaitAccount
  <1>8. CASE Block
    <2>1. /\ loopPc = "block" /\ loopPc' = "blocked" /\ ~signalled' /\ timer' = 0
          /\ Ticks' = T /\ Restarts' = R /\ waited' = waited
      BY <1>8 DEF Block, Ticks, Restarts
    <2>2. Due' = 0 /\ R - 0 = R
      BY <1>1, <2>1 DEF Due
    <2>3. waited <= T * R + 0
      BY <1>1, <1>2, <2>1 DEF WaitAccount
    <2> QED
      BY <1>1, <2>1, <2>2, <2>3 DEF WaitAccount
  <1>9. CASE Tick
    <2>1. /\ loopPc = "blocked" /\ loopPc' = "blocked" /\ timer < T
          /\ Ticks' = T /\ Restarts' = R /\ Due' = D
          /\ waited' = waited + 1 /\ timer' = timer + 1
          /\ UNCHANGED <<site, signalled, kicked>>
      BY <1>9 DEF Tick, Ticks, Restarts, Due
    <2>2. T * (R - D) \in Int
      BY <1>1, <1>2, <1>3
    <2>3. timer + 1 <= T /\ waited + 1 <= T * (R - D) + (timer + 1)
      BY <1>1, <2>1, <2>2 DEF WaitAccount
    <2> QED
      BY <2>1, <2>3 DEF WaitAccount
  <1>10. CASE Wake
    <2>1. /\ loopPc = "blocked" /\ loopPc' = "pred" /\ signalled
          /\ Ticks' = T /\ Restarts' = R /\ Over' = O /\ waited' = waited
      BY <1>10 DEF Wake, Ticks, Restarts, Over
    <2>2. timer <= T /\ waited <= T * (R - D) + timer
      BY <2>1 DEF WaitAccount
    <2>3. D = 1 \/ (D = 0 /\ O = 1)
      BY <2>1 DEF WaitAccount, Due, Over
    <2>4. waited <= T * (R + O)
      <3>1. CASE D = 1
        <4>1. waited <= T * R
          BY <1>1, <1>2, <1>3, <2>2, <3>1
        <4>2. T * R <= T * (R + O)
          BY <1>1, MoreTimeouts
        <4> QED
          BY <1>1, <4>1, <4>2, <1>2
      <3>2. CASE D = 0 /\ O = 1
        <4>1. R - 0 = R
          BY <1>1
        <4>2. waited <= T * R + T
          BY <1>1, <1>2, <2>2, <3>2, <4>1
        <4> QED
          BY <1>2, <3>2, <4>2
      <3> QED
        BY <2>3, <3>1, <3>2
    <2> QED
      BY <2>1, <2>4 DEF WaitAccount
  <1>11. CASE SpuriousWake
    <2>1. /\ loopPc = "blocked" /\ loopPc' = "pred"
          /\ Ticks' = T /\ Restarts' = R + 1 /\ Over' = O /\ waited' = waited
      BY <1>11 DEF SpuriousWake, Ticks, Restarts, Over, Inv, TypeOK
    <2>2. timer <= T /\ waited <= T * (R - D) + timer
      BY <2>1 DEF WaitAccount
    <2>3. T * (R - D) \in Int /\ T * (R - D) <= T * R
      BY <1>1, MoreTimeouts
    <2>4. waited <= T * (R + 1)
      BY <1>1, <1>2, <2>2, <2>3
    <2>5. T * (R + 1) \in Int /\ T * ((R + 1) + O) \in Int /\ T * (R + 1) <= T * ((R + 1) + O)
      BY <1>1, MoreTimeouts
    <2>6. waited <= T * ((R + 1) + O)
      BY <1>1, <2>4, <2>5
    <2> QED
      BY <2>1, <2>6 DEF WaitAccount
  <1>12. CASE UNCHANGED vars
    BY <1>12 DEF vars, WaitAccount, Ticks, Restarts, Due, Over
  <1> QED
    BY <1>4, <1>5, <1>6, <1>7, <1>8, <1>9, <1>10, <1>11, <1>12 DEF Compute

\* The account bounds the wait: the queue holds at most Room commands.
LEMMA AccountBounds == TypeOK /\ WaitAccount => WaitBounded
  <1> SUFFICES ASSUME TypeOK, WaitAccount
               PROVE  WaitBounded
    OBVIOUS
  <1> DEFINE T == Ticks
             R == Restarts
             M == IF site = "sleep" THEN 1 + MaxSpurious ELSE 2 + Room + MaxSpurious
  <1>1. /\ T \in Nat /\ R \in Int /\ Due \in {0, 1} /\ Over \in {0, 1}
        /\ waited \in Nat /\ timer \in Nat
    BY AccountTypes DEF TypeOK
  <1>2. M \in Nat /\ R + 1 <= M
    BY ControlThreadAssumption DEF TypeOK, Restarts
  <1> HIDE DEF M
  <1>3. T * R \in Int /\ T * (R + 1) = T * R + T
    BY <1>1, OneTimeoutMore
  <1>4. T * (R + 1) \in Int /\ T * M \in Int /\ T * (R + 1) <= T * M
    BY <1>1, <1>2, MoreTimeouts
  <1>5. waited <= T * M
    <2>1. CASE loopPc = "pred"
      <3>1. T * (R + Over) <= T * (R + 1) /\ T * (R + Over) \in Int
        BY <1>1, MoreTimeouts
      <3> QED
        BY <1>1, <1>4, <2>1, <3>1 DEF WaitAccount
    <2>2. CASE loopPc = "block"
      BY <1>1, <1>3, <1>4, <2>2 DEF WaitAccount
    <2>3. CASE loopPc = "blocked"
      <3>1. T * (R - Due) <= T * R /\ T * (R - Due) \in Int
        BY <1>1, MoreTimeouts
      <3> QED
        BY <1>1, <1>3, <1>4, <2>3, <3>1 DEF WaitAccount
    <2>4. CASE loopPc \notin {"pred", "block", "blocked"}
      <3>1. 0 <= T * M
        BY <1>1, <1>2, Z3T(30)
      <3> QED
        BY <2>4, <3>1 DEF WaitAccount
    <2> QED
      BY <2>1, <2>2, <2>3, <2>4
  <1> QED
    BY <1>5 DEF M, WaitBounded, Ticks

\* A wait may be begun again by kicks for commands that it does not carry
\* out, but never for longer than Room + 2 timeouts and the spurious
\* wake-ups'.
THEOREM WaitsEnd == Spec => []WaitBounded
  <1>1. Init => WaitAccount
    BY DEF Init, WaitAccount
  <1>2. Inv /\ Inv' /\ WaitAccount /\ [Next]_vars => WaitAccount'
    BY MainKeepsAccount, LoopKeepsAccount DEF Next, Terminated
  <1>3. Inv /\ WaitAccount => WaitBounded
    BY AccountBounds DEF Inv
  <1> QED
    BY Invariance, <1>1, <1>2, <1>3, PTL DEF Spec
=============================================================================

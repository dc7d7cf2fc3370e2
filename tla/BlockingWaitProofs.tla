------------------------- MODULE BlockingWaitProofs --------------------------
(***************************************************************************)
(* Proofs about the blocking socket calls, for every word width, timeout   *)
(* and duration of a command that WaitAssumption allows.                   *)
(***************************************************************************)
EXTENDS Board, TLAPS

\* The remainder of a uint32_t expression that left the word at most once.
LEMMA Reduced ==
  ASSUME NEW x \in Int, -M <= x, x < 2 * M
  PROVE  U(x) = IF x < 0 THEN x + M ELSE IF x < M THEN x ELSE x - M
<1>1. CASE 0 <= x /\ x < M
  BY <1>1, WordAssumption DEF U
<1>2. CASE x < 0
  BY <1>2, WordAssumption DEF U
<1>3. CASE M <= x
  BY <1>3, WordAssumption DEF U
<1> QED
  BY <1>1, <1>2, <1>3, WordAssumption

\* Conversion to int32_t of what is within half a word of zero.
LEMMA SignedSmall ==
  ASSUME NEW x \in Int, -(M \div 2) <= x, x < M \div 2
  PROVE  Signed(U(x)) = x
<1>1. M \div 2 \in Nat /\ 2 * (M \div 2) = M
  BY WordAssumption
<1>2. U(x) = IF x < 0 THEN x + M ELSE x
  BY <1>1, Reduced, WordAssumption
<1> QED
  BY <1>1, <1>2, WordAssumption DEF Signed

-----------------------------------------------------------------------------
(* The inductive invariant. *)

\* The time a blocking call has lasted is what its two ticks say, and it is
\* less than the word.
Elapsed ==
  waited = IF tick < start_time THEN (M - start_time) + tick ELSE tick - start_time

\* What net_timeout_left_ms forgets when it sees a wrap: the time between the
\* start and the last tick before it.
Lost == IF tick < start_time THEN (M - 1) - start_time ELSE 0

\* At the last check the timeout was not over, but for what was forgotten.
LastCheck == waited - spent <= (Timeout - 1) + Lost

\* A call that met the wrap began shortly before it.
NearWrap == tick < start_time => M - start_time <= (Timeout - 1) + CallBound

IInv ==
  /\ TypeOK
  /\ phase # "out" => Elapsed /\ LastCheck /\ NearWrap

\* What net_timeout_left_ms returns in a blocking call: exact before the wrap,
\* and after it the time from the wrap, less one tick.
LEMMA WhatIsLeft ==
  ASSUME IInv, phase # "out"
  PROVE  net_timeout_left_ms(start_time, tick, Timeout) =
           IF tick < start_time THEN (Timeout - 1) - tick
           ELSE Timeout - (tick - start_time)
<1>1. /\ tick \in Int /\ start_time \in Int /\ M \in Int
      /\ 0 <= tick /\ tick < M /\ 0 <= start_time /\ start_time < M
  BY WordAssumption DEF IInv, TypeOK, Words
<1>2. /\ Timeout \in Int /\ CallBound \in Int
      /\ 0 < Timeout /\ 0 < CallBound /\ 2 * (Timeout + CallBound) <= M
  BY WaitAssumption
<1>3. M \div 2 \in Int /\ 2 * (M \div 2) = M
  BY WordAssumption
<1>4. /\ Elapsed /\ LastCheck
      /\ waited \in Int /\ spent \in Int /\ spent <= CallBound
  BY WaitAssumption, WordAssumption DEF IInv, TypeOK
<1>5. CASE tick >= start_time
  <2>1. tick - start_time <= (Timeout - 1) + CallBound
    BY <1>1, <1>2, <1>4, <1>5 DEF Elapsed, LastCheck, Lost
  <2>2. Signed(U(Timeout - (tick - start_time))) = Timeout - (tick - start_time)
    BY <1>1, <1>2, <1>3, <1>5, <2>1, SignedSmall
  <2>3. 0 - (tick - start_time) + Timeout = Timeout - (tick - start_time)
    BY <1>1, <1>2
  <2> QED
    BY <1>1, <1>5, <2>2, <2>3 DEF net_timeout_left_ms
<1>6. CASE tick < start_time
  <2> DEFINE x == ((M - 1) - start_time) - (tick - start_time) + Timeout
             y == (Timeout - 1) - tick
  <2>1. tick <= (Timeout + CallBound) - 2
    BY <1>1, <1>2, <1>4, <1>6 DEF Elapsed, LastCheck, Lost
  <2>2. x = y + M /\ y \in Int
    BY <1>1, <1>2
  <2>3. Signed(U(y)) = y
    BY <1>1, <1>2, <1>3, <2>1, SignedSmall
  <2>4. U(x) = U(y)
    <3>1. CASE y >= 0
      BY <1>1, <1>2, <2>1, <2>2, <3>1, Reduced
    <3>2. CASE y < 0
      BY <1>1, <1>2, <2>1, <2>2, <3>2, Reduced
    <3> QED
      BY <2>2, <3>1, <3>2
  <2> QED
    BY <1>6, <2>3, <2>4 DEF net_timeout_left_ms
<1> QED
  BY <1>1, <1>5, <1>6

\* The invariant holds at the start.
LEMMA InvInit == Init => IInv
BY WordAssumption, WaitAssumption DEF Init, IInv, TypeOK, Words

\* The invariant implies the bound on a blocking call, and that the time it
\* lasts fits the word.
LEMMA InvBounds ==
  ASSUME IInv
  PROVE  EndsInTime /\ (phase # "out" => waited < M - 1)
<1>1. /\ tick \in Int /\ start_time \in Int /\ M \in Int
      /\ 0 <= tick /\ tick < M /\ 0 <= start_time /\ start_time < M
      /\ Timeout \in Int /\ CallBound \in Int
      /\ 0 < Timeout /\ 0 < CallBound /\ 2 * (Timeout + CallBound) <= M
      /\ waited \in Int /\ spent \in Int /\ spent <= CallBound
  BY WordAssumption, WaitAssumption DEF IInv, TypeOK, Words
<1>2. EndsInTime
  BY <1>1 DEF EndsInTime, Lost, IInv, LastCheck
<1>3. ASSUME phase # "out" PROVE waited < M - 1
  BY <1>1, <1>3 DEF Lost, IInv, LastCheck, NearWrap
<1> QED
  BY <1>2, <1>3

\* Every step keeps the invariant.
LEMMA InvNext == IInv /\ [Next]_vars => IInv'
<1> SUFFICES ASSUME IInv, [Next]_vars PROVE IInv'
  OBVIOUS
<1>1. /\ tick \in Int /\ start_time \in Int /\ M \in Int
      /\ 0 <= tick /\ tick < M /\ 0 <= start_time /\ start_time < M
      /\ Timeout \in Int /\ CallBound \in Int
      /\ 0 < Timeout /\ 0 < CallBound /\ 2 * (Timeout + CallBound) <= M
      /\ waited \in Int /\ 0 <= waited /\ waited <= M
      /\ spent \in Int /\ 0 <= spent /\ spent <= CallBound
  BY WordAssumption, WaitAssumption DEF IInv, TypeOK, Words
<1>2. CASE Begin
  BY <1>1, <1>2
  DEF Begin, IInv, TypeOK, Words, Elapsed, LastCheck, NearWrap, Lost
<1>3. CASE Check
  <2>1. TypeOK'
    BY <1>1, <1>3 DEF Check, Returns, IInv, TypeOK, Words
  <2>2. ASSUME phase' # "out"
        PROVE  Elapsed' /\ LastCheck' /\ NearWrap'
    <3>1. phase # "out" /\ net_timeout_left_ms(start_time, tick, Timeout) > 0
      BY <1>1, <1>3, <2>2, WhatIsLeft DEF Check, Returns
    <3>2. IF tick < start_time THEN (Timeout - 1) - tick > 0
          ELSE Timeout - (tick - start_time) > 0
      BY <3>1, WhatIsLeft
    <3>3. waited <= (Timeout - 1) + Lost
      BY <1>1, <3>1, <3>2 DEF IInv, Elapsed, Lost
    <3>4. UNCHANGED <<tick, start_time, waited>> /\ spent' = 0
      BY <1>3, <2>2 DEF Check, Returns
    <3> QED
      BY <1>1, <3>1, <3>3, <3>4 DEF IInv, Elapsed, LastCheck, NearWrap, Lost
  <2> QED
    BY <2>1, <2>2 DEF IInv
<1>4. CASE CallEmpty
  BY <1>1, <1>4
  DEF CallEmpty, IInv, TypeOK, Elapsed, LastCheck, NearWrap, Lost
<1>5. CASE CallEnds
  BY <1>1, <1>5 DEF CallEnds, Returns, IInv, TypeOK, Words
<1>6. CASE Tick
  <2>1. tick' = (IF tick + 1 < M THEN tick + 1 ELSE 0)
    BY <1>1, <1>6, Reduced DEF Tick
  <2>2. UNCHANGED <<phase, start_time, result>>
    BY <1>6 DEF Tick
  <2>3. CASE phase = "out"
    BY <1>1, <1>6, <2>1, <2>2, <2>3 DEF Tick, IInv, TypeOK, Words
  <2>4. CASE phase # "out"
    <3>1. waited' = waited + 1 /\ spent' = spent + 1 /\ spent < CallBound
      BY <1>1, <1>6, <2>4, InvBounds DEF Tick
    <3>2. waited < M - 1 /\ Elapsed /\ LastCheck /\ NearWrap
      BY <2>4, InvBounds DEF IInv
    <3>3. TypeOK'
      BY <1>1, <2>1, <2>2, <3>1, <3>2 DEF IInv, TypeOK, Words
    <3>4. Elapsed'
      BY <1>1, <2>1, <2>2, <3>1, <3>2 DEF Elapsed
    <3>5. LastCheck'
      BY <1>1, <2>1, <2>2, <3>1, <3>2 DEF LastCheck, Elapsed, Lost
    <3>6. NearWrap'
      BY <1>1, <2>1, <2>2, <3>1, <3>2 DEF NearWrap, LastCheck, Elapsed, Lost
    <3> QED
      BY <3>3, <3>4, <3>5, <3>6 DEF IInv
  <2> QED
    BY <2>3, <2>4
<1>7. CASE UNCHANGED vars
  BY <1>7 DEF vars, IInv, TypeOK, Elapsed, LastCheck, NearWrap, Lost
<1> QED
  BY <1>2, <1>3, <1>4, <1>5, <1>6, <1>7 DEF Next

\* The invariant holds in every state.
THEOREM Invariance == Spec => []IInv
BY InvInit, InvNext, PTL DEF Spec

\* The variables have their types.
THEOREM TypeCorrect == Spec => []TypeOK
<1>1. IInv => TypeOK
  BY DEF IInv
<1> QED
  BY <1>1, Invariance, PTL

\* A blocking socket call in which the tick has not wrapped outlives its timeout
\* by at most one command.
THEOREM EndsInTimeAlways == Spec => []EndsInTime
<1>1. IInv => EndsInTime
  BY InvBounds
<1> QED
  BY <1>1, Invariance, PTL

\* A blocking socket call never reports a timeout before it is over, whether
\* the tick wrapped or not.
THEOREM NeverEarlyAlways == Spec => NeverEarly
<1> DEFINE Step == result' = "timeout" /\ phase = "check" /\ phase' = "out"
                     => waited >= Timeout
<1>1. IInv /\ [Next]_vars => [Step]_vars
  <2> SUFFICES ASSUME IInv, Next, phase = "check", phase' = "out"
               PROVE  waited >= Timeout
    OBVIOUS
  <2>1. Check
    BY DEF Next, Begin, CallEmpty, CallEnds, Tick
  <2>2. phase # "out" /\ net_timeout_left_ms(start_time, tick, Timeout) <= 0
    BY <2>1 DEF Check
  <2>3. IF tick < start_time THEN (Timeout - 1) - tick <= 0
        ELSE Timeout - (tick - start_time) <= 0
    BY <2>2, WhatIsLeft
  <2> QED
    BY <2>2, <2>3, WordAssumption, WaitAssumption DEF IInv, TypeOK, Words, Elapsed
<1> QED
  BY <1>1, Invariance, PTL DEF Spec, NeverEarly

-----------------------------------------------------------------------------
(* The board. *)

\* The blocking calls and the timers of one board, which share its tick, each
\* behave as alone: what is proved of them holds of the board.
THEOREM BoardHasBoth == BoardSpec => Spec /\ TimerSpec
<1>1. BoardInit => Init /\ TimerInit
  BY DEF BoardInit
<1>2. [BoardNext]_boardVars => [Next]_vars /\ [TimerNext]_timerVars
  BY DEF BoardNext, SocketCall, BetweenCalls, SysTick, Next, TimerNext, boardVars,
         callVars, ownVars, vars, timerVars, Begin, Check, CallEmpty, CallEnds,
         TimerCountdownMS, TimerLeftMS
<1> QED
  BY <1>1, <1>2, PTL DEF BoardSpec, Spec, TimerSpec

=============================================================================

--------------------------- MODULE PahoTimerProofs ---------------------------
(***************************************************************************)
(* Proofs about the timers of the MQTT client, for every word width, set   *)
(* of periods and life of a timer that TimerAssumption allows.             *)
(***************************************************************************)
EXTENDS PahoTimer, TLAPS

\* The remainder of a uint32_t expression that left the word at most once.
LEMMA Reduced ==
  ASSUME NEW x \in Int, -M <= x, x < 2 * M
  PROVE  U(x) = IF x < 0 THEN x + M ELSE IF x < M THEN x ELSE x - M
<1>1. CASE 0 <= x /\ x < M
  BY <1>1, WordAssumption DEF U
<1>2. CASE x < 0
  BY <1>2, WordAssumption DEF U
<1>3. CASE M <= x
  BY <1>3, WordAssumption DEF U
<1> QED
  BY <1>1, <1>2, <1>3, WordAssumption

\* Conversion to int32_t of what is within half a word of zero.
LEMMA SignedSmall ==
  ASSUME NEW x \in Int, -(M \div 2) <= x, x < M \div 2
  PROVE  Signed(U(x)) = x
<1>1. M \div 2 \in Nat /\ 2 * (M \div 2) = M
  BY WordAssumption
<1>2. U(x) = IF x < 0 THEN x + M ELSE x
  BY <1>1, Reduced, WordAssumption
<1> QED
  BY <1>1, <1>2, WordAssumption DEF Signed

Max0(x) == IF x >= 0 THEN x ELSE 0

\* A running timer no reading has rewritten yet, and its last reading.
Original ==
  /\ timer.timeout_ms = due
  /\ age = IF tick < timer.init_tick THEN (M - timer.init_tick) + tick
           ELSE tick - timer.init_tick
  /\ reading.left = Max0(due - reading.age)
  /\ tick < timer.init_tick => reading.age < age

\* A running timer that was read after the wrap, and its last reading.
Rewritten ==
  /\ timer.init_tick = 0
  /\ tick < age
  /\ timer.timeout_ms = U(((due + 1) + tick) - age)
  /\ reading.left = Max0((due + 1) - reading.age)

IInv ==
  /\ TimerTypeOK
  /\ TimerAccurate
  /\ age < MaxAge => reading.age <= age /\ (Original \/ Rewritten)

\* The arithmetic facts the steps rest on.
LEMMA Ranges ==
  ASSUME TimerTypeOK
  PROVE  /\ tick \in Int /\ M \in Int /\ 0 <= tick /\ tick < M
         /\ timer.init_tick \in Int /\ timer.timeout_ms \in Int
         /\ timer = [init_tick |-> timer.init_tick, timeout_ms |-> timer.timeout_ms]
         /\ 0 <= timer.init_tick /\ timer.init_tick < M
         /\ due \in Int /\ 0 <= due /\ due < M \div 2 - 1
         /\ age \in Int /\ 0 <= age /\ age <= MaxAge /\ MaxAge \in Int
         /\ reading.age \in Int /\ 0 <= reading.age /\ reading.left \in Int
         /\ M \div 2 \in Int /\ 2 * (M \div 2) = M /\ MaxAge <= M \div 2
<1>1. M \div 2 \in Int /\ 2 * (M \div 2) = M
  BY WordAssumption
<1> QED
  BY <1>1, WordAssumption, TimerAssumption DEF TimerTypeOK, Words

\* Subtracting from a uint32_t and reducing again is one reduction.
LEMMA Nested ==
  ASSUME NEW x \in Int, NEW y \in Int, -(M \div 2) <= x, x < M, 0 <= y, y < M,
         -(M \div 2) <= x - y, x - y < M \div 2
  PROVE  Signed(U(U(x) - y)) = x - y
<1>1. M \div 2 \in Int /\ 2 * (M \div 2) = M /\ M \in Int /\ M > 0
  BY WordAssumption
<1>2. Signed(U(x - y)) = x - y
  BY SignedSmall
<1>3. CASE 0 <= x
  <2>1. U(x) = x
    BY <1>1, <1>3, Reduced
  <2> QED
    BY <1>2, <2>1
<1>4. CASE x < 0
  <2>1. U(x) = x + M
    BY <1>1, <1>4, Reduced
  <2>2. (x + M) - y = (x - y) + M /\ (x - y) + M \in Int
    BY <1>1
  <2>3. U((x - y) + M) = (x - y) + M
    BY <1>1, <1>4, <2>2, Reduced
  <2>4. U(x - y) = (x - y) + M
    BY <1>1, <1>4, Reduced
  <2> QED
    BY <1>2, <2>1, <2>2, <2>3, <2>4
<1> QED
  BY <1>1, <1>3, <1>4

\* What a reading does to a timer and returns.
LEMMA ReadingIs ==
  ASSUME TimerTypeOK, TimerLeftMS, Original \/ Rewritten
  PROVE  \/ timer' = timer /\ reading'.left = Max0(due - age)
            /\ Original /\ ~(tick < timer.init_tick)
         \/ /\ timer'.init_tick = 0
            /\ timer'.timeout_ms = U(((due + 1) + tick) - age)
            /\ tick < age
            /\ reading'.left = Max0((due + 1) - age)
            /\ Original => reading.age < age
<1> DEFINE x == ((due + 1) + tick) - age
<1>0. age < MaxAge /\ timer' = AfterWrap(timer)
      /\ reading'.left = Max0(Signed(U(timer'.timeout_ms - (tick - timer'.init_tick))))
  BY DEF TimerLeftMS, Max0
<1>1. ASSUME tick < age, timer'.init_tick = 0, timer'.timeout_ms = U(x)
      PROVE  reading'.left = Max0((due + 1) - age)
  <2>1. x \in Int /\ -(M \div 2) <= x /\ x < M
    BY <1>1, Ranges
  <2>2. x - tick = (due + 1) - age
        /\ -(M \div 2) <= x - tick /\ x - tick < M \div 2
    BY Ranges, TimerAssumption
  <2>3. Signed(U(U(x) - tick)) = x - tick
    BY <2>1, <2>2, Ranges, Nested
  <2>4. tick - timer'.init_tick = tick
    BY <1>1, Ranges
  <2> QED
    BY <1>0, <1>1, <2>2, <2>3, <2>4
<1>2. CASE Original /\ tick < timer.init_tick
  <2>1. timer' = [init_tick |-> 0,
                  timeout_ms |-> U(timer.timeout_ms - ((M - 1) - timer.init_tick))]
    BY <1>0, <1>2 DEF AfterWrap
  <2>2. timer.timeout_ms - ((M - 1) - timer.init_tick) = x /\ tick < age
    BY <1>2, Ranges DEF Original
  <2>3. timer'.init_tick = 0 /\ timer'.timeout_ms = U(x)
    BY <2>1, <2>2
  <2> QED
    BY <1>1, <1>2, <2>2, <2>3 DEF Original
<1>3. CASE Original /\ ~(tick < timer.init_tick)
  <2>1. timer' = timer /\ timer.timeout_ms = due /\ age = tick - timer.init_tick
    BY <1>0, <1>3 DEF AfterWrap, Original
  <2>2. Signed(U(due - age)) = due - age
    BY Ranges, SignedSmall
  <2> QED
    BY <1>0, <1>3, <2>1, <2>2
<1>4. CASE Rewritten
  <2>1. timer' = timer /\ ~Original
    BY <1>0, <1>4, Ranges DEF AfterWrap, Original, Rewritten
  <2> QED
    BY <1>1, <1>4, <2>1 DEF Rewritten
<1> QED
  BY <1>2, <1>3, <1>4

-----------------------------------------------------------------------------
\* The invariant holds at the start.
LEMMA InvInit == TimerInit => IInv
BY WordAssumption, TimerAssumption DEF TimerInit, IInv, TimerTypeOK, TimerAccurate, Words

\* Starting the timer anew establishes the invariant.
LEMMA CountdownKeeps ==
  ASSUME IInv, NEW t \in Timeouts, TimerCountdownMS(t)
  PROVE  IInv'
<1>1. t \in Int /\ 0 <= t /\ t < M \div 2 /\ M \div 2 < M
  BY TimerAssumption, Ranges DEF IInv
<1>2. timer' = [init_tick |-> tick, timeout_ms |-> t] /\ age' = 0 /\ due' = t
      /\ reading' = [left |-> t, age |-> 0] /\ tick' = tick
  BY DEF TimerCountdownMS
<1>3. TimerTypeOK'
  BY <1>1, <1>2, Ranges, TimerAssumption DEF IInv, TimerTypeOK, Words
<1>4. TimerAccurate'
  BY <1>1, <1>2 DEF TimerAccurate
<1>5. reading'.age <= age' /\ Original'
  BY <1>1, <1>2, Ranges DEF IInv, Original, Max0
<1> QED
  BY <1>3, <1>4, <1>5 DEF IInv

\* Reading the timer keeps the invariant.
LEMMA ReadingKeeps ==
  ASSUME IInv, TimerLeftMS
  PROVE  IInv'
<1>1. TimerTypeOK /\ age < MaxAge /\ (Original \/ Rewritten)
  BY DEF IInv, TimerLeftMS
<1>2. UNCHANGED <<tick, age, due>> /\ reading'.age = age
      /\ timer' = AfterWrap(timer)
  BY DEF TimerLeftMS
<1>3. reading' = [left |-> reading'.left, age |-> age]
  BY DEF TimerLeftMS
<1>4. timer' \in [init_tick : Words, timeout_ms : Words]
  <2>1. \A x \in Int : U(x) \in Words
    BY WordAssumption DEF U, Words
  <2>2. timer.timeout_ms - ((M - 1) - timer.init_tick) \in Int /\ 0 \in Words
    BY <1>1, Ranges DEF Words
  <2> QED
    BY <1>1, <1>2, <2>1, <2>2 DEF AfterWrap, TimerTypeOK
<1>5. reading'.left \in {Max0(due - age), Max0((due + 1) - age)}
  BY <1>1, ReadingIs
<1>6. TimerTypeOK'
  <2>1. reading'.left \in Words
    BY <1>1, <1>5, Ranges DEF Max0, Words
  <2> QED
    BY <1>1, <1>2, <1>3, <1>4, <2>1 DEF TimerTypeOK
<1>7. TimerAccurate'
  BY <1>1, <1>2, <1>5, Ranges DEF TimerAccurate, Max0
<1>8. Original' \/ Rewritten'
  BY <1>1, <1>2, ReadingIs DEF Original, Rewritten
<1> QED
  BY <1>1, <1>2, <1>6, <1>7, <1>8, Ranges DEF IInv

\* The tick interrupt keeps the invariant.
LEMMA TickKeeps ==
  ASSUME IInv, TimerTick
  PROVE  IInv'
<1>1. TimerTypeOK /\ TimerAccurate
  BY DEF IInv
<1>2. UNCHANGED <<timer, due, reading>>
      /\ age' = (IF age < MaxAge THEN age + 1 ELSE age)
  BY DEF TimerTick
<1>3. tick' = (IF tick + 1 < M THEN tick + 1 ELSE 0)
  BY <1>1, Ranges, Reduced DEF TimerTick
<1>4. TimerTypeOK' /\ TimerAccurate'
  BY <1>1, <1>2, <1>3, Ranges DEF TimerTypeOK, TimerAccurate, Words
<1>5. ASSUME age' < MaxAge
      PROVE  reading'.age <= age' /\ (Original' \/ Rewritten')
  <2>1. age < MaxAge /\ age' = age + 1 /\ reading.age <= age
        /\ (Original \/ Rewritten)
    BY <1>1, <1>2, <1>5, Ranges DEF IInv
  <2>2. CASE Original
    BY <1>1, <1>2, <1>3, <1>5, <2>1, <2>2, Ranges DEF Original
  <2>3. CASE Rewritten
    <3>1. tick' = tick + 1
      BY <1>1, <1>3, <2>1, <2>3, Ranges DEF Rewritten
    <3>2. ((due + 1) + tick') - age' = ((due + 1) + tick) - age
      BY <1>1, <2>1, <3>1, Ranges
    <3> QED
      BY <1>1, <1>2, <2>1, <2>3, <3>1, <3>2, Ranges DEF Rewritten
  <2> QED
    BY <1>1, <1>2, <2>1, <2>2, <2>3, Ranges
<1> QED
  BY <1>4, <1>5 DEF IInv

\* Every step keeps the invariant.
LEMMA InvNext == IInv /\ [TimerNext]_timerVars => IInv'
<1> SUFFICES ASSUME IInv, [TimerNext]_timerVars PROVE IInv'
  OBVIOUS
<1>1. CASE UNCHANGED timerVars
  BY <1>1 DEF timerVars, IInv, TimerTypeOK, TimerAccurate, Original, Rewritten
<1> QED
  BY <1>1, CountdownKeeps, ReadingKeeps, TickKeeps DEF TimerNext

\* The invariant holds in every state.
THEOREM Invariance == TimerSpec => []IInv
BY InvInit, InvNext, PTL DEF TimerSpec

\* The tick stays a word of the clock, and the timer, its last reading and its
\* age stay in range, whatever sequence of countdowns, readings and ticks.
THEOREM Typing == TimerSpec => []TimerTypeOK
<1>1. IInv => TimerTypeOK
  BY DEF IInv
<1> QED
  BY <1>1, Invariance, PTL

\* A timer of the MQTT client never shows less than what is left and at most
\* one tick more, whatever its period and wherever the tick wraps.
THEOREM Accurate == TimerSpec => []TimerAccurate
<1>1. IInv => TimerAccurate
  BY DEF IInv
<1> QED
  BY <1>1, Invariance, PTL

\* The time left a running timer shows never grows.
THEOREM NeverGrows == TimerSpec => TimerNeverGrows
<1> DEFINE Step == age' # 0 => reading'.left <= reading.left
<1>1. IInv /\ [TimerNext]_timerVars => [Step]_timerVars
  <2> SUFFICES ASSUME IInv, TimerNext, age' # 0
               PROVE  reading'.left <= reading.left
    OBVIOUS
  <2>1. CASE TimerLeftMS
    <3>1. TimerTypeOK /\ (Original \/ Rewritten) /\ reading.age <= age
      BY <2>1 DEF IInv, TimerLeftMS
    <3>2. CASE Original
      <4>1. reading'.left = Max0(due - age)
            \/ (reading'.left = Max0((due + 1) - age) /\ reading.age < age)
        BY <2>1, <3>1, <3>2, ReadingIs
      <4> QED
        BY <3>1, <3>2, <4>1, Ranges DEF Original, Max0
    <3>3. CASE Rewritten
      <4>1. reading'.left \in {Max0(due - age), Max0((due + 1) - age)}
        BY <2>1, <3>1, ReadingIs
      <4> QED
        BY <3>1, <3>3, <4>1, Ranges DEF Rewritten, Max0
    <3> QED
      BY <3>1, <3>2, <3>3
  <2>2. CASE TimerTick
    BY <2>2, Ranges DEF TimerTick, IInv
  <2>3. ~ \E t \in Timeouts : TimerCountdownMS(t)
    BY DEF TimerCountdownMS
  <2> QED
    BY <2>1, <2>2, <2>3 DEF TimerNext
<1> QED
  BY <1>1, Invariance, PTL DEF TimerSpec, TimerNeverGrows

=============================================================================

------------------------------ MODULE PahoTimer ------------------------------
(***************************************************************************)
(* A timer of the MQTT client, paho_timer.c.  Reading it past the wrap of  *)
(* the tick rewrites the timer itself.                                     *)
(***************************************************************************)
EXTENDS Ticks

CONSTANTS
  Timeouts,   \* the periods the MQTT client gives its timers
  MaxAge      \* how long after its start a timer is still read

ASSUME TimerAssumption ==
  /\ 4 <= M
  /\ Timeouts \subseteq 0 .. M \div 2 - 2
  /\ MaxAge \in Nat
  /\ 2 * MaxAge <= M

VARIABLES
  timer,    \* the Timer
  age,      \* true time since it was started, up to MaxAge
  due,      \* the period it was started with
  reading   \* the last TimerLeftMS and the age it was taken at

timerVars == <<tick, timer, age, due, reading>>

TimerTypeOK ==
  /\ tick \in Words
  /\ timer \in [init_tick : Words, timeout_ms : Words]
  /\ age \in 0 .. MaxAge
  /\ due \in Timeouts \cup {0}
  /\ reading \in [left : Words, age : 0 .. MaxAge]

TimerCountdownMS(t) ==
  /\ timer' = [init_tick |-> tick, timeout_ms |-> t]
  /\ age' = 0
  /\ due' = t
  /\ reading' = [left |-> t, age |-> 0]
  /\ UNCHANGED tick

\* Mutant of AfterWrap: the part of the period before the wrap is forgotten.
AfterWrapForgets(tm) ==
  IF tick < tm.init_tick THEN [tm EXCEPT !.init_tick = 0] ELSE tm

\* Mutant of AfterWrap: the period is shortened but still begins before.
AfterWrapKeepsInit(tm) ==
  IF tick < tm.init_tick
  THEN [tm EXCEPT !.timeout_ms = U(@ - ((M - 1) - tm.init_tick))]
  ELSE tm

\* Reading a timer past the wrap rewrites it to begin at zero.
AfterWrap(tm) ==
  IF tick < tm.init_tick
  THEN [init_tick |-> 0, timeout_ms |-> U(tm.timeout_ms - ((M - 1) - tm.init_tick))]
  ELSE tm

TimerLeftMS ==
  /\ age < MaxAge
  /\ timer' = AfterWrap(timer)
  /\ LET ret == Signed(U(timer'.timeout_ms - (tick - timer'.init_tick)))
     IN  reading' = [left |-> IF ret >= 0 THEN ret ELSE 0, age |-> age]
  /\ UNCHANGED <<tick, age, due>>

TimerTick ==
  /\ tick' = U(tick + 1)
  /\ age' = IF age < MaxAge THEN age + 1 ELSE age
  /\ UNCHANGED <<timer, due, reading>>

\* TimerInit; no timer is read before its first countdown.
TimerInit ==
  /\ tick \in Words
  /\ timer = [init_tick |-> 0, timeout_ms |-> 0]
  /\ age = MaxAge
  /\ due = 0
  /\ reading = [left |-> 0, age |-> 0]

TimerNext ==
  \/ \E t \in Timeouts : TimerCountdownMS(t)
  \/ TimerLeftMS
  \/ TimerTick

TimerSpec == TimerInit /\ [][TimerNext]_timerVars

-----------------------------------------------------------------------------
(* Properties. *)

\* A timer of the MQTT client never shows less than what is left and at most
\* one tick more, before and after the wrap and however often it was read.
TimerAccurate ==
  LET true == IF due > reading.age THEN due - reading.age ELSE 0
  IN  reading.left \in {true, true + 1}

\* Time left never grows between two readings of a running timer.
TimerNeverGrows ==
  [][age' # 0 => reading'.left <= reading.left]_timerVars

=============================================================================

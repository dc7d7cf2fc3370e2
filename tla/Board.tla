-------------------------------- MODULE Board --------------------------------
(***************************************************************************)
(* The one task of the firmware and the one tick: it looks at the timers   *)
(* of the MQTT client between socket calls, as waitfor of MQTTClient.c     *)
(* does between the rounds of cycle(), and they go on while a call blocks. *)
(***************************************************************************)
EXTENDS BlockingWait, PahoTimer

callVars == <<phase, start_time, result, waited, spent>>
ownVars == <<timer, age, due, reading>>
boardVars == <<tick, callVars, ownVars>>

BoardInit == Init /\ TimerInit

SocketCall == (Begin \/ Check \/ CallEmpty \/ CallEnds) /\ UNCHANGED ownVars

BetweenCalls ==
  /\ phase = "out"
  /\ (\E t \in Timeouts : TimerCountdownMS(t)) \/ TimerLeftMS
  /\ UNCHANGED callVars

SysTick == Tick /\ TimerTick

BoardNext == SocketCall \/ BetweenCalls \/ SysTick

BoardSpec == BoardInit /\ [][BoardNext]_boardVars

\* The tick interrupt keeps coming, and the commands keep returning.
BoardFairSpec ==
  /\ BoardSpec
  /\ WF_boardVars(SysTick)
  /\ WF_boardVars(Check /\ UNCHANGED ownVars)
  /\ WF_boardVars((CallEmpty \/ CallEnds) /\ UNCHANGED ownVars)
=============================================================================

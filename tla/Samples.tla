------------------------------ MODULE Samples ------------------------------
(***************************************************************************)
(* The FSMs of the sample programs (src/src), as the tables their          *)
(* configuration functions build. The constants NbStates and NbEvents of a *)
(* run are those of the sample it takes. Durations are in milliseconds.    *)
(***************************************************************************)
EXTENDS FsmConfig

\* Calls of assignTimeOut( st, dur, st2 ), of assignTransition( st1, ev, st2 ) in order.
WithTimeOuts(c, list) == FoldLeft(LAMBDA t, a : AssignTimeOut(t, a[1], a[2], a[3]), c, list)
WithTransitions(c, list) == FoldLeft(LAMBDA t, a : AssignTransition(t, a[1], a[2], a[3]), c, list)
-----------------------------------------------------------------------------
(* traffic_lights_2 and traffic_lights_3 (traffic_lights_common.hpp). *)

\* NbStates = 6, NbEvents = 3.
TrafficLights ==
  LET st_Init == 0  st_Red == 1  st_Orange == 2  st_Green == 3  st_BlinkOn == 4  st_BlinkOff == 5
      ev_Reset == 0  ev_WarningOn == 1  ev_WarningOff == 2
      timed == WithTimeOuts(EmptyTables,
                 << <<st_Init, 50, st_Red>>, <<st_Green, 800, st_Orange>>,
                    <<st_Red, 1000, st_Green>>, <<st_Orange, 1000, st_Red>>,
                    <<st_BlinkOn, 500, st_BlinkOff>>, <<st_BlinkOff, 500, st_BlinkOn>> >>)
  IN WithTransitions(AssignTransitionFromAll(timed, ev_Reset, st_Init),
       << <<st_Red, ev_WarningOn, st_BlinkOn>>, <<st_Green, ev_WarningOn, st_BlinkOn>>,
          <<st_Orange, ev_WarningOn, st_BlinkOn>>,
          <<st_BlinkOff, ev_WarningOff, st_Red>>, <<st_BlinkOn, ev_WarningOff, st_Red>> >>)

\* The keys a, b and c of the keyboard (q stops the FSM), and the messages the UDP server of
\* traffic_lights_3 answers: one event each. Any other key or message does nothing.
TrafficLightsKeys == {0, 1, 2}
TrafficLightsMessages == {0, 1, 2}

\* traffic_lights_1c, NbStates = 6, NbEvents = 1. Orange is given an AAT after its time-out.
TrafficLights1c ==
  LET st_Init == 0  st_Red == 1  st_Orange == 2  st_Green == 3  st_All == 4  st_PASS == 5
      ev_special == 0
      timed == WithTimeOuts(EmptyTables,
                 << <<st_Init, 200, st_Red>>, <<st_Red, 600, st_Green>>,
                    <<st_Green, 600, st_Orange>>, <<st_Orange, 300, st_Red>> >>)
      inner == AssignInnerTransition(timed, st_Red, ev_special, st_All)
  IN AssignAAT(AssignAAT(inner, st_Orange, st_PASS), st_PASS, st_Red)

\* Its callback activates ev_special on every fifth RED: here, on some of them.
TrafficLights1cCallback ==
  [st \in States |-> {[activate |-> evs, clear |-> {}, stop |-> FALSE] :
                        evs \in IF st = 1 THEN {{}, {0}} ELSE {{}}}]
-----------------------------------------------------------------------------
\* turnstyle_2, NbStates = 3, NbEvents = 3.
Turnstyle2 ==
  LET st_Locked == 0  st_Unlocked == 1  st_error == 2
      ev_Push == 0  ev_Coin == 1  ev_Reset == 2
      coin   == WithTransitions(EmptyTables,
                  << <<st_Locked, ev_Coin, st_Unlocked>>, <<st_Unlocked, ev_Push, st_Locked>>,
                     <<st_Locked, ev_Push, st_Locked>> >>)
      closed == AssignTimeOut(AssignGlobalTimeOut(coin, 6000, st_error), st_Unlocked, 3000, st_Locked)
  IN AssignTransition(closed, st_error, ev_Reset, st_Locked)

\* Its keys p, c and r.
TurnstyleKeys == {0, 1, 2}
-----------------------------------------------------------------------------
\* sample_1b, NbStates = 5, NbEvents = 3: st0 to st3 and st_err, ev_1, ev_2 and ev_inner.
Sample1b ==
  LET st0 == 0  st1 == 1  st2 == 2  st3 == 3  st_err == 4
      ev_1 == 0  ev_2 == 1  ev_inner == 2
      ring == WithTransitions(AssignTimeOut(EmptyTables, st0, 1200, st1),
                << <<st1, ev_1, st2>>, <<st2, ev_1, st3>>, <<st3, ev_1, st1>>,
                   <<st1, ev_2, st_err>>, <<st2, ev_2, st_err>>, <<st3, ev_2, st_err>> >>)
  IN AssignInnerTransition(AssignAAT(ring, st_err, st0), st1, ev_inner, st2)

\* sample_2, NbStates = 4, NbEvents = 0: two FSMs that share the enumerations.
Sample2A ==
  LET stA_1 == 0  stA_2 == 1
  IN WithTimeOuts(EmptyTables, << <<stA_1, 2000, stA_2>>, <<stA_2, 2000, stA_1>> >>)

Sample2B ==
  LET stA_1 == 0  stB_1 == 2  stB_2 == 3
  IN WithTimeOuts(AssignAAT(EmptyTables, stA_1, stB_1),
       << <<stB_1, 800, stB_2>>, <<stB_2, 500, stB_1>> >>)

\* Callbacks that only print.
PrintingCallback == [st \in States |-> {[activate |-> {}, clear |-> {}, stop |-> FALSE]}]
=============================================================================

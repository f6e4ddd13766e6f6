---------------------------- MODULE FsmConfigApi ----------------------------
(***************************************************************************)
(* A program that configures an FSM: any sequence of calls of the          *)
(* configuration functions, before start(), and a second FSM that takes    *)
(* its configuration from the first. A call whose precondition does not    *)
(* hold throws and changes nothing: it is a guard here.                    *)
(*                                                                         *)
(* The program keeps to three conventions of the samples and the manual:   *)
(* an event is used either as an external or as an inner one, matrices are *)
(* assigned before pass-states and inner transitions, and a state has one  *)
(* inner transition per event.                                             *)
(***************************************************************************)
EXTENDS FsmConfig, FsmDot

CONSTANTS InnerNames,   \* the events the program uses as inner ones
          Durations,    \* the durations it assigns
          MaxCalls      \* bound: configuration calls

ASSUME ApiAssumption ==
  InnerNames \subseteq Events /\ Durations \subseteq Nat \ {0} /\ MaxCalls \in Nat

VARIABLES tables,    \* of the FSM being configured
          copied,    \* of the FSM that copies them with assignConfig
          default,   \* _defaultTimerValue, with _defaultTimerUnit
          calls      \* calls so far

vars == <<tables, copied, default, calls>>

\* What a program may write in the matrix of allowed events: "0: ignore event", else handle it.
MatValues == 0 .. 2

ExternalNames == Events \ InnerNames

TypeOK ==
  tables \in Tables /\ copied \in Tables /\ default \in Nat /\ calls \in 0 .. MaxCalls

Init == tables = EmptyTables /\ copied = EmptyTables /\ default = 1 /\ calls = 0
-----------------------------------------------------------------------------
Configure(new) ==
  /\ calls < MaxCalls
  /\ calls' = calls + 1
  /\ tables' = new
  /\ UNCHANGED <<copied, default>>

\* assignTransitionMat, assignEventMat: whole matrices, before any AAT or inner transition.
CallMatrices ==
  /\ tables.innerEvents = {} /\ \A st \in States : ~tables.isPassState[st]
  /\ \/ \E mat \in [Events -> [States -> States]] : Configure(AssignTransitionMat(tables, mat))
     \/ \E mat \in [Events -> [States -> MatValues]] : Configure(AssignEventMat(tables, mat))

CallTransition ==
  \E ev \in ExternalNames, st \in States :
    \/ \E to \in States :
         CanAssignTransition(tables, st) /\ Configure(AssignTransition(tables, st, ev, to))
    \/ Configure(AssignTransitionFromAll(tables, ev, st))

CallAllow ==
  \/ Configure(AllowAllEvents(tables))
  \/ \E ev \in ExternalNames, st \in States, what \in BOOLEAN :
       CanAllowEvent(tables, st, ev) /\ Configure(AllowEvent(tables, st, ev, what))

CallAAT ==
  \E st, to \in States : CanAssignAAT(st, to) /\ Configure(AssignAAT(tables, st, to))

CallInnerTransition ==
  \E iev \in InnerNames :
    \/ \E st, to \in States :
         /\ CanAssignInnerTransition(tables, st) /\ iev \notin InnerEventsOf(tables, st)
         /\ Configure(AssignInnerTransition(tables, st, iev, to))
    \/ \E to \in States :
         /\ \A st \in InnerTargets(tables, iev, to) : iev \notin InnerEventsOf(tables, st)
         /\ Configure(AssignInnerTransitionFromAll(tables, iev, to))

CallDisableInnerTransition ==
  \E iev \in InnerNames, st \in States :
    CanDisableInnerTransition(tables, iev, st) /\ Configure(DisableInnerTransition(tables, iev, st))

CallTimeOut ==
  \E st \in States :
    \/ \E to \in States : \/ Configure(AssignTimeOutDefault(tables, st, to, default))
                          \/ \E dur \in Durations : Configure(AssignTimeOut(tables, st, dur, to))
    \/ \E dur \in Durations \cup {default} : Configure(AssignGlobalTimeOut(tables, dur, st))
    \/ Configure(ClearTimeOut(tables, st))
    \/ Configure(ClearTimeOuts(tables))

CallSetTimerDefault ==
  /\ calls < MaxCalls /\ calls' = calls + 1
  /\ default' \in Durations
  /\ UNCHANGED <<tables, copied>>

CallAssignConfig ==
  /\ calls < MaxCalls /\ calls' = calls + 1
  /\ copied' = AssignConfig(copied, tables)
  /\ UNCHANGED <<tables, default>>

Next ==
  \/ CallMatrices \/ CallTransition \/ CallAllow
  \/ CallAAT \/ CallInnerTransition \/ CallDisableInnerTransition
  \/ CallTimeOut \/ CallSetTimerDefault \/ CallAssignConfig

Spec == Init /\ [][Next]_vars
-----------------------------------------------------------------------------
\* Where an FSM with these tables can go from st, for some activation of inner events.
Exits(c, st) == Successors(c, st, Events) \ {st}

\* doChecking finds every state the FSM can be led to.
ReachableWarningRight ==
  \A st \in States : Exits(tables, st) \cap Unreachable(tables) = {}

\* doChecking calls a dead-end only a state nothing leads away from, in spite of looking
\* at the matrices, and not at the inner transitions that will be taken.
DeadEndWarningRight == \A st \in DeadEnds(tables) : Exits(tables, st) = {}

\* -1 in the allowed-event matrix always has its inner transition in the state's list.
InnerMarksBacked ==
  \A st \in States, ev \in Events :
    tables.allowedMat[ev][st] = -1 => ev \in InnerEventsOf(tables, st)

\* An AAT never leads a pass-state to itself (the check CE_SamePassState that doChecking
\* no longer makes), in a copied configuration either.
PassStateMovesOn ==
  \A c \in {tables, copied} : \A st \in States :
    c.isPassState[st] => c.transitionMat[AatRow][st] # st

\* The inner transitions of the configured FSM can be activated.
ConfiguredEventsRegistered == InnerEventsRegistered(tables)

\* "copy all the configuration": nor do the copied ones need anything more.
CopiedEventsRegistered == InnerEventsRegistered(copied)

\* The moves of the running FSM that the drawing leaves out are those of events that a
\* pass-state handles (it was given them after its AAT). Every time-out, AAT and inner
\* transition is drawn, those of pass-states included, and every event of the other states:
\* the matrices and lists are drawn as the run time reads them, whatever wrote them, in
\* whatever order.
OnlyEventsOfPassStatesUndrawn ==
  \A st \in States :
    LET always == TimeOutSuccessors(tables, st) \cup AatSuccessors(tables, st)
                    \cup InnerSuccessors(tables, st, Events)
        drawn  == IF tables.isPassState[st] THEN always ELSE Successors(tables, st, Events)
    IN \A to \in drawn :
         \E edge \in DrawnEdges(tables, DefaultOptions) : edge.from = st /\ edge.to = to

\* A drawing without the unreachable states has no edge to a node it leaves out: Graphviz
\* would draw that node all the same, without its label.
DrawnEdgesEndOnNodes ==
  LET opt == [DefaultOptions EXCEPT !.showUnreachableStates = FALSE]
  IN \A edge \in DrawnEdges(tables, opt) : {edge.from, edge.to} \subseteq DrawnNodes(tables, opt)
=============================================================================

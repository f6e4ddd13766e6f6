----------------------------- MODULE FsmConfig -----------------------------
(***************************************************************************)
(* The configuration functions of SpagFSM (spaghetti.hpp, 826-1279), as    *)
(* functions from tables to tables. A function that may throw has its      *)
(* precondition beside it, CanX; none changes the tables before it throws. *)
(***************************************************************************)
EXTENDS FsmTables, FiniteSets, SequencesExt

EmptyTables ==
  [ transitionMat  |-> [row \in 0 .. AatRow |-> [st \in States |-> InitialState]],
    allowedMat     |-> [ev \in Events |-> [st \in States |-> 0]],
    timerEvent     |-> [st \in States |->
                         [enabled |-> FALSE, nextState |-> InitialState, duration |-> 0]],
    isPassState    |-> [st \in States |-> FALSE],
    innerTransList |-> [st \in States |-> << >>],
    innerEvents    |-> {} ]
-----------------------------------------------------------------------------
(* External transitions and the matrices. *)

\* Mutant: the matrix replaces the rows of time-outs and AATs too.
AssignTransitionMatWhole(c, mat) == [c EXCEPT !.transitionMat = mat]

\* mat is indexed by event and state; the rows of time-outs and AATs stay as they are.
AssignTransitionMat(c, mat) ==
  [c EXCEPT !.transitionMat = [row \in 0 .. AatRow |-> IF row \in Events THEN mat[row] ELSE @[row]]]

AssignEventMat(c, mat) == [c EXCEPT !.allowedMat = mat]

CanAssignTransition(c, st1) == ~c.isPassState[st1]

AssignTransition(c, st1, ev, st2) ==
  [c EXCEPT !.transitionMat[ev][st1] = st2, !.allowedMat[ev][st1] = 1]

\* From every state but st. The whole row leads to st, the column of st included.
AssignTransitionFromAll(c, ev, st) ==
  [c EXCEPT !.transitionMat[ev] = [i \in States |-> st],
            !.allowedMat[ev] = [i \in States |-> IF i # st THEN 1 ELSE @[i]]]

AllowAllEvents(c) == [c EXCEPT !.allowedMat = [ev \in Events |-> [st \in States |-> 1]]]

HoldsInnerTransition(c, st, ev, dest) ==
  Contains(c.innerTransList[st], [event |-> ev, dest |-> dest])

\* The guard compares the destination of the inner transition with st itself.
CanAllowEvent(c, st, ev) == ~HoldsInnerTransition(c, st, ev, st)

AllowEvent(c, st, ev, what) == [c EXCEPT !.allowedMat[ev][st] = IF what THEN 1 ELSE 0]
-----------------------------------------------------------------------------
(* Pass-states and inner transitions. *)

\* Mutant: the two states are not compared.
CanAssignAnyAAT(st1, st2) == TRUE

CanAssignAAT(st1, st2) == st1 # st2

\* Mutant: the column of the new pass-state stays in the allowed-event matrix.
AssignAATKeepsEvents(c, st1, st2) ==
  [c EXCEPT !.transitionMat[AatRow][st1] = st2,
            !.isPassState[st1] = TRUE,
            !.innerTransList[st1] = << >>,
            !.timerEvent[st1].enabled = FALSE]

AssignAAT(c, st1, st2) ==
  [c EXCEPT !.transitionMat[AatRow][st1] = st2,
            !.allowedMat = [ev \in Events |-> [@[ev] EXCEPT ![st1] = 0]],
            !.isPassState[st1] = TRUE,
            !.innerTransList[st1] = << >>,
            !.timerEvent[st1].enabled = FALSE]

CanAssignInnerTransition(c, st1) == ~c.isPassState[st1]

\* Mutant: the event gets no flag.
AssignInnerTransitionNoFlag(c, st1, iev, st2) ==
  [c EXCEPT !.innerTransList[st1] = Append(@, [event |-> iev, dest |-> st2]),
            !.transitionMat[iev][st1] = st2,
            !.allowedMat[iev][st1] = -1]

AssignInnerTransition(c, st1, iev, st2) ==
  [c EXCEPT !.innerTransList[st1] = Append(@, [event |-> iev, dest |-> st2]),
            !.innerEvents = @ \cup {iev},
            !.transitionMat[iev][st1] = st2,
            !.allowedMat[iev][st1] = -1]

\* The states the overload without a source state adds an inner transition to.
InnerTargets(c, iev, st) == {i \in States \ {st} : ~HoldsInnerTransition(c, i, iev, st)}

AssignInnerTransitionFromAll(c, iev, st) ==
  LET to == InnerTargets(c, iev, st)
  IN [c EXCEPT
        !.innerEvents = @ \cup {iev},
        !.innerTransList = [i \in States |->
           IF i \in to THEN Append(@[i], [event |-> iev, dest |-> st]) ELSE @[i]],
        !.transitionMat[iev] = [i \in States |-> IF i \in to THEN st ELSE @[i]],
        !.allowedMat[iev] = [i \in States |-> IF i \in to THEN -1 ELSE @[i]]]

CanDisableInnerTransition(c, ev, st) == ev \in InnerEventsOf(c, st)

\* Mutant: the transition stays in the list.
DisableInnerInMatrixOnly(c, ev, st) == [c EXCEPT !.allowedMat[ev][st] = 0]

DisableInnerTransition(c, ev, st) ==
  [c EXCEPT !.innerTransList[st] = RemoveFirstMatch(@, LAMBDA t : t.event = ev),
            !.allowedMat[ev][st] = 0]
-----------------------------------------------------------------------------
(* Time-outs. A duration is a value with its unit; `default` is the FSM's default one. *)

AssignTimeOut(c, st, dur, next) ==
  [c EXCEPT !.timerEvent[st] = [enabled |-> TRUE, nextState |-> next, duration |-> dur]]

\* Without a duration: the one already assigned is retained.
AssignTimeOutDefault(c, st, next, default) ==
  IF Timed(c, st) THEN [c EXCEPT !.timerEvent[st].nextState = next]
                  ELSE AssignTimeOut(c, st, default, next)

\* On every state but final and the pass-states.
AssignGlobalTimeOut(c, dur, final) ==
  [c EXCEPT !.timerEvent = [st \in States |->
     IF st # final /\ ~c.isPassState[st]
     THEN [enabled |-> TRUE, nextState |-> final, duration |-> dur] ELSE @[st]]]

ClearTimeOut(c, st) == [c EXCEPT !.timerEvent[st].enabled = FALSE]

ClearTimeOuts(c) ==
  [c EXCEPT !.timerEvent = [st \in States |-> [@[st] EXCEPT !.enabled = FALSE]]]

\* timeOutDuration(), what timerStart sets the timer to.
TimeOutDuration(c, st) == c.timerEvent[st].duration
-----------------------------------------------------------------------------
\* The matrices and the states are copied from the other FSM, _innerEventFlag is not.
AssignConfig(c, from) == [from EXCEPT !.innerEvents = c.innerEvents]
=============================================================================

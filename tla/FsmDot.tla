------------------------------- MODULE FsmDot -------------------------------
(***************************************************************************)
(* The graph that writeDotFile (spaghetti.hpp, 2335-2456) draws of an FSM: *)
(* its nodes, and its edges with what they are labelled with. Shapes,      *)
(* colours and the text of the labels are left out, and so are the options *)
(* of DotFileOptions that only change them.                                *)
(***************************************************************************)
EXTENDS FsmTables

DotFileOptions == [showTimeOuts : BOOLEAN, showInnerEvents : BOOLEAN, showAAT : BOOLEAN,
                   showUnreachableStates : BOOLEAN]

DefaultOptions == [opt \in {"showTimeOuts", "showInnerEvents", "showAAT", "showUnreachableStates"}
                     |-> TRUE]

\* The initial state is one like the others: it is left out if nothing leads to it.
DrawnNodes(c, opt) == {st \in States : opt.showUnreachableStates \/ IsReachable(c, st)}

Edge(from, label, to) == [from |-> from, label |-> label, to |-> to]

\* Mutant: a transition to the state itself is not drawn.
ExternalEdgesNoLoop(c, st) ==
  {Edge(st, ev, c.transitionMat[ev][st]) :
     ev \in {e \in Events : c.allowedMat[e][st] = 1 /\ c.transitionMat[e][st] # st
                            /\ ~c.isPassState[st]}}

\* Inner transitions are not drawn with the black edges: their mark is -1.
ExternalEdges(c, st) ==
  {Edge(st, ev, c.transitionMat[ev][st]) :
     ev \in {e \in Events : c.allowedMat[e][st] = 1 /\ ~c.isPassState[st]}}

InnerEdges(c, st) ==
  {Edge(st, c.innerTransList[st][n].event, c.innerTransList[st][n].dest) :
     n \in DOMAIN c.innerTransList[st]}

TimeOutEdges(c, st) ==
  IF Timed(c, st) THEN {Edge(st, TimeOutRow, c.timerEvent[st].nextState)} ELSE {}

AatEdges(c, st) ==
  IF c.isPassState[st] THEN {Edge(st, AatRow, c.transitionMat[AatRow][st])} ELSE {}

DrawnEdges(c, opt) ==
  UNION { ExternalEdges(c, st)
          \cup (IF opt.showTimeOuts THEN TimeOutEdges(c, st) ELSE {})
          \cup (IF opt.showAAT THEN AatEdges(c, st) ELSE {})
          \cup (IF opt.showInnerEvents THEN InnerEdges(c, st) ELSE {})
          : st \in DrawnNodes(c, opt) }
=============================================================================

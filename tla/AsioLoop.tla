------------------------------ MODULE AsioLoop ------------------------------
(***************************************************************************)
(* The event loop behind an FSM: class AsioWrapper (spaghetti.hpp,         *)
(* 2523-2724) and what it uses of boost::asio, a library that is not in    *)
(* the repository: one timer, one signal_set and the handlers that are     *)
(* ready to run.                                                           *)
(*                                                                         *)
(* asio gives no order between ready handlers, so they are kept as flags   *)
(* and counts, not as a queue. What matters of it here:                    *)
(*   - cancelling a wait (cancel_one, expires_after) turns it into a       *)
(*     handler that runs with operation_canceled, but it cannot reach a    *)
(*     wait that has already expired: that handler still runs, with 0;     *)
(*   - a raised SIGUSR1 is counted until an async_wait takes it;           *)
(*   - signal_set::clear restores the default action of the signal, which  *)
(*     ends the process;                                                   *)
(*   - after stop(), run() returns and no handler runs any more. Nothing   *)
(*     in the library calls restart().                                     *)
(***************************************************************************)
EXTENDS Naturals

Loops == [ timerWaits    : BOOLEAN,  \* an async_wait of _asioTimer is pending
           timerExpired  : BOOLEAN,  \* a timerCallback with error code 0 is ready
           timerCanceled : BOOLEAN,  \* timerCallbacks with operation_canceled are ready
           signalSet     : BOOLEAN,  \* _signals holds SPAG_SIGNAL
           signalWaits   : BOOLEAN,  \* an async_wait of _signals is pending
           signalRaised  : Nat,      \* raised signals no async_wait has taken
           signalReady   : BOOLEAN,  \* a signalHandler is ready
           stopped       : BOOLEAN ] \* io_context::stop() has been called

NewLoop == [ timerWaits |-> FALSE, timerExpired |-> FALSE, timerCanceled |-> FALSE,
             signalSet |-> TRUE, signalWaits |-> FALSE, signalRaised |-> 0,
             signalReady |-> FALSE, stopped |-> FALSE ]

SignalPending(l) == l.signalRaised > 0 \/ l.signalReady
-----------------------------------------------------------------------------
(* The operations of AsioWrapper. *)

TimerCancel(l) ==
  IF l.timerWaits
  THEN [l EXCEPT !.timerWaits = FALSE, !.timerCanceled = TRUE]
  ELSE l

\* Mutant: expires_after without async_wait.
TimerStartNoWait(l) == TimerCancel(l)

\* expires_after cancels the waits there are, then async_wait adds one.
TimerStart(l) == [TimerCancel(l) EXCEPT !.timerWaits = TRUE]

\* Mutant: the signal handler is not registered again.
NoWaitSignal(l) == l

AsyncWaitSignal(l) == [l EXCEPT !.signalWaits = TRUE]

RaiseSignal(l) == [l EXCEPT !.signalRaised = @ + 1]

\* Mutant: the loop goes on after kill().
KillSignalsOnly(l) == [l EXCEPT !.signalWaits = FALSE, !.signalSet = FALSE]

\* The handler of a canceled signal wait would run in a stopped loop: it never does.
Kill(l) == [l EXCEPT !.signalWaits = FALSE, !.signalSet = FALSE, !.stopped = TRUE]
-----------------------------------------------------------------------------
(* The loop's own steps (external: io_context::run). *)

\* The reactor collects an expired timer once the handlers of its last pass have run.
CanExpire(l) == ~l.stopped /\ l.timerWaits /\ ~l.timerExpired
Expire(l) == [l EXCEPT !.timerWaits = FALSE, !.timerExpired = TRUE]

CanDeliver(l) == ~l.stopped /\ l.signalWaits /\ l.signalRaised > 0
Deliver(l) == [l EXCEPT !.signalWaits = FALSE, !.signalRaised = @ - 1, !.signalReady = TRUE]

CanRunExpired(l) == ~l.stopped /\ l.timerExpired
TakeExpired(l) == [l EXCEPT !.timerExpired = FALSE]

\* However many canceled waits there are, their handlers do the same.
CanRunCanceled(l) == ~l.stopped /\ l.timerCanceled
TakeCanceled(l) == [l EXCEPT !.timerCanceled = FALSE]

CanRunSignal(l) == ~l.stopped /\ l.signalReady
TakeSignal(l) == [l EXCEPT !.signalReady = FALSE]
=============================================================================

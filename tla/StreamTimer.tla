------------------------------ MODULE StreamTimer ------------------------------
(***************************************************************************)
(* What the three streaming calls of runner/worker.go share: their         *)
(* configuration, the goroutine that ends the call after                   *)
(* streamCallDuration, the cancel channel of capacity 1 it writes to, and  *)
(* the end of the call, which closes doneCh and then cancel.               *)
(*                                                                         *)
(* The timer goroutine and the call are not synchronised between the       *)
(* moment its select takes sct.C and its send on cancel.                   *)
(***************************************************************************)
EXTENDS Integers

CONSTANTS
    Calls,      \* the calls to look at
    MaxMsgs     \* bound on the messages the provider and the server have

ASSUME StreamAssumption ==
    /\ Calls \subseteq
          [kind: {"client", "server", "bidi"},
           duration: BOOLEAN,      \* config.streamCallDuration > 0
           timeout: BOOLEAN,       \* config.timeout > 0
           count: Nat,             \* config.streamCallCount, 0 for no limit
           interval: BOOLEAN,      \* config.streamInterval > 0
           intercept: BOOLEAN]     \* a receive interceptor is configured
    /\ MaxMsgs \in Nat

VARIABLES
    call,       \* the configuration of the call
    pc,         \* the worker, "begin" to "returned"
    timer,      \* "off", "armed", "fired" (about to send on cancel) or "end"
    cancel,     \* len(cancel)
    doneCh,     \* "none", "open" or "closed"
    cancelCh,   \* "none", "open" or "closed"
    panic       \* a send on the closed cancel channel killed the process

timerVars == <<timer, cancel, doneCh, cancelCh, panic>>

TimerInit ==
    /\ call \in Calls /\ pc = "begin"
    /\ timer = "off" /\ cancel = 0 /\ doneCh = "none" /\ cancelCh = "none"
    /\ panic = FALSE

\* InvokeRpc...Stream fails and the call returns, or the channels are made, the
\* timer goroutine started, and the worker goes on at next.
Invoke(next) ==
    /\ pc = "begin"
    /\ \/ pc' = "returned" /\ UNCHANGED timerVars
       \/ /\ pc' = next
          /\ timer' = (IF call.duration THEN "armed" ELSE "off")
          /\ doneCh' = "open" /\ cancelCh' = "open"
          /\ UNCHANGED <<cancel, panic>>
    /\ UNCHANGED call

\* case <-sct.C
TimerFire ==
    /\ timer = "armed"
    /\ timer' = "fired"
    /\ UNCHANGED <<call, pc, cancel, doneCh, cancelCh, panic>>

\* cancel <- struct{}{}
TimerSend ==
    /\ timer = "fired"
    /\ \/ /\ cancelCh = "closed"
          /\ panic' = TRUE /\ UNCHANGED <<timer, cancel>>
       \/ /\ cancelCh = "open" /\ cancel = 0
          /\ cancel' = 1 /\ timer' = "end" /\ panic' = panic
    /\ UNCHANGED <<call, pc, doneCh, cancelCh>>

\* case <-doneCh: sct.Stop() always succeeds, as sct.C was not received.
TimerQuit ==
    /\ timer = "armed" /\ doneCh = "closed"
    /\ timer' = "end"
    /\ UNCHANGED <<call, pc, cancel, doneCh, cancelCh, panic>>

Timer == TimerFire \/ TimerSend \/ TimerQuit

\* A receive from cancel when len(cancel) > 0 was seen by its only receiver.
TakeCancel ==
    /\ cancel = 1 /\ cancel' = 0
    /\ UNCHANGED <<timer, doneCh, cancelCh, panic>>

\* for len(cancel) > 0 { <-cancel }, then the worker goes on at next.
DrainCancel(next) ==
    /\ pc = "drain"
    /\ \/ TakeCancel /\ pc' = pc
       \/ cancel = 0 /\ pc' = next /\ UNCHANGED timerVars
    /\ UNCHANGED call

\* close(doneCh), close(cancel)
CloseChannels ==
    /\ \/ /\ pc = "closeDone" /\ pc' = "closeCancel"
          /\ doneCh' = "closed" /\ UNCHANGED cancelCh
       \/ /\ pc = "closeCancel" /\ pc' = "returned"
          /\ cancelCh' = "closed" /\ UNCHANGED doneCh
    /\ UNCHANGED <<call, timer, cancel, panic>>

Ended == pc = "returned" /\ timer \in {"off", "end"}

TimerTypeOK ==
    /\ call \in Calls
    /\ timer \in {"off", "armed", "fired", "end"}
    /\ cancel \in 0..1
    /\ doneCh \in {"none", "open", "closed"} /\ cancelCh \in {"none", "open", "closed"}
    /\ panic \in BOOLEAN
=============================================================================

----------------------------- MODULE ClientConns -----------------------------
(***************************************************************************)
(* How the client connections are closed (runner/requester.go,             *)
(* closeClientConns, connectionOnState and checkState): by Run at its end, *)
(* by Stop at the same time perhaps, under the requester's lock, one by    *)
(* one, each with a goroutine that watches the connection until it is shut *)
(* down.  The state of a connection is gRPC's (external).                  *)
(***************************************************************************)
EXTENDS Integers, FiniteSets

CONSTANT NConns         \* config.nConns

ASSUME ClientConnsAssumption == NConns \in Nat \ {0}

Conns == 1..NConns
Closers == {"run", "stop"}

VARIABLES
    closer,     \* closeClientConns of each caller: "idle", "lock", "watch",
                \*   "close", "recv" or "done"
    cur,        \* the connection it is at
    conns,      \* b.conns is not nil
    conn,       \* per connection: "connecting", "ready" or "shutdown"
    watcher,    \* its goroutine: "none", "check", "get", "wait", "send" or "end"
    seen,       \* the state the watcher passes to WaitForStateChange
    expired     \* the ten seconds of its context are over

connVars == <<closer, cur, conns, conn, watcher, seen, expired>>

\* What openClientConns leaves.
ConnsOpen ==
    /\ closer = [c \in Closers |-> "idle"] /\ cur = [c \in Closers |-> 1]
    /\ conns = TRUE
    /\ conn = [n \in Conns |-> "connecting"]
    /\ watcher = [n \in Conns |-> "none"]
    /\ seen = [n \in Conns |-> "none"] /\ expired = [n \in Conns |-> FALSE]

LockFree == \A c \in Closers : closer[c] \in {"idle", "lock", "done"}

CloserAt(c, point) == closer' = [closer EXCEPT ![c] = point]
WatcherAt(n, point) == watcher' = [watcher EXCEPT ![n] = point]

-----------------------------------------------------------------------------
(* closeClientConns *)

CallClose(c) ==
    /\ closer[c] = "idle" /\ CloserAt(c, "lock")
    /\ UNCHANGED <<cur, conns, conn, watcher, seen, expired>>

\* Mutant of Lock: whoever comes second closes the connections again.
LockAgain(c) ==
    /\ closer[c] = "lock" /\ LockFree
    /\ CloserAt(c, "watch")
    /\ UNCHANGED <<cur, conns, conn, watcher, seen, expired>>

Lock(c) ==
    /\ closer[c] = "lock" /\ LockFree
    /\ CloserAt(c, IF conns THEN "watch" ELSE "done")
    /\ UNCHANGED <<cur, conns, conn, watcher, seen, expired>>

\* connectionOnState starts the goroutine.
Watch(c) ==
    /\ closer[c] = "watch" /\ CloserAt(c, "close")
    /\ WatcherAt(cur[c], "check")
    /\ UNCHANGED <<cur, conns, conn, seen, expired>>

CloseConn(c) ==
    /\ closer[c] = "close" /\ CloserAt(c, "recv")
    /\ conn' = [conn EXCEPT ![cur[c]] = "shutdown"]
    /\ UNCHANGED <<cur, conns, watcher, seen, expired>>

\* <-shutdownCh meets the watcher's send; the next connection, or b.conns = nil
\* and the lock is released.
ReceiveShutdown(c) ==
    /\ closer[c] = "recv" /\ watcher[cur[c]] = "send"
    /\ WatcherAt(cur[c], "end")
    /\ IF cur[c] < NConns
       THEN /\ CloserAt(c, "watch") /\ cur' = [cur EXCEPT ![c] = @ + 1]
            /\ UNCHANGED conns
       ELSE CloserAt(c, "done") /\ conns' = FALSE /\ UNCHANGED cur
    /\ UNCHANGED <<conn, seen, expired>>

-----------------------------------------------------------------------------
(* The watcher: checkState, GetState, WaitForStateChange, checkState, ... *)

CheckState(n) ==
    /\ watcher[n] = "check"
    /\ WatcherAt(n, IF conn[n] = "shutdown" THEN "send" ELSE "get")
    /\ UNCHANGED <<closer, cur, conns, conn, seen, expired>>

\* If the connection is shut down since it was checked, no change ever follows.
GetState(n) ==
    /\ watcher[n] = "get" /\ WatcherAt(n, "wait")
    /\ seen' = [seen EXCEPT ![n] = conn[n]]
    /\ UNCHANGED <<closer, cur, conns, conn, expired>>

\* Mutant of StateChange: it waits without its context.
StateChangeOnly(n) ==
    /\ watcher[n] = "wait"
    /\ conn[n] # seen[n] /\ WatcherAt(n, "check")
    /\ UNCHANGED <<closer, cur, conns, conn, seen, expired>>

\* It has changed, or the context is done: either way the state is checked again,
\* and the second time the result is sent, whatever it is.
StateChange(n) ==
    /\ watcher[n] = "wait"
    /\ \/ conn[n] # seen[n] /\ WatcherAt(n, "check")
       \/ conn[n] = seen[n] /\ expired[n] /\ WatcherAt(n, "send")
    /\ UNCHANGED <<closer, cur, conns, conn, seen, expired>>

\* Ten seconds.
Expire(n) ==
    /\ watcher[n] \notin {"none", "end"} /\ ~expired[n]
    /\ expired' = [expired EXCEPT ![n] = TRUE]
    /\ UNCHANGED <<closer, cur, conns, conn, watcher, seen>>

Closing == \E c \in Closers : Lock(c) \/ Watch(c) \/ CloseConn(c) \/ ReceiveShutdown(c)
Watching == \E n \in Conns : CheckState(n) \/ GetState(n) \/ StateChange(n) \/ Expire(n)

\* Each goroutine runs on, and the timer of a context fires.
ConnFairness ==
    /\ \A c \in Closers : WF_connVars(Lock(c) \/ Watch(c) \/ CloseConn(c)
                                      \/ ReceiveShutdown(c))
    /\ \A n \in Conns : /\ WF_connVars(CheckState(n) \/ GetState(n) \/ StateChange(n))
                        /\ WF_connVars(Expire(n))
=============================================================================

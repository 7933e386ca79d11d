----------------------------- MODULE CallMetadata -----------------------------
(***************************************************************************)
(* The metadata of concurrent calls: the default provider (runner/data.go, *)
(* mdProvider) and what makeRequest (runner/worker.go) does with the map   *)
(* it is handed a pointer to.                                              *)
(*                                                                         *)
(* A map is a record: the request number its values were computed for      *)
(* (Same when they depend on none), and whether it holds the accepted      *)
(* encoding.  The metadata of a run is                                     *)
(*   "none"    not given, or an empty map                                  *)
(*   "text"    without template actions                                    *)
(*   "action"  with a template action at the top of the template           *)
(*   "branch"  with actions inside {{if}} or {{range}} only                *)
(*   "nil"     made by a provider of the caller's that returns nil         *)
(* External: gRPC reads the map when the call is made.  A write to a Go    *)
(* map that overlaps another access to it is undefined: the runtime may    *)
(* notice it and end the process, or the access may do what it should.     *)
(***************************************************************************)
EXTENDS Integers

CONSTANTS
    Calls,      \* the concurrent calls
    Number      \* their request numbers (CallData.RequestNumber)

VARIABLES
    metadata,   \* config.metadata, as above
    compress,   \* config.enableCompression
    preseed,    \* mdProvider.preseed, NoMap when nil
    step,       \* per call: "metadata", "set", "setting", "ready", "sending", "sent"
    reqMD,      \* per call: "none" yet, "shared" (&preseed), "own" or "nil"
    own,        \* per call: its own map
    crashed     \* "no", or why the process has ended

setting == <<metadata, compress>>
mdVars == <<setting, preseed, step, reqMD, own, crashed>>

Same == -1
NoMap == [value |-> -2, encoding |-> FALSE]
EmptyMap == [value |-> Same, encoding |-> FALSE]

\* executeMetadata for request n.
Executed(n) == [value |-> IF metadata \in {"action", "branch"} THEN n ELSE Same,
                encoding |-> FALSE]

\* hasAction descends into lists only: a branch is not looked into.
HasAction == metadata = "action"

\* newMetadataProvider executes metadata without actions once, for number 0.
MdInit ==
    /\ metadata \in {"none", "text", "action", "branch", "nil"}
    /\ compress \in BOOLEAN
    /\ preseed = IF HasAction \/ metadata \in {"none", "nil"} THEN NoMap ELSE Executed(0)
    /\ step = [c \in Calls |-> "metadata"]
    /\ reqMD = [c \in Calls |-> "none"]
    /\ own = [c \in Calls |-> NoMap]
    /\ crashed = "no"

Goto(c, s) == step' = [step EXCEPT ![c] = s]

\* Mutant of GetMetadata: the first map that is computed is kept for all calls.
GetMetadataOnce(c) ==
    /\ step[c] = "metadata" /\ crashed = "no"
    /\ Goto(c, IF compress THEN "set" ELSE "ready")
    /\ preseed' = IF preseed = NoMap /\ metadata \notin {"none", "nil"}
                  THEN Executed(Number[c]) ELSE preseed
    /\ reqMD' = [reqMD EXCEPT ![c] = IF metadata = "nil" THEN "nil"
                                     ELSE IF preseed' # NoMap THEN "shared" ELSE "own"]
    /\ own' = [own EXCEPT ![c] = IF preseed' = NoMap THEN EmptyMap ELSE @]
    /\ UNCHANGED <<setting, crashed>>

\* getMetadataForCall: a pointer to the one preseeded map, or a map of its own.
GetMetadata(c) ==
    /\ step[c] = "metadata" /\ crashed = "no"
    /\ Goto(c, IF compress THEN "set" ELSE "ready")
    /\ reqMD' = [reqMD EXCEPT ![c] = IF metadata = "nil" THEN "nil"
                                     ELSE IF preseed # NoMap THEN "shared" ELSE "own"]
    /\ own' = [own EXCEPT ![c] = IF preseed = NoMap THEN Executed(Number[c]) ELSE @]
    /\ UNCHANGED <<setting, preseed, crashed>>

\* Another call writes to the map that c uses, or reads it.
OthersWrite(c) == \E d \in Calls \ {c} : reqMD[d] = "shared" /\ step[d] = "setting"
OthersRead(c) == \E d \in Calls \ {c} : reqMD[d] = "shared" /\ step[d] = "sending"

\* The process ends, and nothing else happens.
Crash(why) ==
    /\ crashed' = why
    /\ UNCHANGED <<setting, preseed, step, reqMD, own>>

\* reqMD.Set("grpc-accept-encoding", gzip)
BeginSet(c) ==
    /\ step[c] = "set" /\ crashed = "no"
    /\ \/ reqMD[c] = "nil" /\ Crash("nil")
       \/ reqMD[c] = "shared" /\ (OthersWrite(c) \/ OthersRead(c)) /\ Crash("maps")
       \/ /\ reqMD[c] # "nil"
          /\ Goto(c, "setting")
          /\ UNCHANGED <<setting, preseed, reqMD, own, crashed>>

EndSet(c) ==
    /\ step[c] = "setting" /\ crashed = "no"
    /\ Goto(c, "ready")
    /\ IF reqMD[c] = "shared"
       THEN preseed' = [preseed EXCEPT !.encoding = TRUE] /\ own' = own
       ELSE own' = [own EXCEPT ![c].encoding = TRUE] /\ preseed' = preseed
    /\ UNCHANGED <<setting, reqMD, crashed>>

\* The call is made with the map, which gRPC copies (external).
BeginSend(c) ==
    /\ step[c] = "ready" /\ crashed = "no"
    /\ \/ reqMD[c] = "shared" /\ OthersWrite(c) /\ Crash("maps")
       \/ /\ Goto(c, "sending")
          /\ UNCHANGED <<setting, preseed, reqMD, own, crashed>>

EndSend(c) ==
    /\ step[c] = "sending" /\ crashed = "no"
    /\ Goto(c, "sent")
    /\ own' = [own EXCEPT ![c] = IF reqMD[c] = "shared" THEN preseed ELSE @]
    /\ UNCHANGED <<setting, preseed, reqMD, crashed>>

-----------------------------------------------------------------------------
(* Properties *)

\* A request goes out with the metadata computed for its own number when the
\* template has an action at its top, and with the same for all otherwise (that of
\* number 0 if there are actions hidden in a branch); it asks for compressed
\* answers exactly when compression is on, whoever wrote that into a shared map.
CallGetsItsMetadata ==
    \A c \in Calls : step[c] = "sent" =>
        own[c] = IF metadata = "nil" THEN EmptyMap
                 ELSE [value |-> CASE metadata = "action" -> Number[c]
                                   [] metadata = "branch" -> 0
                                   [] OTHER -> Same,
                       encoding |-> compress]
=============================================================================

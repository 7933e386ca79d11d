----------------------------- MODULE MethodDesc -----------------------------
(***************************************************************************)
(* How the method of a run is found (protodesc/protodesc.go): in a proto   *)
(* file, in the files of a protoset, or by reflection.  A file is a        *)
(* [name, deps, services, messages] record, services a function from names *)
(* to sets of methods; a call is a [dot, service, separator, method]       *)
(* record, of which dot is a leading ".", and the separator is ".", "/",   *)
(* "none", or "many" for a "/" there and others in the service's name.     *)
(* An outcome is "found", "error", or "overflow" for a recursion that does *)
(* not end; where a Go map is ranged over, several outcomes are possible.  *)
(***************************************************************************)
EXTENDS Integers, Sequences, FiniteSets, Functions

\* The files of a lookup, with their imports; the code keeps them by name.
FileList(files) ==
    /\ Len(files) \in Nat \ {0} /\ DOMAIN files = 1..Len(files)
    /\ \A j, k \in DOMAIN files : files[j].name = files[k].name => j = k
    /\ \A k \in DOMAIN files : /\ Len(files[k].deps) \in Nat
                               /\ DOMAIN files[k].deps = 1..Len(files[k].deps)

\* parseServiceMethod: "package.Service.Method" or "package.Service/Method"; it strips
\* a leading ".", so that a call with and without one name the same method.
ValidCall(call) == call.separator \in {".", "/"}

\* Mutant of Resolution: an import that is missing is passed over.
ResolutionLoose(files) ==
    LET Names == {f.name : f \in Range(files)}
        named(n) == CHOOSE f \in Range(files) : f.name = n
        r[depth \in 0..Cardinality(Names) + 1] ==
            [n \in Names |->
                IF depth = 0 THEN "overflow"
                ELSE LET of == {r[depth - 1][d] : d \in Range(named(n).deps) \cap Names}
                     IN  IF "overflow" \in of THEN "overflow" ELSE "found"]
    IN  r[Cardinality(Names) + 1]

\* resolveFileDescriptor of each file, its imports first; the first import that
\* fails fails it, and imports that form a cycle are resolved for ever.  A chain
\* of imports longer than the number of files is a cycle.
Resolution(files) ==
    LET Names == {f.name : f \in Range(files)}
        named(n) == CHOOSE f \in Range(files) : f.name = n
        r[depth \in 0..Cardinality(Names) + 1] ==
            [n \in Names |->
                IF depth = 0 THEN "overflow"
                ELSE LET deps == named(n).deps
                         of(k) == IF deps[k] \in Names THEN r[depth - 1][deps[k]]
                                  ELSE "error"
                         bad == {k \in DOMAIN deps : of(k) # "found"}
                     IN  IF bad = {} THEN "found"
                         ELSE of(CHOOSE k \in bad : \A j \in bad : k <= j)]
    IN  r[Cardinality(Names) + 1]

\* findServiceSymbol: any of the files that have a symbol of that name.
Holders(call, among) ==
    {f \in among : call.service \in DOMAIN f.services \cup f.messages}

\* getMethodDesc
MethodIn(call, among) ==
    LET has(f) == /\ call.service \in DOMAIN f.services
                  /\ call.method \in f.services[call.service]
    IN  IF ~ValidCall(call) \/ Holders(call, among) = {} THEN {"error"}
        ELSE {IF has(f) THEN "found" ELSE "error" : f \in Holders(call, among)}

\* The parser resolves the imports, refuses a cycle, and only the file that was
\* named is searched.
FromProto(call, files) ==
    IF Resolution(files)[files[1].name] # "found" THEN {"error"}
    ELSE MethodIn(call, {files[1]})

\* Every file, in their order in the set, and then any of them.
FromProtoSet(call, files) ==
    LET bad == {k \in DOMAIN files : Resolution(files)[files[k].name] # "found"}
    IN  IF bad = {} THEN MethodIn(call, Range(files))
        ELSE {Resolution(files)[files[CHOOSE k \in bad : \A j \in bad : k <= j].name]}

\* Every "/" is replaced by ".", and the server (external) names a file that has the
\* method of that name.  No name starts with ".", and a leading one is not stripped
\* before the server is asked.
FromReflect(call, files) ==
    LET symbol == [dot |-> call.dot, service |-> call.service, method |-> call.method,
                   separator |-> IF call.separator = "none" THEN "none" ELSE "."]
        answers == {f \in Range(files) : /\ ~call.dot
                                         /\ call.service \in DOMAIN f.services
                                         /\ call.method \in f.services[call.service]}
    IN  IF answers = {} THEN {"error"}
        ELSE UNION {MethodIn(symbol, {f}) : f \in answers}

\* NewRequester: the source by its priority.
MethodDescriptor(source, call, files) ==
    CASE source = "proto"    -> FromProto(call, files)
      [] source = "protoset" -> FromProtoSet(call, files)
      [] source = "reflect"  -> FromReflect(call, files)
=============================================================================

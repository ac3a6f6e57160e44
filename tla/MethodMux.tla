----------------------------- MODULE MethodMux -----------------------------
(***************************************************************************)
(* MethodMux (src/handler.go) for one method: its entry in the sync.Map,   *)
(* the default handler, the operations that change them at any time, and   *)
(* the lookups of Handle, each of which loads the one and then perhaps the *)
(* other.                                                                  *)
(***************************************************************************)
EXTENDS Integers

CONSTANTS
    Lookups,        \* the calls of Handle that may go on at once
    Handlers,       \* the handlers registered for the method
    Defaults,       \* the handlers set as default
    NoHandler,      \* nil, and a method that is not registered
    MaxChanges      \* bound: changes to the mux in one behaviour

ASSUME HandlersAssumption == NoHandler \notin Handlers \cup Defaults
ASSUME ChangesAssumption  == MaxChanges \in Nat

VARIABLES
    mux,            \* the handler of the method
    defaultHandler,
    changes,        \* changes made
    lookup,         \* "idle", "default", "found", "unknown"
    target,         \* the handler found
    seen,           \* history: what mux held during the lookup
    seenDefault     \* history: what defaultHandler held during the lookup

muxVars == <<mux, defaultHandler, changes, lookup, target, seen, seenDefault>>

Loading == {p \in Lookups : lookup[p] = "default"}

\* The server starts with the method registered and a default set.
MuxInit ==
    /\ mux \in Handlers
    /\ defaultHandler \in Defaults
    /\ changes = 0
    /\ lookup = [p \in Lookups |-> "idle"]
    /\ target = [p \in Lookups |-> NoHandler]
    /\ seen = [p \in Lookups |-> {}]
    /\ seenDefault = [p \in Lookups |-> {}]

Change(m, d) ==
    /\ changes < MaxChanges
    /\ <<m, d>> # <<mux, defaultHandler>>
    /\ mux' = m
    /\ defaultHandler' = d
    /\ changes' = changes + 1
    /\ seen' = [p \in Lookups |-> seen[p] \cup IF p \in Loading THEN {m} ELSE {}]
    /\ seenDefault' = [p \in Lookups |->
                        seenDefault[p] \cup IF p \in Loading THEN {d} ELSE {}]
    /\ UNCHANGED <<lookup, target>>

\* LoadOrStore: ErrMethodAlreadyExists changes nothing.
Register(h) == mux = NoHandler /\ Change(h, defaultHandler)

Replace(h) == Change(h, defaultHandler)

Delete == Change(NoHandler, defaultHandler)

SetDefault(h) == Change(mux, h)

\* Handle is called and loads the method's handler.
LoadMethod(p) ==
    /\ lookup' = [lookup EXCEPT ![p] = IF mux = NoHandler THEN "default" ELSE "found"]
    /\ target' = [target EXCEPT ![p] = mux]
    /\ seen' = [seen EXCEPT ![p] = {mux}]
    /\ seenDefault' = [seenDefault EXCEPT ![p] = {defaultHandler}]
    /\ UNCHANGED <<mux, defaultHandler, changes>>

\* Mutant: an unregistered method is unknown at once.
LoadNoDefault(p) ==
    /\ lookup[p] = "default"
    /\ lookup' = [lookup EXCEPT ![p] = "unknown"]
    /\ UNCHANGED <<mux, defaultHandler, changes, target, seen, seenDefault>>

LoadDefault(p) ==
    /\ lookup[p] = "default"
    /\ lookup' = [lookup EXCEPT
                    ![p] = IF defaultHandler = NoHandler THEN "unknown" ELSE "found"]
    /\ target' = [target EXCEPT ![p] = defaultHandler]
    /\ UNCHANGED <<mux, defaultHandler, changes, seen, seenDefault>>

\* The handler has returned, or Handle returns ErrMethodNotFound.
EndLookup(p) ==
    /\ lookup' = [lookup EXCEPT ![p] = "idle"]
    /\ target' = [target EXCEPT ![p] = NoHandler]
    /\ seen' = [seen EXCEPT ![p] = {}]
    /\ seenDefault' = [seenDefault EXCEPT ![p] = {}]
    /\ UNCHANGED <<mux, defaultHandler, changes>>

Administer ==
    \/ Delete
    \/ \E h \in Handlers : Register(h) \/ Replace(h)
    \/ \E h \in Defaults \cup {NoHandler} : SetDefault(h)

-----------------------------------------------------------------------------
(***************************************************************************)
(* Whatever is registered, replaced or deleted meanwhile, a request goes   *)
(* to a handler that was in place while it was looked up: to the default   *)
(* only if the method was once unregistered in that time, and to           *)
(* ErrMethodNotFound only if there was once no default either.  (Not at    *)
(* the same time: the two loads are not one.)                              *)
(***************************************************************************)
RoutedWhileRegistered ==
    \A p \in Lookups :
        /\ lookup[p] = "found" =>
              \/ target[p] \in seen[p]
              \/ NoHandler \in seen[p] /\ target[p] \in seenDefault[p]
        /\ lookup[p] = "unknown" => NoHandler \in seen[p] \cap seenDefault[p]
=============================================================================

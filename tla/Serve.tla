------------------------------- MODULE Serve -------------------------------
(***************************************************************************)
(* Server.Serve (src/server.go): the accept loop over a net.Listener, the  *)
(* goroutine and the RPCServer of each connection, the Binder, and how     *)
(* contexts tie them together.  The RPCServer of a connection is reduced   *)
(* to what RPCServer shows of Run: it serves, it leaves its loop when the  *)
(* input ends, Decode fails or its context is done, and it returns with    *)
(* the connection closed when no handler is active.  A connection stands   *)
(* for one request.                                                        *)
(***************************************************************************)
EXTENDS ServerContext, Integers, FiniteSets

CONSTANT Conns      \* the connections that may be made: the bound

ASSUME ConnsAssumption == IsFiniteSet(Conns)

VARIABLES
    stopped,    \* stop() has been called: sctx is done
    listening,  \* the listener is open
    serve,      \* "accept", "drain" (in the deferred wg.Wait), "returned"
    wg,         \* the counter of the WaitGroup
    conn,       \* the state of each connection
    connStop,   \* the connections whose Binder has called stop
    waits,      \* the connections whose Binder has set WaitOnClose
    peer,       \* the peers that are still there
    broken,     \* the connections whose own codec has failed
    req         \* the request of each connection

vars == <<ctxDone, stopped, listening, serve, wg, conn, connStop, waits,
          peer, broken, req>>

SctxDone == ctxDone \/ stopped
CctxDone(c) == SctxDone \/ c \in connStop

\* The goroutine of the connection exists.
Live == {"spawned", "run", "left"}

Init ==
    /\ ctxDone = FALSE
    /\ stopped = FALSE
    /\ listening = TRUE
    /\ serve = "accept"
    /\ wg = 0
    /\ conn = [c \in Conns |-> "none"]
    /\ connStop = {}
    /\ waits = {}
    /\ peer = Conns
    /\ broken = {}
    /\ req = [c \in Conns |-> "none"]

(***************************************************************************)
(* The caller of Serve and the peers.                                      *)
(***************************************************************************)
Cancel ==
    /\ ~ctxDone
    /\ ctxDone' = TRUE
    /\ UNCHANGED <<stopped, listening, serve, wg, conn, connStop, waits, peer,
                   broken, req>>

Connect(c) ==
    /\ listening
    /\ conn[c] = "none"
    /\ conn' = [conn EXCEPT ![c] = "backlog"]
    /\ UNCHANGED <<ctxDone, stopped, listening, serve, wg, connStop, waits,
                   peer, broken, req>>

PeerLeaves(c) ==
    /\ c \in peer
    /\ conn[c] # "none"
    /\ peer' = peer \ {c}
    /\ UNCHANGED <<ctxDone, stopped, listening, serve, wg, conn, connStop,
                   waits, broken, req>>

(***************************************************************************)
(* Serve.                                                                  *)
(***************************************************************************)

\* The AfterFunc of sctx, in a goroutine that nobody waits for.
CloseListener ==
    /\ SctxDone
    /\ listening
    /\ listening' = FALSE
    /\ UNCHANGED <<ctxDone, stopped, serve, wg, conn, connStop, waits, peer,
                   broken, req>>

\* Mutant: wg.Add is left to the goroutine.
AcceptUncounted(c) ==
    /\ serve = "accept"
    /\ listening
    /\ conn[c] = "backlog"
    /\ conn' = [conn EXCEPT ![c] = "spawned"]
    /\ UNCHANGED <<ctxDone, stopped, listening, serve, wg, connStop, waits,
                   peer, broken, req>>

Accept(c) ==
    /\ serve = "accept"
    /\ listening
    /\ conn[c] = "backlog"
    /\ conn' = [conn EXCEPT ![c] = "spawned"]
    /\ wg' = wg + 1
    /\ UNCHANGED <<ctxDone, stopped, listening, serve, connStop, waits, peer,
                   broken, req>>

\* Mutant: the deferred calls run in the other order.
AcceptFailsNoStop ==
    /\ serve = "accept"
    /\ serve' = "drain"
    /\ UNCHANGED <<ctxDone, stopped, listening, wg, conn, connStop, waits,
                   peer, broken, req>>

\* Any error of Accept, the listener being closed or not, ends the loop; of the
\* deferred calls stop() comes before wg.Wait().
AcceptFails ==
    /\ serve = "accept"
    /\ serve' = "drain"
    /\ stopped' = TRUE
    /\ UNCHANGED <<ctxDone, listening, wg, conn, connStop, waits, peer,
                   broken, req>>

Return ==
    /\ serve = "drain"
    /\ wg = 0
    /\ serve' = "returned"
    /\ UNCHANGED <<ctxDone, stopped, listening, wg, conn, connStop, waits,
                   peer, broken, req>>

(***************************************************************************)
(* The goroutine of a connection.                                          *)
(***************************************************************************)
Bind(c, wait) ==
    /\ conn[c] = "spawned"
    /\ conn' = [conn EXCEPT ![c] = "run"]
    /\ waits' = IF wait THEN waits \cup {c} ELSE waits
    /\ UNCHANGED <<ctxDone, stopped, listening, serve, wg, connStop, peer,
                   broken, req>>

\* Mutant: the Binder is given the stop function of the server.
BinderStopsAll(c) ==
    /\ conn[c] \in Live
    /\ stopped' = TRUE
    /\ UNCHANGED <<ctxDone, listening, serve, wg, conn, connStop, waits, peer,
                   broken, req>>

\* The Binder, or a callback or handler it has installed, calls the stop it was
\* given.
BinderStops(c) ==
    /\ conn[c] \in Live
    /\ connStop' = connStop \cup {c}
    /\ UNCHANGED <<ctxDone, stopped, listening, serve, wg, conn, waits, peer,
                   broken, req>>

Request(c) ==
    /\ conn[c] = "run"
    /\ req[c] = "none"
    /\ req' = [req EXCEPT ![c] = "handling"]
    /\ UNCHANGED <<ctxDone, stopped, listening, serve, wg, conn, connStop,
                   waits, peer, broken>>

Answer(c) ==
    /\ req[c] = "handling"
    /\ c \in peer
    /\ req' = [req EXCEPT ![c] = "answered"]
    /\ UNCHANGED <<ctxDone, stopped, listening, serve, wg, conn, connStop,
                   waits, peer, broken>>

\* The reply fails: the peer has gone, or the context the reply is written with
\* is done (which the Run that leaves its loop ends itself unless it waits).
Lose(c) ==
    /\ req[c] = "handling"
    /\ \/ c \notin peer
       \/ CctxDone(c)
       \/ conn[c] = "left" /\ c \notin waits
    /\ req' = [req EXCEPT ![c] = "lost"]
    /\ UNCHANGED <<ctxDone, stopped, listening, serve, wg, conn, connStop,
                   waits, peer, broken>>

\* Mutant: connections do not run under the context of Serve.
LeaveLoopDetached(c) ==
    /\ conn[c] = "run"
    /\ c \in connStop \/ c \notin peer
    /\ conn' = [conn EXCEPT ![c] = "left"]
    /\ UNCHANGED <<ctxDone, stopped, listening, serve, wg, connStop, waits,
                   peer, broken, req>>

LeaveLoop(c) ==
    /\ conn[c] = "run"
    /\ CctxDone(c) \/ c \notin peer
    /\ conn' = [conn EXCEPT ![c] = "left"]
    /\ UNCHANGED <<ctxDone, stopped, listening, serve, wg, connStop, waits,
                   peer, broken, req>>

\* Decode fails for a reason of the connection's own, its peer still being there:
\* a syntax error (answered with a parse error first), the idle timeout, a message
\* over the limit.  Run leaves its loop.
DecodeFails(c) ==
    /\ conn[c] = "run"
    /\ conn' = [conn EXCEPT ![c] = "left"]
    /\ broken' = broken \cup {c}
    /\ UNCHANGED <<ctxDone, stopped, listening, serve, wg, connStop, waits,
                   peer, req>>

\* The reply cannot be encoded or its write times out: it is reported and lost.
EncodeFails(c) ==
    /\ req[c] = "handling"
    /\ req' = [req EXCEPT ![c] = "lost"]
    /\ broken' = broken \cup {c}
    /\ UNCHANGED <<ctxDone, stopped, listening, serve, wg, conn, connStop,
                   waits, peer>>

\* Run returns: it has waited for the handler and closed the connection; the
\* deferred connStop and wg.Done follow.
ConnDone(c) ==
    /\ conn[c] = "left"
    /\ req[c] # "handling"
    /\ conn' = [conn EXCEPT ![c] = "closed"]
    /\ wg' = wg - 1
    /\ UNCHANGED <<ctxDone, stopped, listening, serve, connStop, waits, peer,
                   broken, req>>

Goroutine(c) ==
    \/ \E wait \in BOOLEAN : Bind(c, wait)
    \/ Answer(c) \/ Lose(c) \/ LeaveLoop(c) \/ ConnDone(c)

\* Nothing is left to do once Serve has returned and the listener is closed.
Terminated ==
    /\ serve = "returned"
    /\ ~listening
    /\ UNCHANGED vars

Next ==
    \/ Cancel \/ CloseListener \/ AcceptFails \/ Return \/ Terminated
    \/ \E c \in Conns :
        \/ Connect(c) \/ PeerLeaves(c) \/ Accept(c)
        \/ BinderStops(c) \/ Request(c) \/ Goroutine(c)
        \/ DecodeFails(c) \/ EncodeFails(c)

Spec == Init /\ [][Next]_vars

\* Goroutines run, handlers return (Answer or Lose), and a context that is done
\* ends Run (CancelReturns of RPCServer).  Accept fails once the listener is
\* closed; nothing is assumed of peers, and no codec has to fail.
Fairness ==
    /\ WF_vars(CloseListener)
    /\ WF_vars(~listening /\ AcceptFails)
    /\ WF_vars(Return)
    /\ \A c \in Conns : WF_vars(Goroutine(c))

-----------------------------------------------------------------------------
TypeOK ==
    /\ ctxDone \in BOOLEAN
    /\ stopped \in BOOLEAN
    /\ listening \in BOOLEAN
    /\ serve \in {"accept", "drain", "returned"}
    /\ wg \in Int
    /\ conn \in [Conns -> {"none", "backlog", "closed"} \cup Live]
    /\ connStop \subseteq Conns
    /\ waits \subseteq Conns
    /\ peer \subseteq Conns
    /\ broken \subseteq Conns
    /\ req \in [Conns -> {"none", "handling", "answered", "lost"}]

(***************************************************************************)
(* "It waits for all connection-handling goroutines to complete before     *)
(* returning" (comment of Serve): after Serve has returned no goroutine of *)
(* a connection is left, no handler runs and every connection it accepted  *)
(* is closed, however accepting raced with the end of the context.         *)
(***************************************************************************)
NothingLeft ==
    serve = "returned" =>
        \A c \in Conns : conn[c] \notin Live /\ req[c] # "handling"

\* What ends the service of one connection without concerning the others.
OwnReason(c) == c \in connStop \/ c \notin peer \/ c \in broken

(***************************************************************************)
(* Only the caller's context or a failed Accept ends the server: no        *)
(* connection, whether its peer leaves, its codec fails or its Binder      *)
(* stops it, closes the listener or costs another connection its request.  *)
(***************************************************************************)
ConnectionsAreIsolated ==
    (serve = "accept" /\ ~ctxDone) =>
        /\ listening
        /\ \A c \in Conns : req[c] = "lost" => OwnReason(c)

(***************************************************************************)
(* An Accept that fails while connections are active ends Serve too, and   *)
(* "the method ensures the listener is closed" then as well, if only some  *)
(* time after Serve has returned.                                          *)
(***************************************************************************)
AcceptErrorEndsServe == serve = "drain" ~> (serve = "returned" /\ ~listening)

(***************************************************************************)
(* "For other listeners, cancellation closes the listener, allowing active *)
(* connections/goroutines to finish processing" (comment of                *)
(* ListenAndServe): a request is lost only to its own peer, Binder or      *)
(* codec.                                                                  *)
(***************************************************************************)
ActiveConnectionsFinish ==
    \A c \in Conns : req[c] = "lost" => OwnReason(c)

(***************************************************************************)
(* The invariant behind these: the WaitGroup counts the goroutines, and    *)
(* sctx stays live while Serve accepts.                                    *)
(***************************************************************************)
LiveConns == {c \in Conns : conn[c] \in Live}
Counted   == wg = Cardinality(LiveConns)
Handling  == \A c \in Conns : req[c] = "handling" => conn[c] \in {"run", "left"}

Untouched ==
    (serve = "accept" /\ ~ctxDone) =>
        /\ ~stopped
        /\ \A c \in Conns : conn[c] = "left" => OwnReason(c)

ServeInv ==
    /\ TypeOK /\ Counted /\ Handling /\ Untouched
    /\ NothingLeft /\ ConnectionsAreIsolated
=============================================================================

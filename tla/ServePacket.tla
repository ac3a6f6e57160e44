---------------------------- MODULE ServePacket ----------------------------
(***************************************************************************)
(* Server.ServePacket (src/server.go): PacketRoutines goroutines, each     *)
(* with its own RPCServer, on one net.PacketConn.  The first Run that      *)
(* returns closes the connection and cancels the context of all.  Each     *)
(* routine stands for one request in flight; Run is reduced to what        *)
(* RPCServer shows of it.                                                  *)
(***************************************************************************)
EXTENDS ServerContext, Integers, FiniteSets

CONSTANT Routines       \* the goroutines, one for each of PacketRoutines

ASSUME RoutinesAssumption == IsFiniteSet(Routines) /\ Routines # {}

VARIABLES
    packetStopped,  \* stop has been called: sctx is done
    open,           \* the packet connection is open
    routine,        \* the state of each goroutine
    packetWaits,    \* the routines whose Binder has set WaitOnClose
    packetReq,      \* the request each routine handles
    errs,           \* errors in the channel
    packetServe     \* "wait", "returned"

packetVars == <<ctxDone, packetStopped, open, routine, packetWaits, packetReq,
                errs, packetServe>>

PacketSctxDone == ctxDone \/ packetStopped

\* Mutant: the channel has no buffer, and is read after wg.Wait only.
NoCapacity == 0

\* errs := make(chan error, s.PacketRoutines)
Capacity == Cardinality(Routines)

PacketInit ==
    /\ ctxDone = FALSE
    /\ packetStopped = FALSE
    /\ open = TRUE
    /\ routine = [r \in Routines |-> "start"]
    /\ packetWaits = {}
    /\ packetReq = [r \in Routines |-> "none"]
    /\ errs = 0
    /\ packetServe = "wait"

PacketCancel ==
    /\ ~ctxDone
    /\ ctxDone' = TRUE
    /\ UNCHANGED <<packetStopped, open, routine, packetWaits, packetReq, errs, packetServe>>

PacketBind(r, wait) ==
    /\ routine[r] = "start"
    /\ routine' = [routine EXCEPT ![r] = "run"]
    /\ packetWaits' = IF wait THEN packetWaits \cup {r} ELSE packetWaits
    /\ UNCHANGED <<ctxDone, packetStopped, open, packetReq, errs, packetServe>>

\* The Binder of one routine is given the stop of all.
PacketBinderStops(r) ==
    /\ routine[r] \in {"start", "run", "left"}
    /\ packetStopped' = TRUE
    /\ UNCHANGED <<ctxDone, open, routine, packetWaits, packetReq, errs, packetServe>>

Receive(r) ==
    /\ routine[r] = "run"
    /\ open
    /\ packetReq[r] = "none"
    /\ packetReq' = [packetReq EXCEPT ![r] = "handling"]
    /\ UNCHANGED <<ctxDone, packetStopped, open, routine, packetWaits, errs, packetServe>>

PacketAnswer(r) ==
    /\ packetReq[r] = "handling"
    /\ open
    /\ packetReq' = [packetReq EXCEPT ![r] = "answered"]
    /\ UNCHANGED <<ctxDone, packetStopped, open, routine, packetWaits, errs, packetServe>>

PacketLose(r) ==
    /\ packetReq[r] = "handling"
    /\ \/ ~open
       \/ PacketSctxDone
       \/ routine[r] = "left" /\ r \notin packetWaits
    /\ packetReq' = [packetReq EXCEPT ![r] = "lost"]
    /\ UNCHANGED <<ctxDone, packetStopped, open, routine, packetWaits, errs, packetServe>>

\* DecodeFrom fails: an idle timeout, its own or another routine's, or an error
\* of the socket.
ReadFails(r) ==
    /\ routine[r] = "run"
    /\ routine' = [routine EXCEPT ![r] = "left"]
    /\ UNCHANGED <<ctxDone, packetStopped, open, packetWaits, packetReq, errs, packetServe>>

\* DecodeFrom is interrupted by sctx, or finds the connection closed.
PacketLeaveLoop(r) ==
    /\ PacketSctxDone \/ ~open
    /\ ReadFails(r)

\* Mutant: Run does not wait for its handlers.
RunReturnsAtOnce(r) ==
    /\ routine[r] = "left"
    /\ routine' = [routine EXCEPT ![r] = "ran"]
    /\ open' = FALSE
    /\ UNCHANGED <<ctxDone, packetStopped, packetWaits, packetReq, errs, packetServe>>

\* The deferred function of Run waits for the handlers and closes the
\* connection, the other routines' too.
RunReturns(r) ==
    /\ routine[r] = "left"
    /\ packetReq[r] # "handling"
    /\ routine' = [routine EXCEPT ![r] = "ran"]
    /\ open' = FALSE
    /\ UNCHANGED <<ctxDone, packetStopped, packetWaits, packetReq, errs, packetServe>>

\* ch <- err, then the deferred stop(nil) and wg.Done().
Finish(r) ==
    /\ routine[r] = "ran"
    /\ errs < Capacity
    /\ errs' = errs + 1
    /\ routine' = [routine EXCEPT ![r] = "done"]
    /\ packetStopped' = TRUE
    /\ UNCHANGED <<ctxDone, open, packetWaits, packetReq, packetServe>>

\* wg.Wait, and the errors are joined.
PacketReturn ==
    /\ packetServe = "wait"
    /\ \A r \in Routines : routine[r] = "done"
    /\ packetServe' = "returned"
    /\ errs' = 0
    /\ UNCHANGED <<ctxDone, packetStopped, open, routine, packetWaits, packetReq>>

PacketGoroutine(r) ==
    \/ \E wait \in BOOLEAN : PacketBind(r, wait)
    \/ PacketAnswer(r) \/ PacketLose(r) \/ PacketLeaveLoop(r)
    \/ RunReturns(r) \/ Finish(r)

PacketTerminated == packetServe = "returned" /\ UNCHANGED packetVars

PacketNext ==
    \/ PacketCancel \/ PacketReturn \/ PacketTerminated
    \/ \E r \in Routines :
        PacketBinderStops(r) \/ Receive(r) \/ ReadFails(r) \/ PacketGoroutine(r)

PacketSpec == PacketInit /\ [][PacketNext]_packetVars

\* Goroutines run and handlers return.  A read is interrupted when sctx is done:
\* every DecodeFrom that clears the deadline after that sets it again.  A reply
\* ends, which an idle timeout of the encoder can prevent (TimeoutEnds of
\* CancellableIO): there is none here.
PacketFairness == WF_packetVars(PacketReturn) /\ \A r \in Routines : WF_packetVars(PacketGoroutine(r))

-----------------------------------------------------------------------------
PacketTypeOK ==
    /\ ctxDone \in BOOLEAN
    /\ packetStopped \in BOOLEAN
    /\ open \in BOOLEAN
    /\ routine \in [Routines -> {"start", "run", "left", "ran", "done"}]
    /\ packetWaits \subseteq Routines
    /\ packetReq \in [Routines -> {"none", "handling", "answered", "lost"}]
    /\ errs \in Nat
    /\ packetServe \in {"wait", "returned"}

(***************************************************************************)
(* "It waits for all processing goroutines to complete before returning"   *)
(* and "ensures the PacketConn is closed" (comment of ServePacket): once   *)
(* it has returned, no handler runs and the connection is closed, although *)
(* every routine but the last ended while others were at work.             *)
(***************************************************************************)
PacketNothingLeft ==
    packetServe = "returned" =>
        ~open /\ \A r \in Routines : routine[r] = "done" /\ packetReq[r] # "handling"

(***************************************************************************)
(* The end of one routine, for whatever reason, is the end of ServePacket: *)
(* no routine is left reading a connection nobody answers on, or blocked   *)
(* on the channel of errors.                                               *)
(***************************************************************************)
FirstEndsAll ==
    (\E r \in Routines : routine[r] \in {"left", "ran", "done"})
        ~> packetServe = "returned"

(***************************************************************************)
(* The channel of errors has room for every routine, so that none blocks   *)
(* on it before its wg.Done: the channel is read after wg.Wait only.       *)
(***************************************************************************)
ChannelFits == \A r \in Routines : routine[r] = "ran" => errs < Capacity

(***************************************************************************)
(* The invariant behind these.                                             *)
(***************************************************************************)
Done == {r \in Routines : routine[r] = "done"}

PacketHandling ==
    \A r \in Routines :
        /\ routine[r] \in {"ran", "done"} => ~open /\ packetReq[r] # "handling"
        /\ packetReq[r] = "handling" => routine[r] \in {"run", "left"}

Collected == packetServe = "wait" => errs = Cardinality(Done)

PacketInv == PacketTypeOK /\ PacketHandling /\ Collected /\ PacketNothingLeft
=============================================================================

--------------------------- MODULE ListenAndServe ---------------------------
(***************************************************************************)
(* Server.ListenAndServe (src/server.go): the scheme of the URI decides    *)
(* whether Serve, ServePacket or listenAndServeHTTP runs, once the network *)
(* listens.  The three are the modules of their names; this one starts     *)
(* them and states what they promise alike.                                *)
(***************************************************************************)
EXTENDS Serve, ServePacket, ServeHTTP

VARIABLES
    scheme,     \* what the scheme stands for
    listen      \* "parsed", "listening", "failed"

allVars == <<vars, packetVars, httpVars, scheme, listen>>

\* The variables of each server besides the context they share.
ownVars       == <<stopped, listening, serve, wg, conn, connStop, waits, peer, broken,
                   req>>
ownPacketVars == <<packetStopped, open, routine, packetWaits, packetReq, errs, packetServe>>
ownHTTPVars   == <<httpStopped, httpListening, httpServe, helper, sctxDone, elapsed, httpReq>>

\* tcp and unix; udp, unixgram and unixpacket; http; any other.
Schemes == {"stream", "packet", "http", "unknown"}

\* Every server as its Init has it, but for what listening brings about.
ListenInit ==
    /\ scheme \in Schemes
    /\ listen = "parsed"
    /\ ctxDone = FALSE
    /\ stopped = FALSE /\ listening = FALSE /\ serve = "none" /\ wg = 0
    /\ conn = [c \in Conns |-> "none"] /\ connStop = {} /\ waits = {}
    /\ peer = Conns /\ broken = {} /\ req = [c \in Conns |-> "none"]
    /\ packetStopped = FALSE /\ open = FALSE /\ packetServe = "none"
    /\ routine = [r \in Routines |-> "none"] /\ packetWaits = {}
    /\ packetReq = [r \in Routines |-> "none"] /\ errs = 0
    /\ httpStopped = FALSE /\ httpListening = FALSE /\ httpServe = "none"
    /\ helper = "none" /\ sctxDone = FALSE /\ elapsed = FALSE
    /\ httpReq = [r \in Requests |-> "none"]

\* listenAndServe: net.Listen succeeds.
ListenStream ==
    /\ listen = "parsed" /\ scheme = "stream"
    /\ listen' = "listening"
    /\ listening' = TRUE
    /\ serve' = "accept"
    /\ UNCHANGED <<scheme, ctxDone, stopped, wg, conn, connStop, waits, peer,
                   broken, req, ownPacketVars, ownHTTPVars>>

\* listenAndServePacket: net.ListenPacket succeeds, and the goroutines start.
ListenPacket ==
    /\ listen = "parsed" /\ scheme = "packet"
    /\ listen' = "listening"
    /\ open' = TRUE
    /\ routine' = [r \in Routines |-> "start"]
    /\ packetServe' = "wait"
    /\ UNCHANGED <<scheme, ctxDone, packetStopped, packetWaits, packetReq, errs,
                   ownVars, ownHTTPVars>>

\* listenAndServeHTTP starts its goroutine and calls http.Server.ListenAndServe.
ListenHTTP ==
    /\ listen = "parsed" /\ scheme = "http"
    /\ listen' = "listening"
    /\ httpListening' = TRUE
    /\ helper' = "waiting"
    /\ httpServe' = "serving"
    /\ UNCHANGED <<scheme, ctxDone, httpStopped, sctxDone, elapsed, httpReq,
                   ownVars, ownPacketVars>>

\* ErrUnknownScheme, or the error of net.Listen or net.ListenPacket.
ListenFails ==
    /\ listen = "parsed"
    /\ scheme # "http"
    /\ listen' = "failed"
    /\ UNCHANGED <<scheme, vars, packetVars, httpVars>>

Failed == listen = "failed" /\ UNCHANGED allVars

ListenNext ==
    \/ ListenStream \/ ListenPacket \/ ListenHTTP \/ ListenFails \/ Failed
    \/ Next /\ UNCHANGED <<ownPacketVars, ownHTTPVars, scheme, listen>>
    \/ PacketNext /\ UNCHANGED <<ownVars, ownHTTPVars, scheme, listen>>
    \/ HTTPNext /\ UNCHANGED <<ownVars, ownPacketVars, scheme, listen>>

\* The fairness of each server; listening does not block.
ListenFairSpec ==
    /\ ListenInit /\ [][ListenNext]_allVars
    /\ WF_allVars(ListenStream \/ ListenPacket \/ ListenHTTP \/ ListenFails)
    /\ Fairness /\ PacketFairness /\ HTTPFairness

-----------------------------------------------------------------------------
(***************************************************************************)
(* "It blocks until the provided context is cancelled": whatever the       *)
(* scheme, a context that is done, before or after the network listens,    *)
(* ends the call with the listener or packet connection closed, whatever   *)
(* the peers do, and no HTTP request is left in progress even if its       *)
(* handler does not return.                                                *)
(***************************************************************************)
Returned ==
    \/ listen = "failed"
    \/ "returned" \in {serve, packetServe, httpServe}

CancelEnds ==
    ctxDone ~> /\ Returned
               /\ ~listening /\ ~open /\ ~httpListening
               /\ Active = {}
=============================================================================

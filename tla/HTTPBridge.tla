----------------------------- MODULE HTTPBridge -----------------------------
(***************************************************************************)
(* HTTPBridge (src/httpbridge.go) under a TransportClient, whose mutex its *)
(* callers share, and the HTTPHandler it posts to.  Encode makes the POST  *)
(* and keeps the response in the bridge; Decode reads it from there.  The  *)
(* network may lose or delay a POST, also past the caller that made it;    *)
(* something between the two may answer instead of the handler; and some   *)
(* POSTs of the handler are those of other clients.                        *)
(***************************************************************************)
EXTENDS HTTPHandler

CONSTANTS
    Roles,          \* who may make which POST (see op)
    Payloads,       \* the messages a call and a notification may carry
    OtherBodies,    \* the bodies other clients post
    Nobody          \* holds the mutex when it is free

ASSUME PostsAssumption == Lookups = Posts /\ Nobody \notin Posts
ASSUME RolesAssumption == Roles \subseteq [Posts -> {"call", "notify", "close", "other"}]
ASSUME PayloadsAssumption ==
    Payloads \in [{"call", "notify"} -> SUBSET Seq({"request", "notify", "invalid"})]
ASSUME BodiesAssumption == OtherBodies \subseteq Bodies

VARIABLES
    op,             \* who makes the POST: a "call", "notify" or "close" of the
                    \* TransportClient, or an "other" client
    at,             \* "lock", "wait", "decode", "done"
    ctx,            \* the operations in progress whose context is done
    mu,             \* the holder of TransportClient.mu
    closed,         \* the HTTPBridge ...
    respBuffer,
    respCode,
    respJSON,
    sent,           \* the POSTs made
    result,         \* what the operation returned
    got             \* the frame a call returned

response   == <<respBuffer, respCode, respJSON>>
bridgeVars == <<op, at, ctx, mu, closed, response, sent, result, got>>
serverVars == <<httpVars, muxVars>>

NoFrame == Frame(Nobody, "none", 0)

BridgeInit ==
    /\ HTTPInit
    /\ MuxInit
    /\ op \in Roles
    /\ at = [c \in Posts |-> IF op[c] = "other" THEN "done" ELSE "lock"]
    /\ ctx = {}
    /\ mu = Nobody
    /\ closed = FALSE
    /\ respBuffer = << >>
    /\ respCode = 0
    /\ respJSON = FALSE
    /\ sent = {}
    /\ result = [c \in Posts |-> "none"]
    /\ got = [c \in Posts |-> NoFrame]

\* Any caller's context ends, at any time; Close has none.
CtxDone(c) ==
    /\ op[c] # "close"
    /\ at[c] # "done"
    /\ c \notin ctx
    /\ ctx' = ctx \cup {c}
    /\ UNCHANGED <<op, at, mu, closed, response, sent, result, got, serverVars>>

Return(c, r, f) ==
    /\ at' = [at EXCEPT ![c] = "done"]
    /\ result' = [result EXCEPT ![c] = r]
    /\ got' = [got EXCEPT ![c] = f]
    /\ mu' = Nobody
    /\ ctx' = ctx \ {c}

Locks(c) == op[c] \in {"call", "notify"} /\ at[c] = "lock" /\ mu = Nobody

\* TransportClient.Close: the mutex, and then HTTPBridge.Close.
Close(c) ==
    /\ op[c] = "close"
    /\ at[c] = "lock"
    /\ mu = Nobody
    /\ closed' = TRUE
    /\ Return(c, "ok", NoFrame)
    /\ UNCHANGED <<op, response, sent, serverVars>>

(***************************************************************************)
(* TransportClient.call: the mutex, the context, and Encode until          *)
(* http.Client.Do has the request.                                         *)
(***************************************************************************)
CallCancelled(c) ==
    /\ Locks(c)
    /\ c \in ctx
    /\ Return(c, "cancelled", NoFrame)
    /\ UNCHANGED <<op, closed, response, sent, serverVars>>

EncodeClosed(c) ==
    /\ Locks(c)
    /\ c \notin ctx
    /\ closed
    /\ Return(c, "eof", NoFrame)
    /\ UNCHANGED <<op, closed, response, sent, serverVars>>

\* Mutant: what the last response left is still there.
KeepResponse == respCode' = 0 /\ UNCHANGED <<respBuffer, respJSON>>

ResetResponse == respBuffer' = << >> /\ respCode' = 0 /\ respJSON' = FALSE

\* Marshal fails.
EncodeFails(c) ==
    /\ Locks(c)
    /\ c \notin ctx
    /\ ~closed
    /\ ResetResponse
    /\ Return(c, "error", NoFrame)
    /\ UNCHANGED <<op, closed, sent, serverVars>>

Encode(c) ==
    /\ Locks(c)
    /\ c \notin ctx
    /\ ~closed
    /\ ResetResponse
    /\ sent' = sent \cup {c}
    /\ mu' = c
    /\ at' = [at EXCEPT ![c] = "wait"]
    /\ UNCHANGED <<op, closed, ctx, result, got, serverVars>>

(***************************************************************************)
(* The network.  A POST arrives once or never; it may arrive late, and     *)
(* then perhaps cut off, since nobody sends the rest of it.                *)
(***************************************************************************)
Arrive(c) ==
    /\ c \in sent
    /\ \E m \in Payloads[op[c]] :
          Receive(c, [json |-> TRUE, messages |-> <<m>>, end |-> "eof"])
    /\ UNCHANGED bridgeVars

ArriveTruncated(c) ==
    /\ c \in sent
    /\ at[c] = "done"
    /\ \E end \in {"truncated", "broken"} :
          Receive(c, [json |-> TRUE, messages |-> << >>, end |-> end])
    /\ UNCHANGED bridgeVars

ArriveOther(c, b) == op[c] = "other" /\ Receive(c, b) /\ UNCHANGED bridgeVars

(***************************************************************************)
(* The rest of Encode, for a response of the handler or of a gateway.      *)
(* The body is read only if its type is JSON.  A notification ends here.   *)
(***************************************************************************)
Record(c, a) ==
    /\ at[c] = "wait"
    /\ respCode' = a.code
    /\ respJSON' = a.json
    /\ respBuffer' = IF a.json THEN respBuffer \o a.frames ELSE respBuffer
    /\ UNCHANGED <<op, closed, sent, serverVars>>

EncodeReturns(c) ==
    IF op[c] = "call"
      THEN at' = [at EXCEPT ![c] = "decode"] /\ UNCHANGED <<ctx, mu, result, got>>
      ELSE Return(c, "ok", NoFrame)

ResponseArrives(c) == pc[c] = "done" /\ Record(c, answer[c]) /\ EncodeReturns(c)

GatewayAnswers(c) ==
    \E code \in {200, 502} :
        Record(c, [code |-> code, json |-> FALSE, frames |-> << >>]) /\ EncodeReturns(c)

\* ReadFrom fails within the body.
ResponseBreaks(c) ==
    /\ pc[c] = "done"
    /\ answer[c].frames # << >>
    /\ Record(c, [answer[c] EXCEPT !.frames = <<Frame(c, "part", 0)>>])
    /\ Return(c, "error", NoFrame)

\* Do fails before there is a response.
PostFails(c) ==
    /\ at[c] = "wait"
    /\ Return(c, "error", NoFrame)
    /\ UNCHANGED <<op, closed, response, sent, serverVars>>

\* Mutant: the request is made without the context of the caller.
PostDetached(c) ==
    /\ at[c] = "wait"
    /\ c \in ctx
    /\ pc[c] = "done"
    /\ Return(c, "cancelled", NoFrame)
    /\ UNCHANGED <<op, closed, response, sent, serverVars>>

\* Do, or ReadFrom, returns the error of the context.
PostCancelled(c) ==
    /\ at[c] = "wait"
    /\ c \in ctx
    /\ Return(c, "cancelled", NoFrame)
    /\ UNCHANGED <<op, closed, response, sent, serverVars>>

(***************************************************************************)
(* Decode.  Unmarshal takes exactly one JSON value.                        *)
(***************************************************************************)
Whole == Len(respBuffer) = 1 /\ respBuffer[1].what # "part"

Decoded(c) ==
    CASE c \in ctx                                -> "cancelled"
      [] c \notin ctx /\ closed                   -> "eof"
      [] c \notin ctx /\ ~closed /\ respJSON      ->
            IF respBuffer = << >> THEN "ErrHTTPEmptyResponse"
            ELSE IF Whole THEN "ok" ELSE "syntax"
      [] c \notin ctx /\ ~closed /\ ~respJSON     ->
            IF respCode \in 200..299 THEN "ErrHTTPNotJSON" ELSE "ErrHTTPResponse"

Decode(c) ==
    /\ at[c] = "decode"
    /\ Return(c, Decoded(c), IF Decoded(c) = "ok" THEN respBuffer[1] ELSE NoFrame)
    /\ UNCHANGED <<op, closed, response, sent, serverVars>>

-----------------------------------------------------------------------------
Step(c) ==
    \/ Close(c) \/ CallCancelled(c) \/ EncodeClosed(c) \/ Encode(c)
    \/ PostCancelled(c) \/ Decode(c)

Network(c) ==
    \/ Arrive(c) \/ ArriveTruncated(c) \/ ResponseArrives(c) \/ GatewayAnswers(c)
    \/ ResponseBreaks(c) \/ PostFails(c)

BridgeNext ==
    \/ \E c \in Posts :
          \/ Step(c) \/ Network(c) \/ CtxDone(c) \/ EncodeFails(c)
          \/ \E b \in OtherBodies : ArriveOther(c, b)
          \/ (ServeHTTP(c) \/ CancelPost(c)) /\ UNCHANGED bridgeVars
    \/ Administer /\ UNCHANGED <<httpVars, bridgeVars>>

\* Goroutines run and handlers return; the network promises nothing.
BridgeFairness ==
    /\ WF_<<bridgeVars, serverVars>>(\E c \in Posts : Step(c))
    /\ WF_<<bridgeVars, serverVars>>(\E p \in Posts : ServeHTTP(p) /\ UNCHANGED bridgeVars)

BridgeSpec ==
    BridgeInit /\ [][BridgeNext]_<<bridgeVars, serverVars>> /\ BridgeFairness

-----------------------------------------------------------------------------
(***************************************************************************)
(* A call over a shared HTTPBridge returns the response to its own POST    *)
(* and no other: neither one that an earlier call or notification left in  *)
(* the bridge nor what the handler wrote for another POST at the same time.*)
(***************************************************************************)
OwnHTTPResponse ==
    \A c \in Posts : op[c] = "call" /\ result[c] = "ok" => got[c].of = c

(***************************************************************************)
(* Once every context is done, every operation of the TransportClient      *)
(* returns though the network stays silent and others wait for the mutex,  *)
(* and whatever has reached ServeHTTP is answered though its client is     *)
(* gone.                                                                   *)
(***************************************************************************)
ExchangeEnds ==
    (\A c \in Posts : op[c] = "close" \/ at[c] = "done" \/ c \in ctx)
        ~> (\A c \in Posts : at[c] = "done" /\ pc[c] \in {"none", "done"})
=============================================================================

--------------------------- MODULE CancellableIO ---------------------------
(***************************************************************************)
(* How the codecs let a context interrupt a blocking read or write:        *)
(* StreamEncoder.Encode, StreamDecoder.Decode (src/encoder.go,             *)
(* src/decoder.go), PacketConnEncoder.EncodeTo and                         *)
(* PacketConnDecoder.DecodeFrom (src/packetencoder.go,                     *)
(* src/packetdecoder.go).  All four clear the deadline of the connection,  *)
(* register an AfterFunc that sets it to now (or closes the connection),   *)
(* perform the operation, and stop the AfterFunc or wait for it.  One      *)
(* instance is one direction of one connection; its callers perform        *)
(* operations for ever.                                                    *)
(*                                                                         *)
(* RPCServer and TransportClient take an operation for one step with       *)
(* several outcomes.  This module says why they may.                       *)
(***************************************************************************)
EXTENDS Integers

CONSTANTS
    Callers,        \* goroutines that use the codec
    Kinds,          \* a subset of AllKinds
    Transports,     \* "deadline" and/or "closer"
    TimeoutKinds,   \* the codecs on which SetIdleTimeout was called
    NoOne           \* not a caller

StreamKinds == {"StreamEncoder", "StreamDecoder"}
PacketKinds == {"PacketEncoder", "PacketDecoder"}
AllKinds    == StreamKinds \cup PacketKinds

ASSUME KindsAssumption      == Kinds \subseteq AllKinds
ASSUME TransportsAssumption == Transports \subseteq {"deadline", "closer"}
ASSUME TimeoutsAssumption   == TimeoutKinds \subseteq AllKinds
ASSUME NoOneAssumption      == NoOne \notin Callers

VARIABLES
    kind,       \* the codec, fixed at the start
    transport,  \* what the connection offers, fixed at the start
    ctxDone,    \* the context the callers share is done
    expired,    \* the callers whose idle timeout has passed
    deadline,   \* of this direction: "none" or "past"
    open,       \* the connection is open
    mu,         \* the holder of the codec's mutex
    fd,         \* the holder of the lock of the file descriptor
    pc,         \* where each caller is
    after,      \* its AfterFunc
    res,        \* what its read or write returned
    ret         \* what its last operation returned

vars == <<kind, transport, ctxDone, expired, deadline, open, mu, fd, pc,
          after, res, ret>>

(***************************************************************************)
(* Encode holds i.mu.  A StreamDecoder has a single user at a time: the    *)
(* loop of Run, or the holder of TransportClient.mu.  The packet codecs    *)
(* have no lock and any number of users.                                   *)
(***************************************************************************)
Locked == kind \in StreamKinds

Busy == {"clear", "arm", "op", "io", "stop", "wait"}

\* The context of the current operation of c.
DctxDone(c) == ctxDone \/ c \in expired

Init ==
    /\ kind \in Kinds
    /\ transport \in Transports
    /\ kind \in PacketKinds => transport = "deadline"
    /\ ctxDone = FALSE
    /\ expired = {}
    /\ deadline = "none"
    /\ open = TRUE
    /\ mu = NoOne
    /\ fd = NoOne
    /\ pc = [c \in Callers |-> "idle"]
    /\ after = [c \in Callers |-> "none"]
    /\ res = [c \in Callers |-> "none"]
    /\ ret = [c \in Callers |-> "none"]

(***************************************************************************)
(* The environment.                                                        *)
(***************************************************************************)
Cancel ==
    /\ ~ctxDone
    /\ ctxDone' = TRUE
    /\ UNCHANGED <<kind, transport, expired, deadline, open, mu, fd, pc,
                   after, res, ret>>

\* dctx exists from the start of a packet operation; a stream operation makes
\* it after it has cleared the deadline.
HasDctx(c) ==
    \/ pc[c] \in {"op", "io", "stop", "wait"}
    \/ pc[c] \in {"clear", "arm"} /\ kind \in PacketKinds

Expire(c) ==
    /\ kind \in TimeoutKinds
    /\ HasDctx(c)
    /\ c \notin expired
    /\ expired' = expired \cup {c}
    /\ UNCHANGED <<kind, transport, ctxDone, deadline, open, mu, fd, pc,
                   after, res, ret>>

\* Close of the codec, or of the codec for the other direction, which does not
\* wait for the mutex of this one.
Close ==
    /\ open
    /\ open' = FALSE
    /\ UNCHANGED <<kind, transport, ctxDone, expired, deadline, mu, fd, pc,
                   after, res, ret>>

(***************************************************************************)
(* The operation.                                                          *)
(***************************************************************************)
Return(c, r) ==
    /\ pc' = [pc EXCEPT ![c] = "idle"]
    /\ ret' = [ret EXCEPT ![c] = r]
    /\ mu' = IF Locked THEN NoOne ELSE mu

Begin(c) ==
    /\ pc[c] = "idle"
    /\ Locked => mu = NoOne
    /\ mu' = IF Locked THEN c ELSE mu
    /\ pc' = [pc EXCEPT ![c] = IF transport = "deadline"
                                 THEN "clear" ELSE "arm"]
    /\ after' = [after EXCEPT ![c] = "none"]
    /\ res' = [res EXCEPT ![c] = "none"]
    /\ ret' = [ret EXCEPT ![c] = "none"]
    /\ expired' = expired \ {c}
    /\ UNCHANGED <<kind, transport, ctxDone, deadline, open, fd>>

\* A packet is marshalled before the connection is touched.
MarshalFails(c) ==
    /\ pc[c] = "clear"
    /\ kind = "PacketEncoder"
    /\ Return(c, "error")
    /\ UNCHANGED <<kind, transport, ctxDone, expired, deadline, open, fd,
                   after, res>>

\* Mutant: the deadline of an earlier operation is left as it is.
ClearNothing(c) ==
    /\ pc[c] = "clear"
    /\ pc' = [pc EXCEPT ![c] = "arm"]
    /\ UNCHANGED <<kind, transport, ctxDone, expired, deadline, open, mu, fd,
                   after, res, ret>>

ClearDeadline(c) ==
    /\ pc[c] = "clear"
    /\ IF open
         THEN /\ deadline' = "none"
              /\ pc' = [pc EXCEPT ![c] = "arm"]
              /\ UNCHANGED <<mu, ret>>
         ELSE /\ Return(c, "error")
              /\ UNCHANGED deadline
    /\ UNCHANGED <<kind, transport, ctxDone, expired, open, fd, after, res>>

\* context.AfterFunc starts the function at once if the context is done.
Arm(c) ==
    /\ pc[c] = "arm"
    /\ pc' = [pc EXCEPT ![c] = "op"]
    /\ after' = [after EXCEPT ![c] = IF DctxDone(c)
                                       THEN "firing" ELSE "armed"]
    /\ UNCHANGED <<kind, transport, ctxDone, expired, deadline, open, mu, fd,
                   res, ret>>

\* The end of dctx reaches the AfterFunc and starts its goroutine ...
Fire(c) ==
    /\ after[c] = "armed"
    /\ DctxDone(c)
    /\ after' = [after EXCEPT ![c] = "firing"]
    /\ UNCHANGED <<kind, transport, ctxDone, expired, deadline, open, mu, fd,
                   pc, res, ret>>

\* ... which interrupts whoever uses the connection.
Interrupt(c) ==
    /\ after[c] = "firing"
    /\ after' = [after EXCEPT ![c] = "fired"]
    /\ IF transport = "deadline"
         THEN /\ deadline' = IF open THEN "past" ELSE deadline
              /\ UNCHANGED open
         ELSE /\ open' = FALSE
              /\ UNCHANGED deadline
    /\ UNCHANGED <<kind, transport, ctxDone, expired, mu, fd, pc, res, ret>>

(***************************************************************************)
(* The read or write.  The file descriptor admits one reader and one       *)
(* writer; the others queue, and only closing the connection gets them out *)
(* of the queue.                                                           *)
(***************************************************************************)

\* Mutant: the deadline is cleared just before the read or write.
EnterClears(c) ==
    /\ pc[c] = "op"
    /\ fd = NoOne
    /\ open
    /\ fd' = c
    /\ deadline' = "none"
    /\ pc' = [pc EXCEPT ![c] = "io"]
    /\ UNCHANGED <<kind, transport, ctxDone, expired, open, mu, after, res,
                   ret>>

Enter(c) ==
    /\ pc[c] = "op"
    /\ fd = NoOne
    /\ open
    /\ fd' = c
    /\ pc' = [pc EXCEPT ![c] = "io"]
    /\ UNCHANGED <<kind, transport, ctxDone, expired, deadline, open, mu,
                   after, res, ret>>

Leave(c, r) ==
    /\ pc' = [pc EXCEPT ![c] = "stop"]
    /\ res' = [res EXCEPT ![c] = r]
    /\ fd' = IF fd = c THEN NoOne ELSE fd
    /\ UNCHANGED <<kind, transport, ctxDone, expired, deadline, open, mu,
                   after, ret>>

\* The peer decides when, and whether, an operation completes or fails.
Complete(c) == pc[c] = "io" /\ \E r \in {"ok", "failed"} : Leave(c, r)

TimeOut(c) == pc[c] = "io" /\ deadline = "past" /\ Leave(c, "deadline")

Evict(c) == pc[c] \in {"op", "io"} /\ ~open /\ Leave(c, "closed")

\* Mutant: the operation does not wait for its AfterFunc.
StopNoWait(c) ==
    /\ pc[c] = "stop"
    /\ after' = [after EXCEPT ![c] = IF @ = "armed" THEN "stopped" ELSE @]
    /\ Return(c, IF res[c] = "ok" THEN "ok" ELSE "error")
    /\ UNCHANGED <<kind, transport, ctxDone, expired, deadline, open, fd,
                   res>>

\* after(): the function is stopped if it has not started.
StopAfter(c) ==
    /\ pc[c] = "stop"
    /\ IF after[c] = "armed"
         THEN /\ after' = [after EXCEPT ![c] = "stopped"]
              /\ Return(c, IF res[c] = "ok" THEN "ok" ELSE "error")
         ELSE /\ pc' = [pc EXCEPT ![c] = "wait"]
              /\ UNCHANGED <<mu, after, ret>>
    /\ UNCHANGED <<kind, transport, ctxDone, expired, deadline, open, fd,
                   res>>

\* wg.Wait.  A packet operation that was done is then reported as an error: the
\* datagram has left, or has been read and is dropped.
Wait(c) ==
    /\ pc[c] = "wait"
    /\ after[c] = "fired"
    /\ Return(c, IF res[c] # "ok" THEN "error"
                 ELSE IF kind \in PacketKinds THEN "disowned" ELSE "ok")
    /\ UNCHANGED <<kind, transport, ctxDone, expired, deadline, open, fd,
                   after, res>>

Proceed(c) ==
    \/ MarshalFails(c) \/ ClearDeadline(c) \/ Arm(c) \/ Enter(c)
    \/ TimeOut(c) \/ Evict(c) \/ StopAfter(c) \/ Wait(c)

Next ==
    \/ Cancel \/ Close
    \/ \E c \in Callers :
        \/ Begin(c) \/ Complete(c) \/ Proceed(c)
        \/ Expire(c) \/ Fire(c) \/ Interrupt(c)

Spec == Init /\ [][Next]_vars

(***************************************************************************)
(* Goroutines run and time passes; nothing is assumed of the peer.  The    *)
(* lock of the file descriptor is handed on in order, so nobody in its     *)
(* queue is overtaken for ever.                                            *)
(***************************************************************************)
Fairness ==
    \A c \in Callers :
        /\ WF_vars(Proceed(c))
        /\ SF_vars(Enter(c))
        /\ WF_vars(Expire(c))
        /\ WF_vars(Fire(c))
        /\ WF_vars(Interrupt(c))

FairSpec == Spec /\ Fairness

-----------------------------------------------------------------------------
TypeOK ==
    /\ kind \in AllKinds
    /\ transport \in {"deadline", "closer"}
    /\ ctxDone \in BOOLEAN
    /\ expired \subseteq Callers
    /\ deadline \in {"none", "past"}
    /\ open \in BOOLEAN
    /\ mu \in Callers \cup {NoOne}
    /\ fd \in Callers \cup {NoOne}
    /\ pc \in [Callers -> Busy \cup {"idle"}]
    /\ after \in [Callers -> {"none", "armed", "firing", "fired", "stopped"}]
    /\ res \in [Callers -> {"none", "ok", "failed", "deadline", "closed"}]
    /\ ret \in [Callers -> {"none", "ok", "error", "disowned"}]

(***************************************************************************)
(* An operation of a codec with a mutex or a single user fails with a      *)
(* deadline only if its own context is done: encode and decode clear the   *)
(* deadline, and no AfterFunc of an earlier operation strikes later.  It   *)
(* is not so for packets, where the timeout of one call fails another.     *)
(***************************************************************************)
OwnDeadline ==
    \A c \in Callers :
        pc[c] \in {"stop", "wait"} /\ res[c] = "deadline" => DctxDone(c)

StreamOwnDeadline == kind \in StreamKinds => OwnDeadline

(***************************************************************************)
(* No operation, of any codec, leaves an AfterFunc behind that could touch *)
(* the connection after the operation has returned.                        *)
(***************************************************************************)
NothingOutlives ==
    \A c \in Callers : pc[c] = "idle" => after[c] \notin {"armed", "firing"}

(***************************************************************************)
(* An operation whose context ends, by cancellation or by its timeout, is  *)
(* got out of its read or write although the peer does nothing.  True of   *)
(* the stream codecs, and of packet codecs without an idle timeout: a      *)
(* packet operation that clears the deadline another one is about to see   *)
(* sets it again, for the context they share is done.                      *)
(***************************************************************************)
InterruptedEnds ==
    (kind \in StreamKinds \/ kind \notin TimeoutKinds) =>
        \A c \in Callers : pc[c] = "io" /\ DctxDone(c) ~> pc[c] # "io"

(***************************************************************************)
(* "If sending the packet (writing to the connection) takes longer than    *)
(* duration d, the ongoing EncodeTo call will be interrupted" (comment of  *)
(* PacketConnEncoder.SetIdleTimeout).                                      *)
(***************************************************************************)
TimeoutEnds ==
    \A c \in Callers : pc[c] = "io" /\ c \in expired ~> pc[c] # "io"

(***************************************************************************)
(* The invariant behind StreamOwnDeadline.                                 *)
(***************************************************************************)
Exclusive ==
    kind \in StreamKinds => \A c \in Callers : pc[c] \in Busy <=> mu = c

Armed ==
    \A c \in Callers :
        /\ after[c] \in {"armed", "firing"} =>
                pc[c] \in {"op", "io", "stop", "wait"}
        /\ after[c] \in {"firing", "fired"} => DctxDone(c)
        /\ pc[c] \in {"clear", "arm"} => after[c] = "none"

Cleared ==
    /\ transport = "closer" => deadline = "none"
    /\ kind \in StreamKinds => \A c \in Callers :
          pc[c] \in {"arm", "op", "io"} /\ deadline = "past" =>
              after[c] = "fired"

IOInv == TypeOK /\ Exclusive /\ Armed /\ Cleared /\ StreamOwnDeadline
=============================================================================

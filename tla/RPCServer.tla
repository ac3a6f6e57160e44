----------------------------- MODULE RPCServer -----------------------------
(***************************************************************************)
(* One RPCServer.Run (src/rpcserver.go): the loop that decodes messages,   *)
(* the goroutine that runs each message (a "task"), the goroutines of the  *)
(* members of a batch, the reply each task encodes, and the shutdown.      *)
(*                                                                         *)
(* Abstracted data: a message is its JSON shape and, for an object or an   *)
(* array, what each entry is; a response is the entry it answers and how   *)
(* it came about.  A message of length zero, which the loop skips, is a    *)
(* stuttering step.                                                        *)
(***************************************************************************)
EXTENDS Integers, Sequences

CONSTANTS
    Configs,        \* the server configurations a behaviour may start with
    MaxMessages,    \* bound: messages one behaviour decodes
    MaxBatch,       \* bound: entries of one batch
    Entries,        \* what an entry can be: a subset of AllEntries
    Outcomes        \* what a handler can do: a subset of AllOutcomes

AllEntries  == {"call", "notify", "invalid"}
AllOutcomes == {"return", "panic", "unencodable"}

(***************************************************************************)
(* The exported fields of RPCServer, what newRPCServer wraps, and the      *)
(* transport: whether it has deadlines, can only be closed, or is a plain  *)
(* io.ReadWriter, and whether the encoder has an idle timeout.  A          *)
(* net.PacketConn always has deadlines.                                    *)
(***************************************************************************)
ConfigType ==
    {c \in [NoRoutines : BOOLEAN, SerialBatch : BOOLEAN, WaitOnClose : BOOLEAN,
            Stream : BOOLEAN, Transport : {"deadline", "closer", "plain"},
            WriteTimeout : BOOLEAN] :
        ~c.Stream => c.Transport = "deadline"}

ASSUME ConfigsAssumption  == Configs \subseteq ConfigType
ASSUME BoundsAssumption   == MaxMessages \in Nat /\ MaxBatch \in Nat \ {0}
ASSUME EntriesAssumption  == Entries \subseteq AllEntries
ASSUME OutcomesAssumption == Outcomes \subseteq AllOutcomes

Tasks == 1 .. MaxMessages
Slots == 1 .. MaxBatch

(***************************************************************************)
(* What DecodeFrom delivers: an object or an array of objects; any other   *)
(* JSON value ("scalar"); bytes that begin like an array and are none      *)
(* ("malformed"); a json.SyntaxError or a json.UnmarshalTypeError in place *)
(* of a message.                                                           *)
(***************************************************************************)
Shapes == {"object", "array", "scalar", "malformed", "syntax", "type"}
Bodies == UNION {[1 .. n -> Entries] : n \in 0 .. MaxBatch}
Messages ==
    {m \in [shape : Shapes, entries : Bodies] :
        /\ m.shape = "object" => Len(m.entries) = 1
        /\ m.shape \notin {"object", "array"} => m.entries = << >>}
NoMessage == [shape |-> "none", entries |-> << >>]

Responses == [slot : 0 .. MaxBatch,
              kind : {"reply", "internal", "unencodable", "invalid", "parse"}]

VARIABLES
    rp,         \* the configuration, fixed at the start
    ctxDone,    \* the context given to Run is done
    stopped,    \* stop() has been called
    readable,   \* the decoder can still deliver a message
    writer,     \* "ok", "stalled" (the peer does not read) or "dead"
    loop,       \* "decode", "drain" (left the loop), "returned"
    decoded,    \* messages decoded so far
    msg,        \* the message of each task
    pc,         \* the progress of each task
    slot,       \* the progress of each entry of each task
    resps,      \* the responses each task has collected
    out         \* the tasks whose frames were written, in wire order

vars == <<rp, ctxDone, stopped, readable, writer, loop, decoded, msg, pc,
          slot, resps, out>>

(***************************************************************************)
(* How a task can end: its frame is on the wire, it had nothing to say,    *)
(* its encoding error went to OnEncodingError, or the error was discarded. *)
(***************************************************************************)
Ends == {"sent", "silent", "reported", "dropped"}

SctxDone == ctxDone \/ stopped

Running(t) == pc[t] = "run"

\* Mutant: NoRoutines is ignored.
InlineErrorsOnly(t) == msg[t].shape \in {"syntax", "type"}

\* The loop itself runs the task and decodes nothing meanwhile.
Inline(t) == rp.NoRoutines \/ msg[t].shape \in {"syntax", "type"}

Decoding == loop = "decode" /\ \A t \in Tasks : Inline(t) => ~Running(t)

\* Mutant: SerialBatch is ignored.
SerialSingle(t) == Len(msg[t].entries) = 1

\* handleRequest is called on the entries one after the other.
Serial(t) == Len(msg[t].entries) = 1 \/ rp.SerialBatch

EntryReady(t, i) ==
    /\ Running(t)
    /\ i \in DOMAIN msg[t].entries
    /\ slot[t][i] = "todo"
    /\ Serial(t) => \A j \in 1 .. (i - 1) : slot[t][j] = "done"

\* Mutant: runRequests does not wait for its goroutines.
AllStarted(t) ==
    Running(t) /\ \A i \in DOMAIN msg[t].entries : slot[t][i] # "todo"

AllHandled(t) ==
    Running(t) /\ \A i \in DOMAIN msg[t].entries : slot[t][i] = "done"

(***************************************************************************)
(* The answer to a message none of whose entries reaches handleRequest.    *)
(***************************************************************************)
ShapeError(m) ==
    CASE m.shape \in {"scalar", "syntax"} -> <<[slot |-> 0, kind |-> "parse"]>>
      [] m.shape \in {"malformed", "type"}
         \/ (m.shape = "array" /\ m.entries = << >>)
                                -> <<[slot |-> 0, kind |-> "invalid"]>>
      [] OTHER                  -> << >>

-----------------------------------------------------------------------------
Init ==
    /\ rp \in Configs
    /\ ctxDone = FALSE
    /\ stopped = FALSE
    /\ readable = TRUE
    /\ writer = "ok"
    /\ loop = "decode"
    /\ decoded = 0
    /\ msg = [t \in Tasks |-> NoMessage]
    /\ pc = [t \in Tasks |-> "none"]
    /\ slot = [t \in Tasks |-> [i \in Slots |-> "todo"]]
    /\ resps = [t \in Tasks |-> << >>]
    /\ out = << >>

(***************************************************************************)
(* The environment, while Run runs: its caller and the peer.               *)
(***************************************************************************)
taskVars == <<decoded, msg, pc, slot, resps, out>>

Cancel ==
    /\ loop # "returned"
    /\ ~ctxDone
    /\ ctxDone' = TRUE
    /\ UNCHANGED <<rp, stopped, readable, writer, loop, taskVars>>

PeerEOF ==
    /\ loop # "returned"
    /\ readable
    /\ readable' = FALSE
    /\ UNCHANGED <<rp, ctxDone, stopped, writer, loop, taskVars>>

PeerStalls ==
    /\ loop # "returned"
    /\ writer = "ok"
    /\ writer' = "stalled"
    /\ UNCHANGED <<rp, ctxDone, stopped, readable, loop, taskVars>>

PeerReads ==
    /\ loop # "returned"
    /\ writer = "stalled"
    /\ writer' = "ok"
    /\ UNCHANGED <<rp, ctxDone, stopped, readable, loop, taskVars>>

PeerBreaks ==
    /\ loop # "returned"
    /\ writer # "dead"
    /\ readable' = FALSE
    /\ writer' = "dead"
    /\ UNCHANGED <<rp, ctxDone, stopped, loop, taskVars>>

(***************************************************************************)
(* The loop.                                                               *)
(***************************************************************************)

\* Mutant: stop() comes first also with WaitOnClose.
LeaveLoopStops == loop' = "drain" /\ stopped' = TRUE

\* The deferred function up to wg.Wait: stop() comes first unless WaitOnClose.
LeaveLoop ==
    /\ loop' = "drain"
    /\ stopped' = (stopped \/ ~rp.WaitOnClose)

DecodeMessage(m) ==
    /\ Decoding
    /\ readable
    /\ decoded < MaxMessages
    /\ decoded' = decoded + 1
    /\ msg' = [msg EXCEPT ![decoded + 1] = m]
    /\ pc' = [pc EXCEPT ![decoded + 1] = "run"]
    /\ resps' = [resps EXCEPT ![decoded + 1] = ShapeError(m)]
    /\ UNCHANGED <<rp, ctxDone, stopped, readable, writer, loop, slot, out>>

\* EOF, a read error, the limit, or the closed connection ends the loop.
DecodeFails ==
    /\ Decoding
    /\ ~readable
    /\ LeaveLoop
    /\ UNCHANGED <<rp, ctxDone, readable, writer, taskVars>>

\* Mutant: a transport without deadlines is not closed to interrupt a read.
DecodeInterruptedDeadline ==
    /\ Decoding
    /\ readable
    /\ rp.Transport = "deadline"
    /\ LeaveLoop
    /\ UNCHANGED <<rp, ctxDone, readable, writer, taskVars>>

(***************************************************************************)
(* A blocked DecodeFrom is interrupted by sctx or by its idle timeout:     *)
(* with a deadline if the transport has them, else by closing it.  A plain *)
(* transport cannot be interrupted.                                        *)
(***************************************************************************)
DecodeInterrupted ==
    /\ Decoding
    /\ readable
    /\ rp.Transport # "plain"
    /\ readable' = (rp.Transport = "deadline")
    /\ writer' = IF rp.Transport = "deadline" THEN writer ELSE "dead"
    /\ LeaveLoop
    /\ UNCHANGED <<rp, ctxDone, taskVars>>

(***************************************************************************)
(* handleRequest.                                                          *)
(***************************************************************************)
HandleInvalid(t, i) ==
    /\ EntryReady(t, i)
    /\ msg[t].entries[i] = "invalid"
    /\ slot' = [slot EXCEPT ![t][i] = "done"]
    /\ resps' = [resps EXCEPT
                    ![t] = Append(@, [slot |-> i, kind |-> "invalid"])]
    /\ UNCHANGED <<rp, ctxDone, stopped, readable, writer, loop, decoded,
                   msg, pc, out>>

HandleCall(t, i) ==
    /\ EntryReady(t, i)
    /\ msg[t].entries[i] # "invalid"
    /\ slot' = [slot EXCEPT ![t][i] = "handling"]
    /\ UNCHANGED <<rp, ctxDone, stopped, readable, writer, loop, decoded,
                   msg, pc, resps, out>>

\* What handleRequest returns once the handler is done.  The recovered panic
\* overrides the result whether or not the request is a notification.
Answer(t, i, o) ==
    IF o = "panic" THEN <<[slot |-> i, kind |-> "internal"]>>
    ELSE IF msg[t].entries[i] = "notify" THEN << >>
    ELSE <<[slot |-> i, kind |-> IF o = "return" THEN "reply" ELSE o]>>

HandlerReturns(t, i, o) ==
    /\ Running(t)
    /\ i \in DOMAIN msg[t].entries
    /\ slot[t][i] = "handling"
    /\ slot' = [slot EXCEPT ![t][i] = "done"]
    /\ resps' = [resps EXCEPT ![t] = @ \o Answer(t, i, o)]
    /\ UNCHANGED <<rp, ctxDone, stopped, readable, writer, loop, decoded,
                   msg, pc, out>>

(***************************************************************************)
(* EncodeTo and what follows it.                                           *)
(***************************************************************************)
Unencodable(t) ==
    \E k \in DOMAIN resps[t] : resps[t][k].kind = "unencodable"

\* Mutant: the idle timeout of the encoder is ignored.
InterruptibleByContext == rp.Transport # "plain" /\ SctxDone

\* The AfterFunc of an EncodeTo can run: sctx is done, or the write outlasts
\* the idle timeout of the encoder.  The replies of a packet server share one
\* write deadline and no lock, so the timeout of one can hit any other.
Interruptible ==
    /\ rp.Transport # "plain"
    /\ SctxDone \/ (rp.WriteTimeout /\ (writer = "stalled" \/ ~rp.Stream))

\* That AfterFunc has closed a transport without deadlines.
MayClose(closes) ==
    /\ closes => Interruptible /\ rp.Transport = "closer"
    /\ readable' = (readable /\ ~closes)

\* The task is over; a syntax error on a stream also ends the loop.
Finish(t, end) ==
    /\ pc' = [pc EXCEPT ![t] = end]
    /\ IF msg[t].shape = "syntax" /\ rp.Stream
         THEN LeaveLoop
         ELSE UNCHANGED <<loop, stopped>>
    /\ UNCHANGED <<rp, ctxDone, decoded, msg, slot, resps>>

ReplyNothing(t) ==
    /\ AllHandled(t)
    /\ resps[t] = << >>
    /\ Finish(t, "silent")
    /\ UNCHANGED <<readable, writer, out>>

ReplySent(t, closes) ==
    /\ AllHandled(t)
    /\ resps[t] # << >>
    /\ ~Unencodable(t)
    /\ writer = "ok"
    /\ rp.Stream \/ ~SctxDone
    /\ MayClose(closes)
    /\ writer' = IF closes THEN "dead" ELSE writer
    /\ out' = Append(out, t)
    /\ Finish(t, "sent")

\* Mutant: no encoding error is reported.
LossEndDropped(t) == "dropped"

\* The error is discarded where the code writes _ = EncodeTo.
LossEnd(t) ==
    IF msg[t].shape \in {"malformed", "syntax", "type"}
      THEN "dropped" ELSE "reported"

\* Marshalling fails before anything is written.
ReplyUnencodable(t, closes) ==
    /\ AllHandled(t)
    /\ Unencodable(t)
    /\ MayClose(closes)
    /\ writer' = IF closes THEN "dead" ELSE writer
    /\ Finish(t, LossEnd(t))
    /\ UNCHANGED out

\* The write fails.  The error sticks to the json.Encoder of a stream.
ReplyLost(t, closes) ==
    /\ AllHandled(t)
    /\ resps[t] # << >>
    /\ ~Unencodable(t)
    /\ \/ writer = "dead"
       \/ Interruptible /\ (rp.Transport = "closer" => closes)
    /\ MayClose(closes)
    /\ writer' = IF rp.Stream THEN "dead" ELSE writer
    /\ Finish(t, LossEnd(t))
    /\ UNCHANGED out

\* A packet encoder whose AfterFunc has run returns the error of its context
\* although the datagram has left.
ReplyDisowned(t) ==
    /\ AllHandled(t)
    /\ resps[t] # << >>
    /\ ~Unencodable(t)
    /\ ~rp.Stream
    /\ writer = "ok"
    /\ Interruptible
    /\ out' = Append(out, t)
    /\ Finish(t, LossEnd(t))
    /\ UNCHANGED <<readable, writer>>

Reply(t) ==
    \/ ReplyNothing(t)
    \/ ReplyDisowned(t)
    \/ \E closes \in BOOLEAN :
          \/ ReplySent(t, closes)
          \/ ReplyUnencodable(t, closes)
          \/ ReplyLost(t, closes)

\* Mutant: Run does not wait for its goroutines.
ShutdownAtOnce ==
    /\ loop = "drain"
    /\ loop' = "returned"
    /\ stopped' = TRUE
    /\ UNCHANGED <<rp, ctxDone, readable, writer, taskVars>>

(***************************************************************************)
(* The rest of the deferred function: wg.Wait has returned; stop(), Close, *)
(* OnExit.  Close reaches the transport unless it is a plain one.          *)
(***************************************************************************)
Shutdown ==
    /\ loop = "drain"
    /\ \A t \in Tasks : ~Running(t)
    /\ loop' = "returned"
    /\ stopped' = TRUE
    /\ readable' = (readable /\ rp.Transport = "plain")
    /\ writer' = IF rp.Transport = "plain" THEN writer ELSE "dead"
    /\ UNCHANGED <<rp, ctxDone, taskVars>>

Terminated == loop = "returned" /\ UNCHANGED vars

Environment == Cancel \/ PeerEOF \/ PeerStalls \/ PeerReads \/ PeerBreaks

Handling(t) ==
    \E i \in Slots : \/ HandleInvalid(t, i)
                     \/ HandleCall(t, i)
                     \/ \E o \in Outcomes : HandlerReturns(t, i, o)

Next ==
    \/ Environment
    \/ \E m \in Messages : DecodeMessage(m)
    \/ DecodeFails
    \/ DecodeInterrupted
    \/ \E t \in Tasks : Handling(t) \/ Reply(t)
    \/ Shutdown
    \/ Terminated

Spec == Init /\ [][Next]_vars

(***************************************************************************)
(* Fairness: goroutines that can run do run, a context that is done does   *)
(* interrupt the read, and handlers return.  Nothing is assumed of the     *)
(* caller or the peer.  A packet reply with an idle timeout may wait for a *)
(* stalled peer for ever: another reply can undo its timeout (see          *)
(* TimeoutEnds of CancellableIO).                                          *)
(***************************************************************************)
Interrupts == rp.Stream \/ ~rp.WriteTimeout \/ writer # "stalled"

Fairness ==
    /\ WF_vars(DecodeFails)
    /\ WF_vars(SctxDone /\ DecodeInterrupted)
    /\ \A t \in Tasks : WF_vars(Handling(t)) /\ WF_vars(Interrupts /\ Reply(t))
    /\ WF_vars(Shutdown)

FairSpec == Spec /\ Fairness

-----------------------------------------------------------------------------
TypeOK ==
    /\ rp \in ConfigType
    /\ ctxDone \in BOOLEAN
    /\ stopped \in BOOLEAN
    /\ readable \in BOOLEAN
    /\ writer \in {"ok", "stalled", "dead"}
    /\ loop \in {"decode", "drain", "returned"}
    /\ decoded \in 0 .. MaxMessages
    /\ msg \in [Tasks -> Messages \cup {NoMessage}]
    /\ pc \in [Tasks -> {"none", "run"} \cup Ends]
    /\ slot \in [Tasks -> [Slots -> {"todo", "handling", "done"}]]
    /\ resps \in [Tasks -> Seq(Responses)]
    /\ out \in Seq(Tasks)

\* Some response is due: the message is not made of notifications alone.
Owes(m) ==
    \/ m.shape \notin {"object", "array"}
    \/ m.entries = << >>
    \/ \E i \in DOMAIN m.entries : m.entries[i] # "notify"

(***************************************************************************)
(* However the goroutines of a batch interleave, a frame on the wire       *)
(* answers every call and every invalid entry of its message exactly once, *)
(* and a notification only where its handler panicked.  (runRequests: the  *)
(* responses are collected under respMu and read after wg.Wait.)           *)
(***************************************************************************)
FrameComplete ==
    \A t \in Tasks :
        ((\E n \in DOMAIN out : out[n] = t) /\ msg[t].entries # << >>) =>
            LET entries == msg[t].entries
            IN  /\ \A i \in DOMAIN entries : entries[i] # "notify" =>
                       \E k \in DOMAIN resps[t] : resps[t][k].slot = i
                /\ \A j, k \in DOMAIN resps[t] :
                       resps[t][j].slot = resps[t][k].slot => j = k
                /\ \A k \in DOMAIN resps[t] :
                       /\ resps[t][k].slot \in DOMAIN entries
                       /\ entries[resps[t][k].slot] = "notify" =>
                              resps[t][k].kind = "internal"

(***************************************************************************)
(* When Run returns, every message that was owed a response has one frame  *)
(* on the wire or one report: OnEncodingError, or nothing for the three    *)
(* errors whose EncodeTo result the code discards.  It has both only where *)
(* a packet encoder disowns a datagram it has sent.  No message has two    *)
(* frames and none is still being worked on.                               *)
(***************************************************************************)
EverythingSettled ==
    /\ \A j, k \in DOMAIN out : out[j] = out[k] => j = k
    /\ \A k \in DOMAIN out :
          pc[out[k]] \in (IF rp.Stream THEN {"sent"} ELSE {"sent", "reported", "dropped"})
    /\ loop = "returned" =>
         \A t \in 1 .. decoded :
            \/ \E k \in DOMAIN out : out[k] = t
            \/ pc[t] = "silent" /\ ~Owes(msg[t])
            \/ pc[t] = "reported" /\ msg[t].shape \in {"object", "array", "scalar"}
            \/ pc[t] = "dropped" /\ msg[t].entries = << >>

(***************************************************************************)
(* Graceful shutdown.  With WaitOnClose, and as long as the caller does    *)
(* not cancel ctx, sctx stays live until the last task is over; so on a    *)
(* transport that still works, whatever ended the loop, no response is     *)
(* lost but the ones that cannot be encoded.  (Run's deferred function.)   *)
(***************************************************************************)
GracefulShutdown ==
    (rp.WaitOnClose /\ ~ctxDone) =>
        /\ stopped => \A t \in Tasks : ~Running(t)
        /\ (writer # "dead" /\ (rp.Stream \/ ~rp.WriteTimeout)) =>
             \A t \in Tasks : pc[t] \in {"reported", "dropped"} => Unencodable(t)

(***************************************************************************)
(* With NoRoutines the frames leave in the order the messages came in.     *)
(***************************************************************************)
InOrder ==
    rp.NoRoutines =>
        \A j, k \in DOMAIN out : j < k => out[j] < out[k]

(***************************************************************************)
(* With SerialBatch the responses of a batch are in the order of its       *)
(* entries and no two of its handlers are active at once.                  *)
(***************************************************************************)
SerialInOrder ==
    rp.SerialBatch => \A t \in Tasks :
        /\ \A j, k \in DOMAIN resps[t] :
              j < k => resps[t][j].slot < resps[t][k].slot
        /\ \A i, j \in DOMAIN msg[t].entries :
              slot[t][i] = "handling" /\ slot[t][j] = "handling" => i = j

(***************************************************************************)
(* Nothing happens behind the caller's back: from the moment stop() is the *)
(* only thing left (the loop is left and no task runs) no handler is       *)
(* called and nothing is written; Run never returns with a handler active. *)
(***************************************************************************)
QuietAfterReturn ==
    [][loop = "returned" => UNCHANGED <<msg, pc, slot, resps, out>>]_vars

(***************************************************************************)
(* Run implements the abstract service: a task is a message of the         *)
(* service, settled when its reply is written, lost or found empty.        *)
(***************************************************************************)
Phase  == CASE loop = "decode" -> "serving"
            [] loop = "drain" -> "draining"
            [] loop = "returned" -> "closed"

Status(t) == CASE pc[t] = "none" -> "none"
               [] pc[t] = "run" -> "pending"
               [] pc[t] = "sent" -> "answered"
               [] pc[t] = "silent" -> "quiet"
               [] pc[t] \in {"reported", "dropped"} -> "lost"

Service == INSTANCE RPCService
    WITH Requests <- Tasks,
         phase <- Phase,
         status <- [t \in Tasks |-> Status(t)],
         due <- {t \in Tasks : pc[t] # "none" /\ Owes(msg[t])}

ImplementsService == Service!Spec

-----------------------------------------------------------------------------
(***************************************************************************)
(* The inductive invariant behind the proofs in RPCServerProofs.           *)
(***************************************************************************)

\* Tasks are numbered by the messages decoded.
Numbered ==
    \A t \in Tasks :
        IF t <= decoded THEN pc[t] # "none" /\ msg[t] \in Messages
                        ELSE /\ pc[t] = "none"
                             /\ msg[t] = NoMessage
                             /\ \A i \in Slots : slot[t][i] = "todo"

\* What a task has collected fits the entries that are done, and a message
\* without entries has exactly the one response it began with.
Collected ==
    \A t \in Tasks : pc[t] # "none" =>
        LET entries == msg[t].entries
        IN  /\ entries = << >> => Len(resps[t]) = 1
            /\ \A i \in DOMAIN entries :
                  (slot[t][i] = "done" /\ entries[i] # "notify") =>
                      \E k \in DOMAIN resps[t] : resps[t][k].slot = i
            /\ entries # << >> => \A k \in DOMAIN resps[t] :
                  /\ resps[t][k].slot \in DOMAIN entries
                  /\ slot[t][resps[t][k].slot] = "done"
                  /\ entries[resps[t][k].slot] = "notify" =>
                        resps[t][k].kind = "internal"
            /\ \A j, k \in DOMAIN resps[t] :
                  resps[t][j].slot = resps[t][k].slot => j = k

\* A task that has ended has handled every entry and ended as its replies say.
Ended ==
    \A t \in Tasks :
        /\ pc[t] \in Ends =>
              \A i \in DOMAIN msg[t].entries : slot[t][i] = "done"
        /\ pc[t] = "silent" => resps[t] = << >>
        /\ pc[t] = "reported" => msg[t].shape \in {"object", "array", "scalar"}
        /\ pc[t] = "dropped" => msg[t].entries = << >>

\* The wire carries the frame of each task that was sent, once.
Wire ==
    /\ \A k \in DOMAIN out :
          /\ pc[out[k]] \in {"sent", "reported", "dropped"}
          /\ rp.Stream => pc[out[k]] = "sent"
    /\ \A j, k \in DOMAIN out : out[j] = out[k] => j = k
    /\ \A t \in Tasks : pc[t] = "sent" => \E k \in DOMAIN out : out[k] = t

\* Who may still be running.
Stopping ==
    /\ loop = "returned" => \A t \in Tasks : ~Running(t)
    /\ (rp.WaitOnClose /\ stopped) => loop = "returned"
    /\ \A t \in Tasks :
          (Running(t) /\ Inline(t)) => t = decoded /\ loop = "decode"

\* A serial batch is handled from the front.
FromTheFront ==
    rp.SerialBatch => \A t \in Tasks : \A i, j \in DOMAIN msg[t].entries :
        (j < i /\ slot[t][i] # "todo") => slot[t][j] = "done"

IndInv ==
    /\ TypeOK /\ Numbered /\ Collected /\ Ended /\ Wire /\ Stopping
    /\ FromTheFront /\ GracefulShutdown /\ InOrder /\ SerialInOrder

-----------------------------------------------------------------------------
(***************************************************************************)
(* Cancelling ctx makes Run return on every transport that can be          *)
(* interrupted, whatever the peer does; a packet server only if its        *)
(* replies have no idle timeout.                                           *)
(***************************************************************************)
CancelReturns ==
    (ctxDone /\ rp.Transport # "plain" /\ (rp.Stream \/ ~rp.WriteTimeout))
        ~> (loop = "returned")

(***************************************************************************)
(* Once nothing more can be read from a stream Run returns without being   *)
(* cancelled, even if the peer has stopped reading, provided writes time   *)
(* out.                                                                    *)
(***************************************************************************)
InputEndReturns ==
    (~readable /\ rp.WriteTimeout /\ rp.Stream /\ rp.Transport # "plain")
        ~> (loop = "returned")

(***************************************************************************)
(* "Returns nil for notifications." (comment of handleRequest): a message  *)
(* of notifications alone puts no frame on the wire.                       *)
(***************************************************************************)
NotificationSilent ==
    \A t \in Tasks : pc[t] = "sent" => Owes(msg[t])
=============================================================================

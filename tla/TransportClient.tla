-------------------------- MODULE TransportClient --------------------------
(***************************************************************************)
(* One TransportClient (src/transportclient.go) shared by goroutines, over *)
(* one connection to one RPCServer.  A response is not matched to its      *)
(* request by ID: a call takes the next frame the decoder delivers.  What  *)
(* makes that right is the mutex held across the exchange and the fact     *)
(* that a read or write error sticks to the json.Decoder or json.Encoder,  *)
(* so that the late answer of an abandoned call is never delivered.        *)
(*                                                                         *)
(* Each caller performs one operation.  A message is the name of its       *)
(* caller; the server is what RPCServer promises of it.                    *)
(***************************************************************************)
EXTENDS Integers, Sequences

CONSTANTS
    Callers,        \* goroutines; also the bound on operations
    Ops,            \* operations they may perform: a subset of AllOps
    Transports,     \* a subset of AllTransports
    IdleTimeouts,   \* whether SetIdleTimeout was called: a subset of BOOLEAN
    NoOne           \* not a caller

\* "call" is an operation that waits for a frame (Call, CallBatch, CallRaw) and
\* "notify" one that does not (Notify, NotifyBatch, NotifyRaw), whatever the
\* message carries: the server may leave the former without an answer and may
\* answer the latter.
AllOps        == {"call", "notify", "close"}
AllTransports == {"deadline", "closer", "plain"}

ASSUME OpsAssumption        == Ops \subseteq AllOps
ASSUME TransportsAssumption == Transports \subseteq AllTransports
ASSUME TimeoutsAssumption   == IdleTimeouts \subseteq BOOLEAN
ASSUME NoOneAssumption      == NoOne \notin Callers

VARIABLES
    op,         \* the operation of each caller, fixed at the start
    transport,  \* fixed at the start
    idle,       \* the codec has an idle timeout; fixed at the start
    ctx,        \* the callers whose context is done
    pc,         \* "start", "encode", "decode", "done"
    mu,         \* the holder of c.mu
    closed,     \* the client has closed the connection
    encErr,     \* the error that sticks to the encoder
    decErr,     \* the error that sticks to the decoder
    serving,    \* the server is still there
    reqs,       \* messages on their way to the server
    work,       \* messages the server is handling
    unasked,    \* history: the "notify" messages the server has answered
    resps,      \* frames on their way to the client, by what they answer
    got,        \* whose answer each caller was given
    log         \* the outcomes, in the order the operations ended

config     == <<op, transport, idle>>
clientVars == <<pc, mu, closed, encErr, decErr, got, log>>
serverVars == <<serving, work, unasked>>
vars == <<config, ctx, clientVars, serverVars, reqs, resps>>

Outcomes == {"refused", "error", "sent", "answered", "closed"}

Init ==
    /\ op \in [Callers -> Ops]
    /\ transport \in Transports
    /\ idle \in IdleTimeouts
    /\ ctx = {}
    /\ pc = [c \in Callers |-> "start"]
    /\ mu = NoOne
    /\ closed = FALSE
    /\ encErr = FALSE
    /\ decErr = FALSE
    /\ serving = TRUE
    /\ reqs = << >>
    /\ work = {}
    /\ unasked = {}
    /\ resps = << >>
    /\ got = [c \in Callers |-> NoOne]
    /\ log = << >>

\* The operation of c is over; the deferred Unlock has run.
Return(c, outcome) ==
    /\ pc' = [pc EXCEPT ![c] = "done"]
    /\ mu' = NoOne
    /\ log' = Append(log, [who |-> c, outcome |-> outcome])

(***************************************************************************)
(* The environment: contexts end, and the server does its work.            *)
(***************************************************************************)
CtxDone(c) ==
    /\ pc[c] # "done"
    /\ c \notin ctx
    /\ ctx' = ctx \cup {c}
    /\ UNCHANGED <<config, clientVars, serverVars, reqs, resps>>

ServerReads ==
    /\ serving
    /\ reqs # << >>
    /\ work' = work \cup {Head(reqs)}
    /\ reqs' = Tail(reqs)
    /\ UNCHANGED <<config, ctx, clientVars, serving, unasked, resps>>

\* runRequest or runRequests.  A message its sender awaits no answer to gets one
\* all the same when its handler panics, when it is an empty batch (NotifyBatch
\* checks nothing), null or not a request at all, or a NotifyRaw with an ID.
ServerAnswers(r) ==
    /\ r \in work
    /\ work' = work \ {r}
    /\ resps' = Append(resps, r)
    /\ unasked' = IF op[r] = "notify" THEN unasked \cup {r} ELSE unasked
    /\ UNCHANGED <<config, ctx, clientVars, serving, reqs>>

\* Notifications only, by whichever operation they were sent, or a request whose
\* result cannot be encoded.
ServerSilent(r) ==
    /\ r \in work
    /\ work' = work \ {r}
    /\ UNCHANGED <<config, ctx, clientVars, serving, unasked, reqs, resps>>

ServerLeaves ==
    /\ serving
    /\ serving' = FALSE
    /\ work' = {}
    /\ reqs' = << >>
    /\ UNCHANGED <<config, ctx, clientVars, unasked, resps>>

(***************************************************************************)
(* call, from its Lock to its Unlock.                                      *)
(***************************************************************************)

\* Waiting for c.mu takes no notice of the context; the first thing done
\* under it does.
Lock(c) ==
    /\ pc[c] = "start"
    /\ op[c] # "close"
    /\ mu = NoOne
    /\ IF c \in ctx
         THEN Return(c, "refused")
         ELSE /\ mu' = c
              /\ pc' = [pc EXCEPT ![c] = "encode"]
              /\ UNCHANGED log
    /\ UNCHANGED <<config, ctx, closed, encErr, decErr, got, serverVars,
                   reqs, resps>>

\* Mutant: only the idle timeout interrupts an operation.
IdleInterrupted(c) == idle /\ transport # "plain"

\* The AfterFunc of Encode or Decode may run: the caller's context is done, or
\* the one the idle timeout derives from it.
Interrupted(c) == (c \in ctx \/ idle) /\ transport # "plain"

\* It runs, and closes a transport without deadlines: the operation it was to
\* interrupt may have succeeded all the same.
MayClose(c, closes) ==
    /\ closes => Interrupted(c) /\ transport = "closer"
    /\ closed' = (closed \/ closes)

\* A server that has left loses what is sent to it.
EncodeOK(c, closes) ==
    /\ pc[c] = "encode"
    /\ ~encErr /\ ~closed
    /\ MayClose(c, closes)
    /\ reqs' = IF serving THEN Append(reqs, c) ELSE reqs
    /\ IF op[c] = "notify"
         THEN Return(c, "sent")
         ELSE pc' = [pc EXCEPT ![c] = "decode"] /\ UNCHANGED <<mu, log>>
    /\ UNCHANGED <<config, ctx, encErr, decErr, got, serverVars, resps>>

\* The request cannot be marshalled: nothing is written.
EncodeRefused(c, closes) ==
    /\ pc[c] = "encode"
    /\ MayClose(c, closes)
    /\ Return(c, "refused")
    /\ UNCHANGED <<config, ctx, encErr, decErr, got, serverVars, reqs,
                   resps>>

\* Mutant: a failed Encode leaves no trace in the encoder.
EncodeFailsOnce(c, closes) ==
    /\ pc[c] = "encode"
    /\ closed \/ ~serving \/ Interrupted(c)
    /\ MayClose(c, closes)
    /\ Return(c, "error")
    /\ UNCHANGED <<config, ctx, encErr, decErr, got, serverVars, reqs, resps>>

EncodeFails(c, closes) ==
    /\ pc[c] = "encode"
    /\ \/ encErr \/ closed \/ ~serving
       \/ Interrupted(c) /\ (transport = "closer" => closes)
    /\ MayClose(c, closes)
    /\ encErr' = TRUE
    /\ Return(c, "error")
    /\ UNCHANGED <<config, ctx, decErr, got, serverVars, reqs, resps>>

DecodeOK(c, closes) ==
    /\ pc[c] = "decode"
    /\ ~decErr /\ ~closed
    /\ MayClose(c, closes)
    /\ resps # << >>
    /\ got' = [got EXCEPT ![c] = Head(resps)]
    /\ resps' = Tail(resps)
    /\ Return(c, "answered")
    /\ UNCHANGED <<config, ctx, encErr, decErr, serverVars, reqs>>

\* Mutant: a failed Decode leaves no trace in the decoder.
DecodeFailsOnce(c, closes) ==
    /\ pc[c] = "decode"
    /\ closed \/ (~serving /\ resps = << >>) \/ Interrupted(c)
    /\ MayClose(c, closes)
    /\ Return(c, "error")
    /\ UNCHANGED <<config, ctx, encErr, decErr, got, serverVars, reqs, resps>>

DecodeFails(c, closes) ==
    /\ pc[c] = "decode"
    /\ \/ decErr \/ closed \/ (~serving /\ resps = << >>)
       \/ Interrupted(c) /\ (transport = "closer" => closes)
    /\ MayClose(c, closes)
    /\ decErr' = TRUE
    /\ Return(c, "error")
    /\ UNCHANGED <<config, ctx, encErr, got, serverVars, reqs, resps>>

\* Close closes the encoder and the decoder, which share the connection.
Close(c) ==
    /\ pc[c] = "start"
    /\ op[c] = "close"
    /\ mu = NoOne
    /\ closed' = (closed \/ transport # "plain")
    /\ Return(c, "closed")
    /\ UNCHANGED <<config, ctx, encErr, decErr, got, serverVars, reqs,
                   resps>>

Terminated == (\A c \in Callers : pc[c] = "done") /\ UNCHANGED vars

ClientStep(c) ==
    \/ Lock(c) \/ Close(c)
    \/ \E closes \in BOOLEAN :
          \/ EncodeOK(c, closes) \/ EncodeRefused(c, closes)
          \/ EncodeFails(c, closes)
          \/ DecodeOK(c, closes) \/ DecodeFails(c, closes)

Next ==
    \/ \E c \in Callers : CtxDone(c) \/ ClientStep(c)
    \/ ServerReads
    \/ \E r \in Callers : ServerAnswers(r) \/ ServerSilent(r)
    \/ ServerLeaves
    \/ Terminated

Spec == Init /\ [][Next]_vars

(***************************************************************************)
(* A goroutine that can take a step does.  Nothing is assumed of the       *)
(* server or the contexts.                                                 *)
(***************************************************************************)
FairSpec == Spec /\ \A c \in Callers : WF_vars(ClientStep(c))

-----------------------------------------------------------------------------
TypeOK ==
    /\ op \in [Callers -> Ops]
    /\ transport \in Transports
    /\ idle \in IdleTimeouts
    /\ ctx \subseteq Callers
    /\ pc \in [Callers -> {"start", "encode", "decode", "done"}]
    /\ mu \in Callers \cup {NoOne}
    /\ closed \in BOOLEAN /\ encErr \in BOOLEAN /\ decErr \in BOOLEAN
    /\ serving \in BOOLEAN
    /\ reqs \in Seq(Callers)
    /\ work \subseteq Callers
    /\ unasked \subseteq Callers
    /\ resps \in Seq(Callers)
    /\ got \in [Callers -> Callers \cup {NoOne}]
    /\ log \in Seq([who : Callers, outcome : Outcomes])

(***************************************************************************)
(* "Call sends a JSON-RPC request and waits for its response.": the frame  *)
(* a caller is given is the answer to its own message, whatever other      *)
(* callers abandon, close or send on the same connection meanwhile, unless *)
(* the server has answered a message nobody was to wait for: that frame,   *)
(* and every one after it, goes to the wrong call.                         *)
(***************************************************************************)
ResponseMatches == unasked = {} => \A c \in Callers : got[c] \in {c, NoOne}

(***************************************************************************)
(* Once an operation has failed on the wire, or Close has returned, no     *)
(* later call is answered: the connection is spent, though nothing in the  *)
(* TransportClient records it.  (On a plain transport Close does nothing.) *)
(***************************************************************************)
SpentAfterFailure ==
    \A j, k \in DOMAIN log :
        (/\ j < k
         /\ \/ log[j].outcome = "error"
            \/ log[j].outcome = "closed" /\ transport # "plain")
        => log[k].outcome # "answered"

(***************************************************************************)
(* The inductive invariant behind the proof of ResponseMatches.            *)
(***************************************************************************)
InFlight(r) ==
    \/ r \in work
    \/ \E k \in DOMAIN reqs : reqs[k] = r
    \/ \E k \in DOMAIN resps : resps[k] = r

\* A message exists once, in one place, and only after its Encode.
Once ==
    /\ \A j, k \in DOMAIN reqs : reqs[j] = reqs[k] => j = k
    /\ \A j, k \in DOMAIN resps : resps[j] = resps[k] => j = k
    /\ \A k \in DOMAIN reqs : reqs[k] \notin work
    /\ \A k \in DOMAIN resps : resps[k] \notin work
    /\ \A j \in DOMAIN reqs, k \in DOMAIN resps : reqs[j] # resps[k]
    /\ \A r \in Callers : InFlight(r) => pc[r] \in {"decode", "done"}

\* Whoever is in the middle of an exchange holds the mutex.
Exchanging == \A c \in Callers : pc[c] \in {"encode", "decode"} => mu = c

\* While the decoder works, the only call in flight is the one being waited for.
OnlyTheCurrent ==
    (~decErr /\ unasked = {}) => \A r \in Callers :
        (InFlight(r) /\ op[r] # "notify") => pc[r] = "decode"

\* A frame that answers no call is one of those the server was not asked for.
OnlyCalls == unasked = {} => \A k \in DOMAIN resps : op[resps[k]] # "notify"

ClientInv ==
    TypeOK /\ Once /\ Exchanging /\ OnlyTheCurrent /\ OnlyCalls

(***************************************************************************)
(* An operation whose own context ends gives the mutex back, whatever the  *)
(* contexts of the others; when every context has ended every operation    *)
(* returns, Close included, whatever the server does and with or without   *)
(* an idle timeout.                                                        *)
(***************************************************************************)
CancelledReturn ==
    /\ \A c \in Callers : (mu = c /\ c \in ctx /\ transport # "plain") ~> (mu # c)
    /\ (ctx = Callers /\ transport # "plain") ~> (\A c \in Callers : pc[c] = "done")
=============================================================================

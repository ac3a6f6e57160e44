---------------------------- MODULE HTTPHandler ----------------------------
(***************************************************************************)
(* HTTPHandler.ServeHTTP (src/httphandler.go): one RPCServer for each POST *)
(* that reads the messages of the body one after the other, handles their  *)
(* entries in order and writes to a buffer, and the HTTP response made of  *)
(* the buffer and the error that ended Run.  Handlers are found by a       *)
(* MethodMux.                                                              *)
(*                                                                         *)
(* A message is the sequence of its entries, empty for an empty array and  *)
(* for what is neither object nor array.  A body is its messages and what  *)
(* the reader meets after them: its end ("eof"), its end inside a message  *)
(* ("truncated"), a syntax error, the MaxBytes limit ("toolarge") or any   *)
(* other error of reading ("broken": the connection is reset, a chunk is   *)
(* malformed, a timeout).  A frame is named by its POST, by what it is and *)
(* by the number of the message it answers.                                *)
(***************************************************************************)
EXTENDS MethodMux, Sequences

CONSTANTS
    Posts,          \* the POST requests
    Stoppable       \* bound: those whose context may end while they are served

ASSUME StoppableAssumption == Stoppable \subseteq Posts

VARIABLES
    body,       \* of each POST: content type JSON or not, messages, end
    pc,         \* "none" before it is received; "decode", "entries", "handle"
                \* in Run; "done"
    read,       \* how many messages have been decoded
    entry,      \* the number of the current entry of the current message
    resps,      \* responses to the current message
    buffer,     \* frames written
    sctx,       \* the POSTs whose context is done
    failed,     \* history: the messages a handler of which failed, and how
    answer      \* the HTTP response: code, JSON content type or not, frames

runVars  == <<read, entry, resps, buffer, failed>>
httpVars == <<body, pc, runVars, sctx, answer>>

Frame(p, what, no) == [of |-> p, what |-> what, no |-> no]
Bodies   == [json : BOOLEAN, messages : Seq(Seq({"request", "notify", "invalid"})),
             end : {"eof", "truncated", "syntax", "toolarge", "broken"}]
NoBody   == [json |-> FALSE, messages |-> << >>, end |-> "eof"]
NoAnswer == [code |-> 0, json |-> FALSE, frames |-> << >>]

HTTPInit ==
    /\ body = [p \in Posts |-> NoBody]
    /\ pc = [p \in Posts |-> "none"]
    /\ read = [p \in Posts |-> 0]
    /\ entry = [p \in Posts |-> 0]
    /\ resps = [p \in Posts |-> << >>]
    /\ buffer = [p \in Posts |-> << >>]
    /\ sctx = {}
    /\ failed = [p \in Posts |-> {}]
    /\ answer = [p \in Posts |-> NoAnswer]

Respond(p, code, frames) ==
    /\ pc' = [pc EXCEPT ![p] = "done"]
    /\ answer' = [answer EXCEPT ![p] = [code |-> code, json |-> code # 415,
                                        frames |-> frames]]
    /\ buffer' = [buffer EXCEPT ![p] = << >>]

\* ServeHTTP is called.
Receive(p, b) ==
    /\ pc[p] = "none"
    /\ body' = [body EXCEPT ![p] = b]
    /\ IF b.json
         THEN /\ pc' = [pc EXCEPT ![p] = "decode"]
              /\ UNCHANGED <<buffer, answer>>
         ELSE Respond(p, 415, << >>)
    /\ UNCHANGED <<read, entry, resps, sctx, failed, muxVars>>

\* The client goes away, or the Binder calls stop.
CancelPost(p) ==
    /\ pc[p] \notin {"none", "done"}
    /\ p \in Stoppable \ sctx
    /\ sctx' = sctx \cup {p}
    /\ UNCHANGED <<body, pc, runVars, answer, muxVars>>

Write(p, what, no) == buffer' = [buffer EXCEPT ![p] = Append(@, Frame(p, what, no))]

DecodeMessage(p) ==
    /\ pc[p] = "decode"
    /\ read[p] < Len(body[p].messages)
    /\ read' = [read EXCEPT ![p] = @ + 1]
    /\ IF body[p].messages[read[p] + 1] = << >>
         THEN Write(p, "error", read[p] + 1) /\ UNCHANGED <<pc, entry>>
         ELSE /\ pc' = [pc EXCEPT ![p] = "entries"]
              /\ entry' = [entry EXCEPT ![p] = 1]
              /\ UNCHANGED buffer
    /\ UNCHANGED <<body, resps, failed, sctx, answer, muxVars>>

(***************************************************************************)
(* handleRequest, entry by entry; after the last, EncodeTo with what there *)
(* is to encode.  Its error goes to a callback.                            *)
(***************************************************************************)
Message(p) == body[p].messages[read[p]]
Entry(p)   == Message(p)[entry[p]]

Encodable(responses) ==
    responses # << >> /\ \A k \in DOMAIN responses : responses[k] # "unencodable"

\* Mutant: an entry replaces the responses of those before it.
LastOnly(p, responses) == responses

Gathered(p, responses) == resps[p] \o responses

Settle(p, responses) ==
    /\ IF entry[p] < Len(Message(p))
         THEN /\ pc' = [pc EXCEPT ![p] = "entries"]
              /\ entry' = [entry EXCEPT ![p] = @ + 1]
              /\ resps' = [resps EXCEPT ![p] = Gathered(p, responses)]
              /\ UNCHANGED buffer
         ELSE /\ pc' = [pc EXCEPT ![p] = "decode"]
              /\ entry' = [entry EXCEPT ![p] = 0]
              /\ resps' = [resps EXCEPT ![p] = << >>]
              /\ IF Encodable(Gathered(p, responses))
                   THEN Write(p, "response", read[p])
                   ELSE UNCHANGED buffer
    /\ UNCHANGED <<body, read, sctx, answer>>

HandleInvalid(p) ==
    /\ pc[p] = "entries"
    /\ Entry(p) = "invalid"
    /\ Settle(p, <<"response">>)
    /\ UNCHANGED <<failed, muxVars>>

HandleEntry(p) ==
    /\ pc[p] = "entries"
    /\ Entry(p) # "invalid"
    /\ pc' = [pc EXCEPT ![p] = "handle"]
    /\ LoadMethod(p)
    /\ UNCHANGED <<body, runVars, sctx, answer>>

\* A notification is not answered unless its handler panics.
Answer(p, what) ==
    IF Entry(p) = "notify"
      THEN IF what = "panic" THEN <<"response">> ELSE << >>
      ELSE <<what>>

\* What a handler may do.  A request is answered also if its handler panics or
\* returns an error; of a notification the result does not matter.
Outcomes(e) ==
    IF e = "notify" THEN {"response", "panic"} ELSE {"response", "unencodable"}

HandlerReturns(p, what) ==
    /\ pc[p] = "handle"
    /\ lookup[p] = "found"
    /\ what \in Outcomes(Entry(p))
    /\ failed' = IF what = "response" THEN failed
                 ELSE [failed EXCEPT ![p] = @ \cup {<<read[p], what>>}]
    /\ Settle(p, Answer(p, what))
    /\ EndLookup(p)

MethodNotFound(p) ==
    /\ pc[p] = "handle"
    /\ lookup[p] = "unknown"
    /\ Settle(p, Answer(p, "response"))
    /\ EndLookup(p)
    /\ UNCHANGED failed

(***************************************************************************)
(* Run returns and ServeHTTP responds.  The error of Run is joined with    *)
(* that of the context: an EOF is an EOF also in a cancelled request.      *)
(***************************************************************************)
WithParseError(p) ==
    Append(buffer[p], Frame(p, "error", Len(body[p].messages) + 1))

EOFStatus(p) == IF buffer[p] = << >> THEN 204 ELSE 200

\* The error frame that Run writes for a syntax error is dropped with the rest.
BodyEnds(p) ==
    /\ pc[p] = "decode"
    /\ read[p] = Len(body[p].messages)
    /\ \/ /\ body[p].end = "eof"
          /\ Respond(p, EOFStatus(p), IF EOFStatus(p) = 200 THEN buffer[p] ELSE << >>)
       \/ body[p].end = "truncated" /\ Respond(p, 200, WithParseError(p))
       \/ body[p].end = "toolarge" /\ Respond(p, 413, << >>)
       \/ body[p].end \in {"syntax", "broken"} /\ Respond(p, 500, << >>)
    /\ UNCHANGED <<body, read, entry, resps, failed, sctx, muxVars>>

\* The context closes the body, and reading it fails.
DecodeInterrupted(p) ==
    /\ pc[p] = "decode"
    /\ p \in sctx
    /\ Respond(p, 500, << >>)
    /\ UNCHANGED <<body, read, entry, resps, failed, sctx, muxVars>>

ServeHTTP(p) ==
    \/ DecodeMessage(p) \/ HandleInvalid(p) \/ HandleEntry(p) \/ MethodNotFound(p)
    \/ BodyEnds(p) \/ DecodeInterrupted(p)
    \/ \E what \in {"response", "unencodable", "panic"} : HandlerReturns(p, what)
    \/ (LoadDefault(p) /\ UNCHANGED httpVars)

-----------------------------------------------------------------------------
\* What the message k of p is owed goes by its entries and by what their
\* handlers did: a frame if it is empty, if one of its first n entries is no
\* notification or if the handler of a notification panicked, and none if the
\* result of a request cannot be encoded.
Replies(p, k, n) ==
    \/ \E i \in 1..n : body[p].messages[k][i] # "notify"
    \/ <<k, "panic">> \in failed[p]

Spoilt(p, k) == <<k, "unencodable">> \in failed[p]

Owes(p, k) ==
    /\ \/ body[p].messages[k] = << >>
       \/ Replies(p, k, Len(body[p].messages[k]))
    /\ ~Spoilt(p, k)

\* A truncated body is owed an error besides.
Owed(p) ==
    {k \in 1..Len(body[p].messages) : Owes(p, k)}
        \cup IF body[p].end = "truncated" THEN {Len(body[p].messages) + 1} ELSE {}

Numbers(frames) == {frames[k].no : k \in DOMAIN frames}
InOrder(frames) == \A j, k \in DOMAIN frames : j < k => frames[j].no < frames[k].no

(***************************************************************************)
(* The status of ServeHTTP tells what became of the body.  A 2xx response  *)
(* holds, in the order of the messages, one frame for each message that is *)
(* owed one and no other, and a truncated body's error after them; frames  *)
(* are withheld only from a body that is malformed or too large, whose     *)
(* reading fails or whose request was cancelled while it was read, and     *)
(* then the status is no 2xx.                                              *)
(***************************************************************************)
StatusTells ==
    \A p \in Posts : pc[p] = "done" =>
        LET a == answer[p]
        IN  /\ a.code = 200 => a.frames # << >>
            /\ a.code \in {200, 204} =>
                  Numbers(a.frames) = Owed(p) /\ InOrder(a.frames)
            /\ a.code = 500 => body[p].end \in {"syntax", "broken"} \/ p \in sctx
            /\ a.code \notin {200, 204} => a.frames = << >>
=============================================================================

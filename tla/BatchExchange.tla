---------------------------- MODULE BatchExchange ----------------------------
(***************************************************************************)
(* One batch of a Client, from BatchBuilder.Add to BatchCorrelate          *)
(* (src/client.go, batchbuilder.go, batch.go).  The batch has one owner;   *)
(* other goroutines use the same Client and draw IDs from the same         *)
(* counter meanwhile.  A request is its ID, and when that was drawn (0:    *)
(* not from the counter); a response is its ID, the request the server     *)
(* made it for (0: none) and its place in the server's batch.              *)
(***************************************************************************)
EXTENDS ID, FiniteSets, SequencesExt

CONSTANTS
    IDSpace,    \* the values of the uint32 counter: 2^32
    MaxDraws,   \* bound: IDs drawn from the counter
    MaxBatch,   \* bound: requests in the batch
    OwnIDs,     \* IDs of requests the caller makes itself
    StrayIDs    \* IDs of responses the server makes for no request

ASSUME SpaceAssumption == IDSpace \in Nat \ {0}
ASSUME BoundAssumption == MaxDraws \in Nat /\ MaxBatch \in Nat
ASSUME IDAssumption    == OwnIDs \subseteq IDs /\ StrayIDs \subseteq IDs

VARIABLES
    counter,    \* Client.id
    drawn,      \* how often it was incremented
    reqs,       \* the batch of requests
    arrived,    \* the batch of responses as it was decoded
    resps,      \* the batch of responses as the caller has it
    phase,      \* "build", "sent", "answered" for BatchBuilder.Call;
                \* "requests", "responses" for the loops of BatchCorrelate,
                \* "done" when they are through, "stopped" when left early
    pos,        \* where the loops of BatchCorrelate are
    processed,  \* processedResponses
    calls       \* the calls of correlated, as pairs <<request, response>>

vars == <<counter, drawn, reqs, arrived, resps, phase, pos, processed, calls>>

Request(id, draw) == [id |-> id, draw |-> draw]

NoResponse == [id |-> NoID, of |-> 0, no |-> 0]

\* Batch.Index: the first element that id equals, 0 (for -1) if there is none.
Index(batch, id) == SelectInSeq(batch, LAMBDA v : Equal(id, v.id))

\* Batch.Get
Get(batch, id) == IF Index(batch, id) = 0 THEN NoResponse ELSE batch[Index(batch, id)]

Init ==
    /\ counter \in 0 .. (IDSpace - 1)       \* rand.Uint32()
    /\ drawn = 0
    /\ reqs = << >>
    /\ arrived = << >>
    /\ resps = << >>
    /\ phase = "build"
    /\ pos = 0
    /\ processed = {}
    /\ calls = << >>

(***************************************************************************)
(* Building.                                                               *)
(***************************************************************************)
\* Mutant: the counter wraps one early.
NextIDNarrow == (counter + 1) % (IDSpace - 1)

NextID == (counter + 1) % IDSpace

\* nextID by another goroutine: Call, or Add to another batch.
DrawElsewhere ==
    /\ drawn < MaxDraws
    /\ phase = "build"
    /\ counter' = NextID
    /\ drawn' = drawn + 1
    /\ UNCHANGED <<reqs, arrived, resps, phase, pos, processed, calls>>

\* BatchBuilder.Add; parameters it refuses change nothing.
Add ==
    /\ phase = "build"
    /\ Len(reqs) < MaxBatch
    /\ drawn < MaxDraws
    /\ counter' = NextID
    /\ drawn' = drawn + 1
    /\ reqs' = Append(reqs, Request(IntID(NextID), drawn'))
    /\ UNCHANGED <<arrived, resps, phase, pos, processed, calls>>

\* Batch.Add of a request the caller has made, or of a notification.
AddOwn(id) ==
    /\ phase = "build"
    /\ Len(reqs) < MaxBatch
    /\ reqs' = Append(reqs, Request(id, 0))
    /\ UNCHANGED <<counter, drawn, arrived, resps, phase, pos, processed, calls>>

DeleteRequest(id) ==
    /\ phase = "build"
    /\ Index(reqs, id) # 0
    /\ reqs' = RemoveAt(reqs, Index(reqs, id))
    /\ UNCHANGED <<counter, drawn, arrived, resps, phase, pos, processed, calls>>

\* Batch.Reset, before or after a Call: the builder is reused.
Reset ==
    /\ reqs # << >> \/ phase # "build"
    /\ phase \notin {"requests", "responses"}
    /\ reqs' = << >>
    /\ arrived' = << >>
    /\ resps' = << >>
    /\ phase' = "build"
    /\ pos' = 0
    /\ processed' = {}
    /\ calls' = << >>
    /\ UNCHANGED <<counter, drawn>>

Call ==
    /\ phase = "build"
    /\ phase' = "sent"
    /\ UNCHANGED <<counter, drawn, reqs, arrived, resps, pos, processed, calls>>

(***************************************************************************)
(* The server (runRequests): it answers in any order and echoes the ID it  *)
(* decoded; requests without an ID are notifications.  It may leave calls  *)
(* out (the batch came back incomplete) and add a response of its own: the *)
(* error for an entry it could not read, or the *Response of a handler.    *)
(* No answer at all is a Call that fails.                                  *)
(***************************************************************************)
CallNos == {i \in DOMAIN reqs : ~IsZero(reqs[i].id)}

Orders == {o \in BoundedSeq(CallNos \cup {0}, MaxBatch + 1) : IsInjective(o)}

Answer(order, stray) ==
    /\ phase = "sent"
    /\ order # << >>
    /\ arrived' = [j \in DOMAIN order |->
                     [id |-> Decoded(IF order[j] = 0 THEN stray ELSE reqs[order[j]].id),
                      of |-> order[j], no |-> j]]
    /\ resps' = arrived'
    /\ phase' = "answered"
    /\ UNCHANGED <<counter, drawn, reqs, pos, processed, calls>>

(***************************************************************************)
(* The caller takes responses out one by one with Batch.Delete ...         *)
(***************************************************************************)
TakeResponse(i) ==
    /\ phase = "answered"
    /\ LET j == Index(resps, reqs[i].id)
       IN  /\ j # 0
           /\ calls' = Append(calls, <<i, resps[j]>>)
           /\ resps' = RemoveAt(resps, j)
    /\ UNCHANGED <<counter, drawn, reqs, arrived, phase, pos, processed>>

(***************************************************************************)
(* ... or calls BatchCorrelate, whose function may stop it at any call.    *)
(***************************************************************************)
Correlate ==
    /\ phase = "answered"
    /\ calls = << >>
    /\ phase' = "requests"
    /\ pos' = 1
    /\ UNCHANGED <<counter, drawn, reqs, arrived, resps, processed, calls>>

\* The loop goes on to its next element unless correlated returned false.
Advance(cont) ==
    /\ pos' = pos + 1
    /\ phase' = IF cont THEN phase ELSE "stopped"

\* Mutant: the request's ID is marked, not the response's.
MarkRequest(req, res) == IF res = NoResponse THEN {} ELSE {req.id}

\* processedResponses[res.id()] = true; keys are compared as Go values.
Mark(req, res) == IF res = NoResponse THEN {} ELSE {res.id}

CorrelateRequest(cont) ==
    /\ phase = "requests"
    /\ pos <= Len(reqs)
    /\ LET res == Get(resps, reqs[pos].id)
       IN  /\ processed' = processed \cup Mark(reqs[pos], res)
           /\ calls' = Append(calls, <<pos, res>>)
    /\ Advance(cont)
    /\ UNCHANGED <<counter, drawn, reqs, arrived, resps>>

RequestsDone ==
    /\ phase = "requests"
    /\ pos > Len(reqs)
    /\ phase' = "responses"
    /\ pos' = 1
    /\ UNCHANGED <<counter, drawn, reqs, arrived, resps, processed, calls>>

CorrelateResponse(cont) ==
    /\ phase = "responses"
    /\ pos <= Len(resps)
    /\ IF resps[pos].id \in processed
         THEN pos' = pos + 1 /\ UNCHANGED <<phase, calls>>
         ELSE calls' = Append(calls, <<0, resps[pos]>>) /\ Advance(cont)
    /\ UNCHANGED <<counter, drawn, reqs, arrived, resps, processed>>

ResponsesDone ==
    /\ phase = "responses"
    /\ pos > Len(resps)
    /\ phase' = "done"
    /\ UNCHANGED <<counter, drawn, reqs, arrived, resps, pos, processed, calls>>

Next ==
    \/ DrawElsewhere \/ Add \/ Reset \/ Call \/ Correlate \/ RequestsDone
    \/ ResponsesDone
    \/ \E id \in OwnIDs : AddOwn(id) \/ DeleteRequest(id)
    \/ \E order \in Orders, stray \in StrayIDs : Answer(order, stray)
    \/ \E i \in DOMAIN reqs : TakeResponse(i)
    \/ \E cont \in BOOLEAN : CorrelateRequest(cont) \/ CorrelateResponse(cont)

Spec == Init /\ [][Next]_vars

-----------------------------------------------------------------------------
(***************************************************************************)
(* What BatchCorrelate asks of the IDs: requests that were drawn from the  *)
(* counter less than a whole turn of it apart, no other two with equal     *)
(* IDs, and no stray response with the ID of a request.                    *)
(***************************************************************************)
Unambiguous ==
    /\ \A i, j \in DOMAIN reqs : i < j =>
          IF reqs[i].draw # 0 /\ reqs[j].draw # 0
            THEN reqs[j].draw - reqs[i].draw < IDSpace
            ELSE ~Equal(reqs[i].id, reqs[j].id)
    /\ \A i \in DOMAIN reqs, j \in DOMAIN arrived :
          arrived[j].of = 0 => ~Equal(reqs[i].id, arrived[j].id)

(***************************************************************************)
(* A response is given only to the request it answers, whether it is taken *)
(* with Delete or comes from BatchCorrelate, in whatever order responses   *)
(* arrive, across the wrap of the 32-bit counter and although an int64 ID  *)
(* comes back as a json.Number.                                            *)
(***************************************************************************)
OwnResponse ==
    Unambiguous =>
        \A k \in DOMAIN calls :
            LET req == calls[k][1]
                res == calls[k][2]
            IN  req # 0 /\ res # NoResponse => res.of = req

(***************************************************************************)
(* BatchCorrelate against its definition: when it has run to the end,      *)
(* every request was reported once, with its response or, where there is   *)
(* none, without; every other response was reported once; nothing else.    *)
(***************************************************************************)
Reference ==
    {<<arrived[j].of, arrived[j]>> : j \in DOMAIN arrived}
      \cup {<<i, NoResponse>> : i \in {r \in DOMAIN reqs :
                                 \A j \in DOMAIN arrived : arrived[j].of # r}}

CorrelationExact ==
    (phase = "done" /\ Unambiguous) =>
        ToSet(calls) = Reference /\ IsInjective(calls)
=============================================================================

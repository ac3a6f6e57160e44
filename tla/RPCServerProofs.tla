-------------------------- MODULE RPCServerProofs --------------------------
(***************************************************************************)
(* Proofs about RPCServer, for every set of configurations, number of      *)
(* messages and size of batch.                                             *)
(***************************************************************************)
EXTENDS RPCServer, TLAPS

(***************************************************************************)
(* The entries of a message are numbered by slots.                         *)
(***************************************************************************)
LEMMA EntriesAreSlots ==
    ASSUME NEW m \in Messages \cup {NoMessage}
    PROVE  /\ m.entries \in Seq(Entries)
           /\ DOMAIN m.entries = 1 .. Len(m.entries)
           /\ DOMAIN m.entries \subseteq Slots
           /\ \A i \in DOMAIN m.entries : m.entries[i] \in Entries
<1>1. CASE m = NoMessage
  BY <1>1, BoundsAssumption DEF NoMessage, Slots
<1>2. CASE m \in Messages
  <2>1. PICK n \in 0 .. MaxBatch : m.entries \in [1 .. n -> Entries]
    BY <1>2 DEF Messages, Bodies
  <2>2. m.entries \in Seq(Entries) /\ Len(m.entries) = n
    BY <2>1
  <2> QED
    BY <2>1, <2>2, BoundsAssumption DEF Slots
<1> QED
  BY <1>1, <1>2

(***************************************************************************)
(* A message with no entry for a handler, and no other, begins with the    *)
(* one response that rejects it.                                           *)
(***************************************************************************)
LEMMA ShapeErrorType ==
    ASSUME NEW m \in Messages
    PROVE  /\ ShapeError(m) \in Seq(Responses)
           /\ m.entries = << >> => Len(ShapeError(m)) = 1
           /\ m.entries # << >> => ShapeError(m) = << >>
<1> DEFINE parse == [slot |-> 0, kind |-> "parse"]
           invalid == [slot |-> 0, kind |-> "invalid"]
<1>1. parse \in Responses /\ invalid \in Responses
  BY BoundsAssumption DEF Responses
<1>2. /\ m.shape \in Shapes
      /\ m.shape = "object" => Len(m.entries) = 1
      /\ m.shape \notin {"object", "array"} => m.entries = << >>
  BY DEF Messages
<1>3. m.shape = "object" => m.entries # << >>
  BY <1>2
<1>4. /\ m.entries = << >> => ShapeError(m) \in {<<parse>>, <<invalid>>}
      /\ m.entries # << >> => ShapeError(m) = << >>
  BY <1>2, <1>3 DEF ShapeError, Shapes
<1> HIDE DEF parse, invalid
<1>5. /\ <<parse>> \in Seq(Responses) /\ <<invalid>> \in Seq(Responses)
      /\ << >> \in Seq(Responses)
      /\ Len(<<parse>>) = 1 /\ Len(<<invalid>>) = 1
  BY <1>1
<1> QED
  BY <1>4, <1>5

(***************************************************************************)
(* handleRequest returns a well-formed response for its entry, or nothing, *)
(* and nothing only for a notification, which only a panic makes answer.   *)
(***************************************************************************)
LEMMA AnswerType ==
    ASSUME NEW t \in Tasks, NEW i \in Slots, NEW o \in Outcomes
    PROVE  /\ Answer(t, i, o) \in Seq(Responses)
           /\ \/ Answer(t, i, o) = << >> /\ msg[t].entries[i] = "notify"
              \/ \E r \in Responses :
                    /\ Answer(t, i, o) = <<r>> /\ r.slot = i
                    /\ msg[t].entries[i] = "notify" => r.kind = "internal"
<1> DEFINE answer(k) == [slot |-> i, kind |-> k]
           notify == msg[t].entries[i] = "notify"
<1>1. /\ answer("internal") \in Responses
      /\ answer("reply") \in Responses
      /\ answer("unencodable") \in Responses
  BY BoundsAssumption DEF Responses, Slots
<1>2. o \in {"return", "panic", "unencodable"}
  BY OutcomesAssumption DEF AllOutcomes
<1>3. \/ Answer(t, i, o) = <<answer("internal")>>
      \/ Answer(t, i, o) = << >> /\ notify
      \/ Answer(t, i, o) = <<answer("reply")>> /\ ~notify
      \/ Answer(t, i, o) = <<answer("unencodable")>> /\ ~notify
  BY <1>2 DEF Answer
<1>4. \A k : answer(k).slot = i /\ answer(k).kind = k
  OBVIOUS
<1> HIDE DEF answer
<1>5. \A r \in Responses : <<r>> \in Seq(Responses)
  OBVIOUS
<1>6. << >> \in Seq(Responses)
  OBVIOUS
<1> QED
  BY <1>1, <1>3, <1>4, <1>5, <1>6

-----------------------------------------------------------------------------
LEMMA InitTypeOK == Init => TypeOK
<1> SUFFICES ASSUME Init PROVE TypeOK
  OBVIOUS
<1>1. resps \in [Tasks -> Seq(Responses)] /\ out \in Seq(Tasks)
  BY DEF Init
<1>2. decoded \in 0 .. MaxMessages
  BY BoundsAssumption DEF Init
<1> QED
  BY <1>1, <1>2, ConfigsAssumption DEF Init, TypeOK

LEMMA NextTypeOK == TypeOK /\ [Next]_vars => TypeOK'
<1> SUFFICES ASSUME TypeOK, [Next]_vars PROVE TypeOK'
  OBVIOUS
<1> USE DEF TypeOK
<1>1. CASE Environment
  BY <1>1 DEF Environment, Cancel, PeerEOF, PeerStalls, PeerReads, PeerBreaks,
     taskVars
<1>2. ASSUME NEW m \in Messages, DecodeMessage(m) PROVE TypeOK'
  <2>1. decoded + 1 \in Tasks /\ decoded' \in 0 .. MaxMessages
    BY <1>2, BoundsAssumption DEF DecodeMessage, Tasks
  <2>2. msg' \in [Tasks -> Messages \cup {NoMessage}]
    BY <1>2, <2>1 DEF DecodeMessage
  <2>3. resps' \in [Tasks -> Seq(Responses)]
    BY <1>2, <2>1, ShapeErrorType DEF DecodeMessage
  <2> QED
    BY <1>2, <2>1, <2>2, <2>3 DEF DecodeMessage, Ends
<1>3. CASE DecodeFails \/ DecodeInterrupted
  BY <1>3 DEF DecodeFails, DecodeInterrupted, LeaveLoop, taskVars
<1>4. ASSUME NEW t \in Tasks, NEW i \in Slots, HandleInvalid(t, i)
      PROVE  TypeOK'
  <2>1. [slot |-> i, kind |-> "invalid"] \in Responses
    BY BoundsAssumption DEF Responses, Slots
  <2>2. resps' \in [Tasks -> Seq(Responses)]
    BY <1>4, <2>1 DEF HandleInvalid
  <2> QED
    BY <1>4, <2>2 DEF HandleInvalid
<1>5. ASSUME NEW t \in Tasks, NEW i \in Slots, HandleCall(t, i)
      PROVE  TypeOK'
  BY <1>5 DEF HandleCall
<1>6. ASSUME NEW t \in Tasks, NEW i \in Slots, NEW o \in Outcomes,
             HandlerReturns(t, i, o)
      PROVE  TypeOK'
  <2>1. resps' \in [Tasks -> Seq(Responses)]
    BY <1>6, AnswerType DEF HandlerReturns
  <2> QED
    BY <1>6, <2>1 DEF HandlerReturns
<1>7. ASSUME NEW t \in Tasks, Reply(t) PROVE TypeOK'
  <2> USE DEF Finish, LeaveLoop, LossEnd, Ends
  <2>1. CASE ReplyNothing(t)
    BY <2>1 DEF ReplyNothing
  <2>2. ASSUME NEW closes \in BOOLEAN, ReplySent(t, closes) PROVE TypeOK'
    <3>1. out' \in Seq(Tasks)
      BY <2>2 DEF ReplySent
    <3> QED
      BY <2>2, <3>1 DEF ReplySent, MayClose
  <2>3. ASSUME NEW closes \in BOOLEAN, ReplyUnencodable(t, closes) PROVE TypeOK'
    BY <2>3 DEF ReplyUnencodable, MayClose
  <2>4. ASSUME NEW closes \in BOOLEAN, ReplyLost(t, closes) PROVE TypeOK'
    BY <2>4 DEF ReplyLost, MayClose
  <2>5. CASE ReplyDisowned(t)
    <3>1. out' \in Seq(Tasks)
      BY <2>5 DEF ReplyDisowned
    <3> QED
      BY <2>5, <3>1 DEF ReplyDisowned
  <2> QED
    BY <1>7, <2>1, <2>2, <2>3, <2>4, <2>5 DEF Reply
<1>8. CASE Shutdown
  BY <1>8 DEF Shutdown, taskVars
<1>9. CASE Terminated \/ UNCHANGED vars
  BY <1>9 DEF Terminated, vars
<1> QED
  BY <1>1, <1>2, <1>3, <1>4, <1>5, <1>6, <1>7, <1>8, <1>9 DEF Next, Handling

(***************************************************************************)
(* Every reachable state is well typed: in particular no more than         *)
(* MaxMessages tasks exist and every collected response belongs to a slot. *)
(***************************************************************************)
THEOREM TypeCorrect == Spec => []TypeOK
<1> QED
  BY InitTypeOK, NextTypeOK, PTL DEF Spec

-----------------------------------------------------------------------------
(***************************************************************************)
(* The steps that touch no task.                                           *)
(***************************************************************************)
Idle == \/ Environment \/ DecodeFails \/ DecodeInterrupted
        \/ Shutdown \/ Terminated \/ UNCHANGED vars

LEMMA IdleLeavesTasks == Idle => UNCHANGED <<rp, taskVars>>
  BY DEF Idle, Environment, Cancel, PeerEOF, PeerStalls, PeerReads, PeerBreaks,
     DecodeFails, DecodeInterrupted, Shutdown, Terminated, vars, taskVars

LEMMA StepCases ==
    ASSUME [Next]_vars
    PROVE  \/ Idle
           \/ \E m \in Messages : DecodeMessage(m)
           \/ \E t \in Tasks, i \in Slots : HandleInvalid(t, i)
           \/ \E t \in Tasks, i \in Slots : HandleCall(t, i)
           \/ \E t \in Tasks, i \in Slots, o \in Outcomes : HandlerReturns(t, i, o)
           \/ \E t \in Tasks : Reply(t)
  BY DEF Next, Idle, Handling

(***************************************************************************)
(* What every way of replying has in common.                               *)
(***************************************************************************)
LEMMA ReplyShape ==
    ASSUME TypeOK, NEW t \in Tasks, Reply(t)
    PROVE  /\ AllHandled(t)
           /\ UNCHANGED <<rp, ctxDone, decoded, msg, slot, resps>>
           /\ \E end \in Ends :
                /\ pc' = [pc EXCEPT ![t] = end]
                /\ end = "silent" => resps[t] = << >>
                /\ end = "sent" => ~Unencodable(t)
                /\ end = "reported" =>
                      msg[t].shape \notin {"malformed", "syntax", "type"}
                /\ end = "dropped" =>
                      msg[t].shape \in {"malformed", "syntax", "type"}
                /\ out' = out \/ out' = Append(out, t)
                /\ end = "sent" => out' = Append(out, t)
                /\ (end = "silent" \/ (rp.Stream /\ end # "sent")) => out' = out
                /\ resps[t] = << >> => end = "silent"
           /\ \/ UNCHANGED <<loop, stopped>>
              \/ LeaveLoop /\ msg[t].shape = "syntax"
<1>1. CASE ReplyNothing(t)
  BY <1>1 DEF ReplyNothing, Finish, Ends
<1>2. ASSUME NEW closes \in BOOLEAN, ReplySent(t, closes)
      PROVE  /\ AllHandled(t) /\ ~Unencodable(t) /\ resps[t] # << >>
             /\ out' = Append(out, t) /\ Finish(t, "sent")
  BY <1>2 DEF ReplySent
<1>3. ASSUME NEW closes \in BOOLEAN,
             ReplyUnencodable(t, closes) \/ ReplyLost(t, closes)
      PROVE  /\ AllHandled(t) /\ resps[t] # << >>
             /\ out' = out /\ Finish(t, LossEnd(t))
  <2>1. CASE ReplyLost(t, closes)
    BY <2>1 DEF ReplyLost
  <2>2. CASE ReplyUnencodable(t, closes)
    <3>1. resps[t] # << >>
      BY <2>2 DEF ReplyUnencodable, Unencodable
    <3> QED
      BY <2>2, <3>1 DEF ReplyUnencodable
  <2> QED
    BY <1>3, <2>1, <2>2
<1>4. CASE \E closes \in BOOLEAN : ReplySent(t, closes)
  BY <1>2, <1>4 DEF Finish, Ends
<1>5. CASE \E closes \in BOOLEAN :
              ReplyUnencodable(t, closes) \/ ReplyLost(t, closes)
  BY <1>3, <1>5 DEF Finish, Ends, LossEnd
<1>6. CASE ReplyDisowned(t)
  BY <1>6 DEF ReplyDisowned, Finish, Ends, LossEnd
<1> QED
  BY <1>1, <1>4, <1>5, <1>6 DEF Reply

-----------------------------------------------------------------------------
LEMMA NumberedNext == IndInv /\ [Next]_vars => Numbered'
<1> SUFFICES ASSUME IndInv, [Next]_vars PROVE Numbered'
  OBVIOUS
<1> USE DEF Numbered, Tasks
<1>0. TypeOK /\ Numbered /\ Ended
  BY DEF IndInv
<1>1. CASE Idle
  BY <1>0, <1>1, IdleLeavesTasks DEF taskVars
<1>2. ASSUME NEW m \in Messages, DecodeMessage(m) PROVE Numbered'
  BY <1>0, <1>2, BoundsAssumption DEF DecodeMessage, TypeOK
<1>3. ASSUME NEW t \in Tasks, pc[t] = "run", UNCHANGED <<pc, msg, decoded>>,
             \A u \in Tasks \ {t} : slot'[u] = slot[u]
      PROVE  Numbered'
  BY <1>0, <1>3
<1>4. ASSUME NEW t \in Tasks, NEW i \in Slots, NEW o \in Outcomes,
             HandlerReturns(t, i, o)
      PROVE  Numbered'
  BY <1>0, <1>3, <1>4 DEF HandlerReturns, Running, TypeOK
<1>5. ASSUME NEW t \in Tasks, NEW i \in Slots, HandleInvalid(t, i)
      PROVE  Numbered'
  BY <1>0, <1>3, <1>5 DEF HandleInvalid, EntryReady, Running, TypeOK
<1>6. ASSUME NEW t \in Tasks, NEW i \in Slots, HandleCall(t, i)
      PROVE  Numbered'
  BY <1>0, <1>3, <1>6 DEF HandleCall, EntryReady, Running, TypeOK
<1>7. ASSUME NEW t \in Tasks, Reply(t) PROVE Numbered'
  <2>1. PICK end \in Ends : pc' = [pc EXCEPT ![t] = end]
    BY <1>0, <1>7, ReplyShape
  <2>2. pc[t] = "run" /\ UNCHANGED <<decoded, msg, slot>>
    BY <1>0, <1>7, ReplyShape DEF AllHandled, Running
  <2> QED
    BY <1>0, <2>1, <2>2 DEF TypeOK, Ends
<1> QED
  BY <1>1, <1>2, <1>4, <1>7, <1>5, <1>6, StepCases

(***************************************************************************)
(* handleRequest on entry i of task t is over and has returned `new`.      *)
(***************************************************************************)
LEMMA CollectedEntry ==
    ASSUME TypeOK, Collected,
           NEW t \in Tasks, pc[t] # "none", UNCHANGED <<pc, msg>>,
           NEW i \in DOMAIN msg[t].entries, i \in Slots, slot[t][i] # "done",
           slot' = [slot EXCEPT ![t][i] = "done"],
           NEW new,
           resps' = [resps EXCEPT ![t] = @ \o new],
           \/ new = << >> /\ msg[t].entries[i] = "notify"
           \/ \E r \in Responses :
                /\ new = <<r>> /\ r.slot = i
                /\ msg[t].entries[i] = "notify" => r.kind = "internal"
    PROVE  Collected'
<1>1. /\ resps[t] \in Seq(Responses) /\ resps'[t] = resps[t] \o new
      /\ \A u \in Tasks \ {t} : slot'[u] = slot[u] /\ resps'[u] = resps[u]
      /\ slot'[t][i] = "done"
      /\ \A j \in Slots : slot[t][j] = "done" => slot'[t][j] = "done"
      /\ \A j \in Slots \ {i} : slot'[t][j] = slot[t][j]
  BY DEF TypeOK
<1>2. DOMAIN msg[t].entries \subseteq Slots /\ msg[t].entries # << >>
  BY EntriesAreSlots DEF TypeOK
<1> DEFINE Fits(u) == (pc[u] # "none" =>
        LET entries == msg[u].entries
        IN  /\ entries = << >> => Len(resps[u]) = 1
            /\ \A l \in DOMAIN entries :
                  (slot[u][l] = "done" /\ entries[l] # "notify") =>
                      \E k \in DOMAIN resps[u] : resps[u][k].slot = l
            /\ entries # << >> => \A k \in DOMAIN resps[u] :
                  /\ resps[u][k].slot \in DOMAIN entries
                  /\ slot[u][resps[u][k].slot] = "done"
                  /\ entries[resps[u][k].slot] = "notify" =>
                        resps[u][k].kind = "internal"
            /\ \A j, k \in DOMAIN resps[u] :
                  resps[u][j].slot = resps[u][k].slot => j = k)'
<1>3. ASSUME NEW u \in Tasks \ {t} PROVE Fits(u)
  BY <1>1, <1>3 DEF Collected
<1>4. CASE new = << >> /\ msg[t].entries[i] = "notify"
  <2>1. resps'[t] = resps[t]
    BY <1>1, <1>4
  <2>2. Fits(t)
    BY <1>1, <1>2, <1>4, <2>1 DEF Collected
  <2>3. \A u \in Tasks : Fits(u)
    <3> HIDE DEF Fits
    <3> QED
      BY <1>3, <2>2
  <2> QED
    BY <2>3, Zenon DEF Collected
<1>5. ASSUME NEW r \in Responses, new = <<r>>, r.slot = i,
             msg[t].entries[i] = "notify" => r.kind = "internal"
      PROVE  Collected'
  <2>1. /\ resps'[t] \in Seq(Responses)
        /\ Len(resps'[t]) = Len(resps[t]) + 1
        /\ \A k \in 1 .. Len(resps[t]) : resps'[t][k] = resps[t][k]
        /\ resps'[t][Len(resps[t]) + 1] = r
    BY <1>1, <1>5
  <2>2. /\ DOMAIN resps'[t] = 1 .. (Len(resps[t]) + 1)
        /\ DOMAIN resps[t] = 1 .. Len(resps[t])
        /\ Len(resps[t]) \in Nat
    BY <1>1, <2>1
  <2>3. \A k \in DOMAIN resps[t] : resps[t][k].slot # i
    BY <1>1, <1>2 DEF Collected
  <2>4. \A l \in DOMAIN msg[t].entries :
           (slot'[t][l] = "done" /\ msg[t].entries[l] # "notify") =>
               \E k \in DOMAIN resps'[t] : resps'[t][k].slot = l
    <3> SUFFICES ASSUME NEW l \in DOMAIN msg[t].entries, slot'[t][l] = "done",
                        msg[t].entries[l] # "notify"
                 PROVE  \E k \in DOMAIN resps'[t] : resps'[t][k].slot = l
      OBVIOUS
    <3>1. CASE l = i
      BY <1>5, <2>1, <2>2, <3>1
    <3>2. CASE l # i
      <4>1. PICK k \in DOMAIN resps[t] : resps[t][k].slot = l
        BY <1>1, <1>2, <3>2 DEF Collected
      <4> QED
        BY <2>1, <2>2, <4>1
    <3> QED
      BY <3>1, <3>2
  <2>5. \A k \in DOMAIN resps'[t] :
           /\ resps'[t][k].slot \in DOMAIN msg[t].entries
           /\ slot'[t][resps'[t][k].slot] = "done"
           /\ msg[t].entries[resps'[t][k].slot] = "notify" =>
                 resps'[t][k].kind = "internal"
    BY <1>1, <1>2, <1>5, <2>1, <2>2 DEF Collected
  <2>6. \A j, k \in DOMAIN resps'[t] :
           resps'[t][j].slot = resps'[t][k].slot => j = k
    BY <1>1, <1>5, <2>1, <2>2, <2>3 DEF Collected
  <2>7. Fits(t)
    BY <1>2, <2>4, <2>5, <2>6
  <2>8. \A u \in Tasks : Fits(u)
    <3> HIDE DEF Fits
    <3> QED
      BY <1>3, <2>7
  <2> QED
    BY <2>8, Zenon DEF Collected
<1> QED
  BY <1>4, <1>5

LEMMA CollectedNext == IndInv /\ [Next]_vars => Collected'
<1> SUFFICES ASSUME IndInv, [Next]_vars PROVE Collected'
  OBVIOUS
<1>0. TypeOK /\ Numbered /\ Collected /\ Ended
  BY DEF IndInv
<1>1. CASE Idle
  BY <1>0, <1>1, IdleLeavesTasks DEF taskVars, Collected
<1>2. ASSUME NEW m \in Messages, DecodeMessage(m) PROVE Collected'
  <2>1. decoded + 1 \in Tasks
    BY <1>0, <1>2, BoundsAssumption DEF DecodeMessage, TypeOK, Tasks
  <2>2. /\ msg'[decoded + 1] = m
        /\ resps'[decoded + 1] = ShapeError(m)
        /\ slot' = slot
        /\ \A u \in Tasks \ {decoded + 1} :
              msg'[u] = msg[u] /\ resps'[u] = resps[u] /\ pc'[u] = pc[u]
    BY <1>0, <1>2, <2>1 DEF DecodeMessage, TypeOK
  <2>3. \A i \in Slots : slot[decoded + 1][i] = "todo"
    BY <1>0, <1>2, <2>1 DEF TypeOK, Numbered, Tasks
  <2>4. /\ m.entries = << >> => Len(ShapeError(m)) = 1
        /\ m.entries # << >> => ShapeError(m) = << >>
    BY ShapeErrorType
  <2>5. DOMAIN m.entries \subseteq Slots
    BY EntriesAreSlots
  <2> QED
    BY <1>0, <2>1, <2>2, <2>3, <2>4, <2>5 DEF Collected
<1>3. ASSUME NEW t \in Tasks, NEW i \in Slots, HandleInvalid(t, i)
      PROVE  Collected'
  <2> DEFINE r == [slot |-> i, kind |-> "invalid"]
  <2>1. r \in Responses /\ r.slot = i
    BY BoundsAssumption DEF Responses, Slots
  <2>2. /\ pc[t] # "none" /\ UNCHANGED <<pc, msg>>
        /\ i \in DOMAIN msg[t].entries /\ slot[t][i] # "done"
        /\ msg[t].entries[i] # "notify"
        /\ slot' = [slot EXCEPT ![t][i] = "done"]
        /\ resps' = [resps EXCEPT ![t] = Append(@, r)]
    BY <1>3 DEF HandleInvalid, EntryReady, Running
  <2> HIDE DEF r
  <2>3. resps' = [resps EXCEPT ![t] = @ \o <<r>>]
    <3>1. Append(resps[t], r) = resps[t] \o <<r>>
      BY <1>0, <2>1 DEF TypeOK
    <3> QED
      BY <2>2, <3>1
  <2> QED
    BY <1>0, <2>1, <2>2, <2>3, CollectedEntry
<1>4. ASSUME NEW t \in Tasks, NEW i \in Slots, HandleCall(t, i)
      PROVE  Collected'
  BY <1>0, <1>4 DEF HandleCall, EntryReady, Collected, TypeOK
<1>5. ASSUME NEW t \in Tasks, NEW i \in Slots, NEW o \in Outcomes,
             HandlerReturns(t, i, o)
      PROVE  Collected'
  <2>1. /\ pc[t] # "none" /\ UNCHANGED <<pc, msg>>
        /\ i \in DOMAIN msg[t].entries /\ slot[t][i] # "done"
        /\ slot' = [slot EXCEPT ![t][i] = "done"]
        /\ resps' = [resps EXCEPT ![t] = @ \o Answer(t, i, o)]
    BY <1>5 DEF HandlerReturns, Running
  <2>2. \/ Answer(t, i, o) = << >> /\ msg[t].entries[i] = "notify"
        \/ \E r \in Responses :
              /\ Answer(t, i, o) = <<r>> /\ r.slot = i
              /\ msg[t].entries[i] = "notify" => r.kind = "internal"
    BY AnswerType
  <2> QED
    BY <1>0, <2>1, <2>2, CollectedEntry
<1>6. ASSUME NEW t \in Tasks, Reply(t) PROVE Collected'
  <2>1. PICK end \in Ends : pc' = [pc EXCEPT ![t] = end]
    BY <1>0, <1>6, ReplyShape
  <2>2. pc[t] = "run" /\ UNCHANGED <<msg, slot, resps>>
    BY <1>0, <1>6, ReplyShape DEF AllHandled, Running
  <2>3. \A u \in Tasks : pc'[u] # "none" => pc[u] # "none"
    BY <1>0, <2>1, <2>2 DEF TypeOK, Ends
  <2> QED
    BY <1>0, <2>2, <2>3 DEF Collected
<1> QED
  BY <1>1, <1>2, <1>3, <1>4, <1>5, <1>6, StepCases

LEMMA EndedNext == IndInv /\ [Next]_vars => Ended'
<1> SUFFICES ASSUME IndInv, [Next]_vars PROVE Ended'
  OBVIOUS
<1>0. TypeOK /\ Numbered /\ Ended
  BY DEF IndInv
<1> USE DEF Ended, Ends
<1>1. CASE Idle
  BY <1>0, <1>1, IdleLeavesTasks DEF taskVars
<1>2. ASSUME NEW m \in Messages, DecodeMessage(m) PROVE Ended'
  BY <1>0, <1>2 DEF DecodeMessage, TypeOK
<1>3. ASSUME NEW t \in Tasks, pc[t] = "run", UNCHANGED <<pc, msg>>,
             \A u \in Tasks \ {t} : slot'[u] = slot[u] /\ resps'[u] = resps[u]
      PROVE  Ended'
  BY <1>0, <1>3
<1>4. ASSUME NEW t \in Tasks, NEW i \in Slots, NEW o \in Outcomes,
             HandlerReturns(t, i, o)
      PROVE  Ended'
  BY <1>0, <1>3, <1>4 DEF HandlerReturns, Running, TypeOK
<1>5. ASSUME NEW t \in Tasks, NEW i \in Slots, HandleInvalid(t, i)
      PROVE  Ended'
  BY <1>0, <1>3, <1>5 DEF HandleInvalid, EntryReady, Running, TypeOK
<1>6. ASSUME NEW t \in Tasks, NEW i \in Slots, HandleCall(t, i)
      PROVE  Ended'
  BY <1>0, <1>3, <1>6 DEF HandleCall, EntryReady, Running, TypeOK
<1>7. ASSUME NEW t \in Tasks, Reply(t) PROVE Ended'
  <2>1. msg[t] \in Messages
    BY <1>0, <1>7, ReplyShape DEF Numbered, AllHandled, Running, TypeOK, Tasks
  <2>2. /\ msg[t].shape \in Shapes
        /\ msg[t].shape \in {"malformed", "syntax", "type"} =>
              msg[t].entries = << >>
    BY <2>1 DEF Messages
  <2>3. PICK end \in Ends :
          /\ pc' = [pc EXCEPT ![t] = end]
          /\ end = "silent" => resps[t] = << >>
          /\ end = "reported" =>
                msg[t].shape \notin {"malformed", "syntax", "type"}
          /\ end = "dropped" =>
                msg[t].shape \in {"malformed", "syntax", "type"}
    BY <1>0, <1>7, ReplyShape
  <2>4. /\ UNCHANGED <<msg, slot, resps>>
        /\ \A i \in DOMAIN msg[t].entries : slot[t][i] = "done"
    BY <1>0, <1>7, ReplyShape DEF AllHandled
  <2> QED
    BY <1>0, <2>2, <2>3, <2>4 DEF TypeOK, Shapes
<1> QED
  BY <1>1, <1>2, <1>4, <1>7, <1>5, <1>6, StepCases

LEMMA WireNext == IndInv /\ [Next]_vars => Wire'
<1> SUFFICES ASSUME IndInv, [Next]_vars PROVE Wire'
  OBVIOUS
<1>0. TypeOK /\ Wire /\ Numbered
  BY DEF IndInv
<1> USE DEF Wire
<1>1. CASE Idle
  BY <1>0, <1>1, IdleLeavesTasks DEF taskVars
<1>2. ASSUME NEW m \in Messages, DecodeMessage(m) PROVE Wire'
  <2>1. decoded + 1 \in Tasks /\ pc[decoded + 1] = "none"
    BY <1>0, <1>2, BoundsAssumption DEF DecodeMessage, TypeOK, Numbered, Tasks
  <2> QED
    BY <1>0, <1>2, <2>1 DEF DecodeMessage, TypeOK
<1>3. ASSUME NEW t \in Tasks, NEW i \in Slots,
             HandleInvalid(t, i) \/ HandleCall(t, i)
      PROVE  Wire'
  BY <1>0, <1>3 DEF HandleInvalid, HandleCall
<1>4. ASSUME NEW t \in Tasks, NEW i \in Slots, NEW o \in Outcomes,
             HandlerReturns(t, i, o)
      PROVE  Wire'
  BY <1>0, <1>4 DEF HandlerReturns
<1>5. ASSUME NEW t \in Tasks, Reply(t) PROVE Wire'
  <2>1. PICK end \in Ends :
          /\ pc' = [pc EXCEPT ![t] = end]
          /\ out' = out \/ out' = Append(out, t)
          /\ end = "sent" => out' = Append(out, t)
          /\ (end = "silent" \/ (rp.Stream /\ end # "sent")) => out' = out
    BY <1>0, <1>5, ReplyShape
  <2>2. /\ pc[t] = "run" /\ pc \in [Tasks -> {"none", "run"} \cup Ends]
        /\ out \in Seq(Tasks) /\ rp' = rp
    BY <1>0, <1>5, ReplyShape DEF AllHandled, Running, TypeOK
  <2>3. CASE out' = Append(out, t) /\ out' # out
    <3>1. end \in {"sent", "reported", "dropped"} /\ (rp.Stream => end = "sent")
      BY <2>1, <2>3 DEF Ends
    <3>2. /\ DOMAIN out = 1 .. Len(out) /\ Len(out) \in Nat
          /\ DOMAIN out' = 1 .. (Len(out) + 1)
          /\ \A k \in 1 .. Len(out) : out'[k] = out[k] /\ out[k] \in Tasks
          /\ out'[Len(out) + 1] = t
      BY <2>2, <2>3
    <3>3. \A k \in DOMAIN out : out[k] # t
      BY <1>0, <2>2, <3>2
    <3> QED
      BY <1>0, <2>1, <2>2, <3>1, <3>2, <3>3
  <2>4. CASE out' = out
    <3>1. end # "sent"
      BY <2>1, <2>2, <2>4
    <3> QED
      BY <1>0, <2>1, <2>2, <2>4, <3>1
  <2> QED
    BY <2>1, <2>3, <2>4
<1> QED
  BY <1>1, <1>2, <1>3, <1>4, <1>5, StepCases

LEMMA StoppingNext == IndInv /\ [Next]_vars => Stopping'
<1> SUFFICES ASSUME IndInv, [Next]_vars PROVE Stopping'
  OBVIOUS
<1>0. TypeOK /\ Stopping /\ Numbered
  BY DEF IndInv
<1> USE DEF Stopping, Running, Inline
<1>1. CASE Environment
  BY <1>0, <1>1 DEF Environment, Cancel, PeerEOF, PeerStalls, PeerReads,
     PeerBreaks, taskVars
<1>2. CASE DecodeFails \/ DecodeInterrupted
  BY <1>0, <1>2 DEF DecodeFails, DecodeInterrupted, Decoding, LeaveLoop, taskVars,
     TypeOK, ConfigType
<1>3. CASE Shutdown
  BY <1>0, <1>3 DEF Shutdown, taskVars
<1>4. CASE Terminated \/ UNCHANGED vars
  BY <1>0, <1>4 DEF Terminated, vars
<1>5. ASSUME NEW m \in Messages, DecodeMessage(m) PROVE Stopping'
  BY <1>0, <1>5 DEF DecodeMessage, Decoding, TypeOK
<1>6. ASSUME NEW t \in Tasks, NEW i \in Slots,
             HandleInvalid(t, i) \/ HandleCall(t, i)
      PROVE  Stopping'
  BY <1>0, <1>6 DEF HandleInvalid, HandleCall
<1>7. ASSUME NEW t \in Tasks, NEW i \in Slots, NEW o \in Outcomes,
             HandlerReturns(t, i, o)
      PROVE  Stopping'
  BY <1>0, <1>7 DEF HandlerReturns
<1>8. ASSUME NEW t \in Tasks, Reply(t) PROVE Stopping'
  <2>1. PICK end \in Ends : pc' = [pc EXCEPT ![t] = end]
    BY <1>0, <1>8, ReplyShape
  <2>2. /\ pc[t] = "run" /\ UNCHANGED <<rp, msg, decoded>>
        /\ \/ UNCHANGED <<loop, stopped>>
           \/ LeaveLoop /\ msg[t].shape = "syntax"
    BY <1>0, <1>8, ReplyShape DEF AllHandled
  <2>3. \A u \in Tasks : pc'[u] = "run" => u # t /\ pc[u] = "run"
    BY <1>0, <2>1 DEF TypeOK, Ends
  <2>4. CASE UNCHANGED <<loop, stopped>>
    BY <1>0, <2>2, <2>3, <2>4
  <2>5. CASE LeaveLoop /\ msg[t].shape = "syntax"
    <3>1. t = decoded /\ loop = "decode"
      BY <1>0, <2>2, <2>5
    <3>2. ~stopped \/ ~rp.WaitOnClose
      BY <1>0, <3>1
    <3> QED
      BY <1>0, <2>2, <2>3, <2>5, <3>1, <3>2 DEF LeaveLoop, TypeOK, ConfigType
  <2> QED
    BY <2>2, <2>4, <2>5
<1> QED
  BY <1>1, <1>2, <1>3, <1>4, <1>5, <1>6, <1>7, <1>8, StepCases DEF Idle

(***************************************************************************)
(* The configuration is fixed; a cancelled context stays cancelled; a dead *)
(* writer stays dead.                                                      *)
(***************************************************************************)
LEMMA Monotone ==
    ASSUME TypeOK, [Next]_vars
    PROVE  rp' = rp /\ (ctxDone => ctxDone') /\ (writer = "dead" => writer' = "dead")
<1>1. CASE Idle
  BY <1>1 DEF Idle, Environment, Cancel, PeerEOF, PeerStalls, PeerReads,
     PeerBreaks, DecodeFails, DecodeInterrupted, Shutdown, Terminated, vars
<1>2. CASE \E m \in Messages : DecodeMessage(m)
  BY <1>2 DEF DecodeMessage
<1>3. CASE \E t \in Tasks, i \in Slots : HandleInvalid(t, i) \/ HandleCall(t, i)
  BY <1>3 DEF HandleInvalid, HandleCall
<1>4. CASE \E t \in Tasks, i \in Slots, o \in Outcomes : HandlerReturns(t, i, o)
  BY <1>4 DEF HandlerReturns
<1>5. CASE \E t \in Tasks : Reply(t)
  BY <1>5 DEF Reply, ReplyNothing, ReplySent, ReplyUnencodable, ReplyLost,
     ReplyDisowned, Finish
<1> QED
  BY <1>1, <1>2, <1>3, <1>4, <1>5, StepCases

LEMMA GracefulNext == IndInv /\ [Next]_vars => GracefulShutdown'
<1> SUFFICES ASSUME IndInv, [Next]_vars, rp'.WaitOnClose, ~ctxDone'
             PROVE  /\ stopped' => \A t \in Tasks : ~Running(t)'
                    /\ (writer' # "dead" /\ (rp'.Stream \/ ~rp'.WriteTimeout)) =>
                          \A t \in Tasks : pc'[t] \in {"reported", "dropped"}
                                              => Unencodable(t)'
  BY DEF GracefulShutdown
<1>0. TypeOK /\ Stopping /\ GracefulShutdown
  BY DEF IndInv
<1>1. rp' = rp /\ ~ctxDone /\ rp.WaitOnClose /\ (writer = "dead" => writer' = "dead")
  BY <1>0, Monotone
<1>2. stopped' => \A t \in Tasks : ~Running(t)'
  BY <1>1, StoppingNext DEF Stopping
<1>3. ASSUME writer' # "dead", rp.Stream \/ ~rp.WriteTimeout,
             NEW t \in Tasks, pc'[t] \in {"reported", "dropped"}
      PROVE  Unencodable(t)'
  <2>1. pc[t] \in {"reported", "dropped"} => Unencodable(t)
    BY <1>0, <1>1, <1>3 DEF GracefulShutdown
  <2>2. ASSUME pc[t] = pc'[t], resps[t] = resps'[t] PROVE Unencodable(t)'
    BY <1>3, <2>1, <2>2 DEF Unencodable
  <2>3. CASE Idle
    BY <2>2, <2>3, IdleLeavesTasks DEF taskVars
  <2>4. ASSUME NEW m \in Messages, DecodeMessage(m) PROVE Unencodable(t)'
    BY <1>0, <1>3, <2>2, <2>4 DEF DecodeMessage, TypeOK
  <2>5. ASSUME NEW u \in Tasks, NEW i \in Slots,
               HandleInvalid(u, i) \/ HandleCall(u, i)
        PROVE  Unencodable(t)'
    BY <1>0, <1>3, <2>2, <2>5
       DEF HandleInvalid, HandleCall, EntryReady, Running, TypeOK
  <2>6. ASSUME NEW u \in Tasks, NEW i \in Slots, NEW o \in Outcomes,
               HandlerReturns(u, i, o)
        PROVE  Unencodable(t)'
    BY <1>0, <1>3, <2>2, <2>6 DEF HandlerReturns, Running, TypeOK
  <2>7. ASSUME NEW u \in Tasks, Reply(u) PROVE Unencodable(t)'
    <3>1. PICK end \in Ends : pc' = [pc EXCEPT ![u] = end]
      BY <1>0, <2>7, ReplyShape
    <3>2. resps' = resps /\ pc[u] = "run"
      BY <1>0, <2>7, ReplyShape DEF AllHandled, Running
    <3>3. CASE t # u
      BY <1>0, <2>2, <3>1, <3>2, <3>3 DEF TypeOK
    <3>4. CASE t = u
      <4>1. ~ReplyNothing(t) /\ \A closes \in BOOLEAN : ~ReplySent(t, closes)
        BY <1>0, <1>3 DEF ReplyNothing, ReplySent, Finish, TypeOK
      <4>2. ~ReplyDisowned(t) /\ \A closes \in BOOLEAN : ~ReplyLost(t, closes)
        <5>1. ~stopped
          BY <1>0, <1>1, <3>2, <3>4 DEF Stopping, Running
        <5> QED
          BY <1>0, <1>1, <1>3, <5>1 DEF ReplyLost, ReplyDisowned, Interruptible, SctxDone
      <4>3. Unencodable(t)
        BY <2>7, <3>4, <4>1, <4>2 DEF Reply, ReplyUnencodable
      <4> QED
        BY <3>2, <4>3 DEF Unencodable
    <3> QED
      BY <3>3, <3>4
  <2> QED
    BY <2>3, <2>4, <2>5, <2>6, <2>7, StepCases
<1> QED
  BY <1>1, <1>2, <1>3

LEMMA InOrderNext == IndInv /\ [Next]_vars => InOrder'
<1> SUFFICES ASSUME IndInv, [Next]_vars PROVE InOrder'
  OBVIOUS
<1>0. TypeOK /\ Stopping /\ Numbered /\ Wire /\ InOrder
  BY DEF IndInv
<1>1. CASE Idle
  BY <1>0, <1>1, IdleLeavesTasks DEF taskVars, InOrder
<1>2. ASSUME NEW m \in Messages, DecodeMessage(m) PROVE InOrder'
  BY <1>0, <1>2 DEF DecodeMessage, InOrder
<1>3. ASSUME NEW t \in Tasks, NEW i \in Slots,
             HandleInvalid(t, i) \/ HandleCall(t, i)
      PROVE  InOrder'
  BY <1>0, <1>3 DEF HandleInvalid, HandleCall, InOrder
<1>4. ASSUME NEW t \in Tasks, NEW i \in Slots, NEW o \in Outcomes,
             HandlerReturns(t, i, o)
      PROVE  InOrder'
  BY <1>0, <1>4 DEF HandlerReturns, InOrder
<1>5. ASSUME NEW t \in Tasks, Reply(t) PROVE InOrder'
  <2>1. /\ out' = out \/ out' = Append(out, t)
        /\ rp' = rp /\ pc[t] = "run"
    BY <1>0, <1>5, ReplyShape DEF AllHandled, Running
  <2>2. CASE out' = out
    BY <1>0, <2>1, <2>2 DEF InOrder
  <2>3. CASE rp.NoRoutines /\ out' = Append(out, t)
    <3>1. t = decoded /\ out \in Seq(Tasks)
      BY <1>0, <2>1, <2>3 DEF Stopping, Running, Inline, TypeOK
    <3>2. \A k \in DOMAIN out : out[k] < t
      <4> SUFFICES ASSUME NEW k \in DOMAIN out PROVE out[k] < t
        OBVIOUS
      <4>1. out[k] \in Tasks /\ pc[out[k]] \in {"sent", "reported", "dropped"}
        BY <1>0, <3>1 DEF Wire
      <4>2. out[k] <= decoded /\ out[k] # t
        BY <1>0, <2>1, <4>1 DEF Numbered
      <4> QED
        BY <1>0, <3>1, <4>1, <4>2, BoundsAssumption DEF Tasks, TypeOK
    <3>3. /\ DOMAIN out = 1 .. Len(out) /\ Len(out) \in Nat
          /\ DOMAIN out' = 1 .. (Len(out) + 1)
          /\ \A k \in 1 .. Len(out) : out'[k] = out[k]
          /\ out'[Len(out) + 1] = t
      BY <2>3, <3>1
    <3>4. \A j, k \in DOMAIN out' : j < k => out'[j] < out'[k]
      BY <1>0, <2>3, <3>2, <3>3 DEF InOrder
    <3> QED
      BY <3>4 DEF InOrder
  <2> QED
    BY <2>1, <2>2, <2>3 DEF InOrder
<1> QED
  BY <1>1, <1>2, <1>3, <1>4, <1>5, StepCases

LEMMA FrontNext == IndInv /\ [Next]_vars => FromTheFront'
<1> SUFFICES ASSUME IndInv, [Next]_vars, rp.SerialBatch PROVE FromTheFront'
  BY Monotone DEF FromTheFront, IndInv
<1>0. TypeOK /\ FromTheFront /\ Numbered
  BY DEF IndInv
<1>1. CASE Idle
  BY <1>0, <1>1, IdleLeavesTasks DEF taskVars, FromTheFront
<1>2. ASSUME NEW m \in Messages, DecodeMessage(m) PROVE FromTheFront'
  <2>1. decoded + 1 \in Tasks /\ \A i \in Slots : slot[decoded + 1][i] = "todo"
    BY <1>0, <1>2, BoundsAssumption DEF DecodeMessage, TypeOK, Numbered, Tasks
  <2>2. DOMAIN m.entries \subseteq Slots
    BY EntriesAreSlots
  <2> QED
    BY <1>0, <1>2, <2>1, <2>2 DEF DecodeMessage, TypeOK, FromTheFront
<1>3. ASSUME NEW t \in Tasks, NEW i \in Slots, NEW s,
             i \in DOMAIN msg[t].entries, UNCHANGED msg,
             slot' = [slot EXCEPT ![t][i] = s],
             \/ slot[t][i] = "handling" /\ s = "done"
             \/ \A j \in 1 .. (i - 1) : slot[t][j] = "done",
             slot[t][i] # "done"
      PROVE  FromTheFront'
  <2> SUFFICES ASSUME NEW u \in Tasks,
                      NEW k \in DOMAIN msg[u].entries,
                      NEW j \in DOMAIN msg[u].entries,
                      j < k, slot'[u][k] # "todo"
               PROVE  slot'[u][j] = "done"
    BY <1>3 DEF FromTheFront
  <2>1. j \in Slots /\ k \in Slots
    BY <1>0, EntriesAreSlots DEF TypeOK
  <2>2. CASE u # t
    BY <1>0, <1>3, <2>2, <2>1 DEF FromTheFront, TypeOK
  <2>3. CASE u = t /\ k # i
    <3>1. slot[t][k] # "todo"
      BY <1>0, <1>3, <2>1, <2>3 DEF TypeOK
    <3>2. slot[t][j] = "done"
      BY <1>0, <3>1, <2>3 DEF FromTheFront
    <3> QED
      BY <1>0, <1>3, <2>1, <2>3, <3>2 DEF TypeOK
  <2>4. CASE u = t /\ k = i
    <3>1. slot[t][j] = "done"
      BY <1>0, <1>3, <2>1, <2>4 DEF FromTheFront, Slots
    <3> QED
      BY <1>0, <1>3, <2>1, <2>4, <3>1 DEF TypeOK, Slots
  <2> QED
    BY <2>2, <2>3, <2>4
<1>4. ASSUME NEW t \in Tasks, NEW i \in Slots, HandleInvalid(t, i)
      PROVE  FromTheFront'
  BY <1>3, <1>4 DEF HandleInvalid, EntryReady, Serial
<1>5. ASSUME NEW t \in Tasks, NEW i \in Slots, HandleCall(t, i)
      PROVE  FromTheFront'
  BY <1>3, <1>5 DEF HandleCall, EntryReady, Serial
<1>6. ASSUME NEW t \in Tasks, NEW i \in Slots, NEW o \in Outcomes,
             HandlerReturns(t, i, o)
      PROVE  FromTheFront'
  BY <1>3, <1>6 DEF HandlerReturns
<1>7. ASSUME NEW t \in Tasks, Reply(t) PROVE FromTheFront'
  BY <1>0, <1>7, ReplyShape DEF FromTheFront
<1> QED
  BY <1>1, <1>2, <1>4, <1>5, <1>6, <1>7, StepCases

(***************************************************************************)
(* In a batch handled from the front a new response comes last.            *)
(***************************************************************************)
LEMMA SerialAppend ==
    ASSUME IndInv, rp.SerialBatch,
           NEW t \in Tasks, Running(t), NEW i \in DOMAIN msg[t].entries,
           slot[t][i] # "done",
           NEW new,
           resps' = [resps EXCEPT ![t] = @ \o new],
           new = << >> \/ \E r \in Responses : new = <<r>> /\ r.slot = i
    PROVE  \A u \in Tasks : \A j, k \in DOMAIN resps'[u] :
              j < k => resps'[u][j].slot < resps'[u][k].slot
<1>0. TypeOK /\ Collected /\ FromTheFront /\ SerialInOrder
  BY DEF IndInv
<1>1. /\ resps[t] \in Seq(Responses) /\ resps'[t] = resps[t] \o new
      /\ \A u \in Tasks \ {t} : resps'[u] = resps[u]
  BY <1>0 DEF TypeOK
<1>2. /\ \A j \in DOMAIN msg[t].entries : j \in Nat
      /\ msg[t].entries # << >>
  <2>1. msg[t] \in Messages \cup {NoMessage}
    BY <1>0 DEF TypeOK
  <2> QED
    BY <2>1, EntriesAreSlots, BoundsAssumption DEF Slots
<1>3. \A k \in DOMAIN resps[t] : resps[t][k].slot \in Nat /\ resps[t][k].slot < i
  <2> SUFFICES ASSUME NEW k \in DOMAIN resps[t]
               PROVE  resps[t][k].slot \in Nat /\ resps[t][k].slot < i
    OBVIOUS
  <2>1. /\ resps[t][k].slot \in DOMAIN msg[t].entries
        /\ slot[t][resps[t][k].slot] = "done"
    BY <1>0, <1>2 DEF Collected, Running
  <2> QED
    BY <1>0, <1>2, <2>1 DEF FromTheFront
<1>4. CASE new = << >>
  BY <1>0, <1>1, <1>4 DEF SerialInOrder
<1>5. ASSUME NEW r \in Responses, new = <<r>>, r.slot = i
      PROVE  \A j, k \in DOMAIN resps'[t] :
                j < k => resps'[t][j].slot < resps'[t][k].slot
  <2>1. /\ DOMAIN resps'[t] = 1 .. (Len(resps[t]) + 1)
        /\ DOMAIN resps[t] = 1 .. Len(resps[t]) /\ Len(resps[t]) \in Nat
        /\ \A k \in 1 .. Len(resps[t]) : resps'[t][k] = resps[t][k]
        /\ resps'[t][Len(resps[t]) + 1] = r
    BY <1>1, <1>5
  <2>2. \A j, k \in DOMAIN resps[t] :
           j < k => resps[t][j].slot < resps[t][k].slot
    BY <1>0 DEF SerialInOrder
  <2> QED
    BY <1>3, <1>5, <2>1, <2>2
<1>6. \A u \in Tasks \ {t} : \A j, k \in DOMAIN resps'[u] :
          j < k => resps'[u][j].slot < resps'[u][k].slot
  BY <1>0, <1>1 DEF SerialInOrder
<1> QED
  BY <1>4, <1>5, <1>6

LEMMA SerialNext == IndInv /\ [Next]_vars => SerialInOrder'
<1> SUFFICES ASSUME IndInv, [Next]_vars, rp.SerialBatch
             PROVE  /\ \A t \in Tasks : \A j, k \in DOMAIN resps'[t] :
                          j < k => resps'[t][j].slot < resps'[t][k].slot
                    /\ \A t \in Tasks : \A i, j \in DOMAIN msg'[t].entries :
                          slot'[t][i] = "handling" /\ slot'[t][j] = "handling"
                              => i = j
  BY Monotone DEF SerialInOrder, IndInv
<1>0. TypeOK /\ TypeOK' /\ SerialInOrder /\ FromTheFront' /\ rp' = rp
  BY NextTypeOK, FrontNext, Monotone DEF IndInv
<1>1. \A t \in Tasks : \A i, j \in DOMAIN msg'[t].entries :
          slot'[t][i] = "handling" /\ slot'[t][j] = "handling" => i = j
  <2> SUFFICES ASSUME NEW t \in Tasks,
                      NEW i \in DOMAIN msg'[t].entries,
                      NEW j \in DOMAIN msg'[t].entries,
                      slot'[t][i] = "handling", slot'[t][j] = "handling"
               PROVE  i = j
    OBVIOUS
  <2>1. i \in Nat /\ j \in Nat
    <3>1. msg'[t] \in Messages \cup {NoMessage}
      BY <1>0 DEF TypeOK
    <3> QED
      BY <3>1, EntriesAreSlots, BoundsAssumption DEF Slots
  <2>2. ~(i < j) /\ ~(j < i)
    BY <1>0 DEF FromTheFront
  <2> QED
    BY <2>1, <2>2
<1>2. ASSUME UNCHANGED resps
      PROVE  \A t \in Tasks : \A j, k \in DOMAIN resps'[t] :
                j < k => resps'[t][j].slot < resps'[t][k].slot
  BY <1>0, <1>2 DEF SerialInOrder
<1>3. CASE Idle
  BY <1>1, <1>2, <1>3, IdleLeavesTasks DEF taskVars
<1>4. ASSUME NEW m \in Messages, DecodeMessage(m)
      PROVE  \A t \in Tasks : \A j, k \in DOMAIN resps'[t] :
                j < k => resps'[t][j].slot < resps'[t][k].slot
  <2>1. decoded + 1 \in Tasks
    BY <1>0, <1>4, BoundsAssumption DEF DecodeMessage, TypeOK, Tasks
  <2>2. /\ resps'[decoded + 1] = ShapeError(m)
        /\ \A u \in Tasks \ {decoded + 1} : resps'[u] = resps[u]
    BY <1>0, <1>4, <2>1 DEF DecodeMessage, TypeOK
  <2>3. \A j, k \in DOMAIN ShapeError(m) : ~(j < k)
    BY ShapeErrorType
  <2> QED
    BY <1>0, <2>1, <2>2, <2>3 DEF SerialInOrder
<1>5. ASSUME NEW t \in Tasks, NEW i \in Slots, HandleInvalid(t, i)
      PROVE  \A u \in Tasks : \A j, k \in DOMAIN resps'[u] :
                j < k => resps'[u][j].slot < resps'[u][k].slot
  <2> DEFINE r == [slot |-> i, kind |-> "invalid"]
  <2>1. r \in Responses /\ r.slot = i
    BY BoundsAssumption DEF Responses, Slots
  <2>2. /\ Running(t) /\ i \in DOMAIN msg[t].entries /\ slot[t][i] # "done"
        /\ resps' = [resps EXCEPT ![t] = Append(@, r)]
    BY <1>5 DEF HandleInvalid, EntryReady
  <2> HIDE DEF r
  <2>3. resps' = [resps EXCEPT ![t] = @ \o <<r>>]
    <3>1. Append(resps[t], r) = resps[t] \o <<r>>
      BY <1>0, <2>1 DEF TypeOK
    <3> QED
      BY <2>2, <3>1
  <2> QED
    BY <2>1, <2>2, <2>3, SerialAppend
<1>6. ASSUME NEW t \in Tasks, NEW i \in Slots, NEW o \in Outcomes,
             HandlerReturns(t, i, o)
      PROVE  \A u \in Tasks : \A j, k \in DOMAIN resps'[u] :
                j < k => resps'[u][j].slot < resps'[u][k].slot
  <2>1. /\ Running(t) /\ i \in DOMAIN msg[t].entries /\ slot[t][i] # "done"
        /\ resps' = [resps EXCEPT ![t] = @ \o Answer(t, i, o)]
    BY <1>6 DEF HandlerReturns
  <2>2. \/ Answer(t, i, o) = << >>
        \/ \E r \in Responses : Answer(t, i, o) = <<r>> /\ r.slot = i
    BY AnswerType
  <2> QED
    BY <2>1, <2>2, SerialAppend
<1>7. ASSUME NEW t \in Tasks, NEW i \in Slots, HandleCall(t, i)
      PROVE  UNCHANGED resps
  BY <1>7 DEF HandleCall
<1>8. ASSUME NEW t \in Tasks, Reply(t) PROVE UNCHANGED resps
  BY <1>0, <1>8, ReplyShape
<1> QED
  BY <1>1, <1>2, <1>3, <1>4, <1>5, <1>6, <1>7, <1>8, StepCases

-----------------------------------------------------------------------------
LEMMA InitIndInv == Init => IndInv
<1> SUFFICES ASSUME Init PROVE IndInv
  OBVIOUS
<1>1. TypeOK
  BY InitTypeOK
<1>2. Numbered /\ Stopping /\ FromTheFront
  BY <1>1 DEF Init, Numbered, Stopping, FromTheFront, Running, Inline, Tasks,
     NoMessage
<1>3. Collected /\ Ended /\ Wire
  BY DEF Init, Collected, Ended, Ends, Wire
<1>4. GracefulShutdown /\ InOrder /\ SerialInOrder
  BY DEF Init, GracefulShutdown, InOrder, SerialInOrder, Running, NoMessage
<1> QED
  BY <1>1, <1>2, <1>3, <1>4 DEF IndInv

LEMMA NextIndInv == IndInv /\ [Next]_vars => IndInv'
  BY NextTypeOK, NumberedNext, CollectedNext, EndedNext, WireNext, StoppingNext,
     FrontNext, GracefulNext, InOrderNext, SerialNext DEF IndInv

(***************************************************************************)
(* The conjunction of everything below holds in every reachable state; it  *)
(* is inductive, which none of the properties it implies is by itself.     *)
(***************************************************************************)
THEOREM Inductive == Spec => []IndInv
<1> QED
  BY InitIndInv, NextIndInv, PTL DEF Spec

(***************************************************************************)
(* Every frame on the wire answers its message completely and only once,   *)
(* for batches of any size.  The responses collected so far match the      *)
(* entries done so far (Collected), and a frame is sent only when all are  *)
(* done (Ended).                                                           *)
(***************************************************************************)
THEOREM FramesAreComplete == Spec => []FrameComplete
<1>1. IndInv => FrameComplete
  BY DEF IndInv, FrameComplete, Collected, Ended, Ends, Wire
<1> QED
  BY <1>1, Inductive, PTL

(***************************************************************************)
(* When Run returns every message has its frame, its report, or was owed   *)
(* nothing; no message ever has two frames.                                *)
(***************************************************************************)
THEOREM RunSettlesEverything == Spec => []EverythingSettled
<1>1. ASSUME IndInv PROVE EverythingSettled
  <2>0. TypeOK /\ Numbered /\ Collected /\ Ended /\ Wire /\ Stopping
    BY <1>1 DEF IndInv
  <2>1. ASSUME loop = "returned", NEW t \in 1 .. decoded
        PROVE  \/ \E k \in DOMAIN out : out[k] = t
               \/ pc[t] = "silent" /\ ~Owes(msg[t])
               \/ pc[t] = "reported" /\ msg[t].shape \in {"object", "array", "scalar"}
               \/ pc[t] = "dropped" /\ msg[t].entries = << >>
    <3>1. t \in Tasks /\ t <= decoded
      BY <2>0, <2>1, BoundsAssumption DEF TypeOK, Tasks
    <3>2. pc[t] \in Ends /\ msg[t] \in Messages
      BY <2>0, <2>1, <3>1 DEF TypeOK, Numbered, Stopping, Running
    <3>3. CASE pc[t] = "silent"
      <4>1. resps[t] = << >>
        BY <2>0, <3>1, <3>3 DEF Ended
      <4>2. msg[t].entries # << >>
        BY <2>0, <3>1, <3>3, <4>1 DEF Collected
      <4>3. msg[t].shape \in {"object", "array"}
        BY <3>2, <4>2 DEF Messages
      <4>4. \A i \in DOMAIN msg[t].entries : msg[t].entries[i] = "notify"
        BY <2>0, <3>1, <3>2, <3>3, <4>1 DEF Collected, Ended
      <4> QED
        BY <3>3, <4>2, <4>3, <4>4 DEF Owes
    <3> QED
      BY <2>0, <3>1, <3>2, <3>3 DEF Ends, Wire, Ended
  <2> QED
    BY <2>0, <2>1 DEF EverythingSettled, Wire
<1> QED
  BY <1>1, Inductive, PTL

(***************************************************************************)
(* With WaitOnClose, a live context and a working transport, shutting down *)
(* loses no response that can be encoded.                                  *)
(***************************************************************************)
THEOREM ShutdownIsGraceful == Spec => []GracefulShutdown
<1>1. IndInv => GracefulShutdown
  BY DEF IndInv
<1> QED
  BY <1>1, Inductive, PTL

(***************************************************************************)
(* NoRoutines keeps the order of messages, however many there are.         *)
(***************************************************************************)
THEOREM OrderIsKept == Spec => []InOrder
<1>1. IndInv => InOrder
  BY DEF IndInv
<1> QED
  BY <1>1, Inductive, PTL

(***************************************************************************)
(* SerialBatch keeps the order of entries in a batch of any size.          *)
(***************************************************************************)
THEOREM BatchOrderIsKept == Spec => []SerialInOrder
<1>1. IndInv => SerialInOrder
  BY DEF IndInv
<1> QED
  BY <1>1, Inductive, PTL

(***************************************************************************)
(* Nothing is handled or written once Run has returned.                    *)
(***************************************************************************)
THEOREM RunReturnsQuiet == Spec => QuietAfterReturn
<1>1. ASSUME IndInv, [Next]_vars, loop = "returned"
      PROVE  UNCHANGED <<msg, pc, slot, resps, out>>
  <2>1. TypeOK /\ \A t \in Tasks : ~Running(t)
    BY <1>1 DEF IndInv, Stopping
  <2>2. \A t \in Tasks : ~Reply(t)
    BY <2>1, ReplyShape DEF AllHandled
  <2> QED
    BY <1>1, <2>1, <2>2, StepCases, IdleLeavesTasks
       DEF taskVars, DecodeMessage, Decoding, HandleInvalid, HandleCall,
           EntryReady, HandlerReturns
<1>2. IndInv /\ [Next]_vars =>
        [loop = "returned" => UNCHANGED <<msg, pc, slot, resps, out>>]_vars
  BY <1>1
<1> QED
  BY <1>2, Inductive, PTL DEF Spec, QuietAfterReturn

-----------------------------------------------------------------------------
(***************************************************************************)
(* Refinement.  Two states that agree on the loop, the tasks' progress and *)
(* the messages agree on the abstract service.                             *)
(***************************************************************************)
StatusOf == [t \in Tasks |-> Status(t)]
Due      == {t \in Tasks : pc[t] # "none" /\ Owes(msg[t])}

LEMMA PhaseStep ==
    ASSUME TypeOK, TypeOK'
    PROVE  /\ loop' = loop => Phase' = Phase
           /\ loop = "decode" <=> Phase = "serving"
           /\ loop = "drain" <=> Phase = "draining"
           /\ loop = "returned" <=> Phase = "closed"
           /\ loop' = "drain" => Phase' = "draining"
           /\ loop' = "returned" => Phase' = "closed"
  BY DEF TypeOK, Phase

LEMMA StatusValue ==
    ASSUME TypeOK, NEW t \in Tasks
    PROVE  /\ Status(t) \in {"none", "pending", "answered", "lost", "quiet"}
           /\ pc[t] = "none" <=> Status(t) = "none"
           /\ pc[t] = "run" <=> Status(t) = "pending"
           /\ pc[t] = "sent" <=> Status(t) = "answered"
           /\ pc[t] = "silent" <=> Status(t) = "quiet"
           /\ pc[t] \in {"reported", "dropped"} <=> Status(t) = "lost"
  BY DEF TypeOK, Status, Ends

LEMMA StatusFrame ==
    ASSUME TypeOK, TypeOK', UNCHANGED <<pc, msg>>
    PROVE  StatusOf' = StatusOf /\ Due' = Due
  BY DEF StatusOf, Status, Due

LEMMA InitService == Init => Service!Init
<1> SUFFICES ASSUME Init PROVE Service!Init
  OBVIOUS
<1>1. Phase = "serving"
  BY DEF Init, Phase
<1>2. \A t \in Tasks : Status(t) = "none"
  BY DEF Init, Status
<1> QED
  BY <1>1, <1>2 DEF Init, Service!Init

LEMMA NextService == IndInv /\ IndInv' /\ [Next]_vars => [Service!Next]_(Service!svars)
<1> SUFFICES ASSUME IndInv, IndInv', [Next]_vars
             PROVE  Service!Next \/ UNCHANGED <<Phase, StatusOf, Due>>
  BY DEF Service!svars, StatusOf, Due
<1>0. TypeOK /\ TypeOK' /\ Numbered /\ Collected /\ Ended /\ Stopping /\ Ended'
  BY DEF IndInv
<1>1. CASE Environment \/ Terminated \/ UNCHANGED vars
  BY <1>0, <1>1, StatusFrame, PhaseStep
     DEF Environment, Cancel, PeerEOF, PeerStalls, PeerReads, PeerBreaks,
         Terminated, vars, taskVars
<1>2. CASE DecodeFails \/ DecodeInterrupted
  <2>1. loop = "decode" /\ loop' = "drain" /\ UNCHANGED <<pc, msg>>
    BY <1>2 DEF DecodeFails, DecodeInterrupted, Decoding, LeaveLoop, taskVars
  <2>2. Service!Drain
    BY <1>0, <2>1, StatusFrame, PhaseStep DEF Service!Drain, StatusOf, Due
  <2> QED
    BY <2>2 DEF Service!Next
<1>3. CASE Shutdown
  <2>1. /\ loop = "drain" /\ loop' = "returned" /\ UNCHANGED <<pc, msg>>
        /\ \A t \in Tasks : pc[t] # "run"
    BY <1>3 DEF Shutdown, taskVars, Running
  <2>2. Service!Close
    BY <1>0, <2>1, StatusFrame, PhaseStep, StatusValue
       DEF Service!Close, StatusOf, Due
  <2> QED
    BY <2>2 DEF Service!Next
<1>4. ASSUME NEW m \in Messages, DecodeMessage(m) PROVE Service!Next
  <2>0. PICK n \in Tasks : n = decoded + 1
    BY <1>0, <1>4, BoundsAssumption DEF DecodeMessage, TypeOK, Tasks
  <2>1. pc[n] = "none" /\ loop = "decode" /\ loop' = loop
    BY <1>0, <1>4, <2>0 DEF DecodeMessage, Decoding, TypeOK, Numbered, Tasks
  <2>2. /\ pc'[n] = "run" /\ msg'[n] = m
        /\ \A u \in Tasks \ {n} : pc'[u] = pc[u] /\ msg'[u] = msg[u]
    BY <1>0, <1>4, <2>0 DEF DecodeMessage, TypeOK
  <2>3. StatusOf' = [StatusOf EXCEPT ![n] = "pending"]
    <3>1. Status(n)' = "pending" /\ \A u \in Tasks \ {n} : Status(u)' = Status(u)
      BY <2>1, <2>2 DEF Status
    <3> QED
      BY <2>1, <3>1 DEF StatusOf
  <2>4. Due' = IF Owes(m) THEN Due \cup {n} ELSE Due
    BY <2>1, <2>2 DEF Due, Owes
  <2>5. Service!Receive(n, Owes(m))
    BY <1>0, <2>1, <2>3, <2>4, StatusValue, PhaseStep
       DEF Service!Receive, StatusOf, Due
  <2>6. Owes(m) \in BOOLEAN
    BY DEF Owes
  <2> QED
    BY <2>1, <2>5, <2>6 DEF Service!Next
<1>5. ASSUME NEW t \in Tasks, NEW i \in Slots, NEW o \in Outcomes,
             HandlerReturns(t, i, o)
      PROVE  UNCHANGED <<Phase, StatusOf, Due>>
  BY <1>0, <1>5, StatusFrame, PhaseStep DEF HandlerReturns
<1>6. ASSUME NEW t \in Tasks, NEW i \in Slots,
             HandleInvalid(t, i) \/ HandleCall(t, i)
      PROVE  UNCHANGED <<Phase, StatusOf, Due>>
  BY <1>0, <1>6, StatusFrame, PhaseStep DEF HandleInvalid, HandleCall
<1>7. ASSUME NEW t \in Tasks, Reply(t) PROVE Service!Next
  <2>1. PICK end \in Ends :
          /\ pc' = [pc EXCEPT ![t] = end]
          /\ end = "silent" => resps[t] = << >>
    BY <1>0, <1>7, ReplyShape
  <2>2. /\ AllHandled(t) /\ UNCHANGED <<rp, msg, slot, resps>>
        /\ \/ UNCHANGED loop
           \/ loop' = "drain" /\ msg[t].shape = "syntax"
    BY <1>0, <1>7, ReplyShape DEF LeaveLoop
  <2>3. pc[t] = "run" /\ \A u \in Tasks \ {t} : pc'[u] = pc[u]
    BY <1>0, <2>1, <2>2 DEF TypeOK, AllHandled, Running
  <2>4. PICK s \in {"answered", "lost", "quiet"} :
          Status(t)' = s /\ (s = "quiet" => end = "silent")
    BY <1>0, <2>1 DEF Status, Ends, TypeOK
  <2>5. StatusOf' = [StatusOf EXCEPT ![t] = s]
    <3>1. \A u \in Tasks \ {t} : Status(u)' = Status(u)
      BY <2>3 DEF Status
    <3> QED
      BY <2>4, <3>1 DEF StatusOf
  <2>6. Due' = Due
    BY <1>0, <2>1, <2>2, <2>3 DEF Due, Ends, TypeOK
  <2>7. s = "quiet" => t \notin Due
    <3> SUFFICES ASSUME end = "silent" PROVE ~Owes(msg[t])
      BY <2>4 DEF Due
    <3>1. msg[t] \in Messages
      BY <1>0, <2>3 DEF Numbered
    <3>2. resps[t] = << >> /\ pc[t] # "none"
      BY <2>1, <2>3
    <3>3. msg[t].entries # << >>
      BY <1>0, <3>2 DEF Collected
    <3>4. msg[t].shape \in {"object", "array"}
      BY <3>1, <3>3 DEF Messages
    <3>5. \A i \in DOMAIN msg[t].entries : msg[t].entries[i] = "notify"
      BY <1>0, <2>2, <3>2 DEF Collected, AllHandled
    <3> QED
      BY <3>3, <3>4, <3>5 DEF Owes
  <2>8. Phase' \in {Phase} \cup {p \in {"draining"} : Phase = "serving"}
    <3>1. CASE UNCHANGED loop
      BY <1>0, <3>1, PhaseStep
    <3>2. CASE loop' = "drain" /\ msg[t].shape = "syntax"
      <4>1. loop = "decode"
        BY <1>0, <2>3, <3>2 DEF Stopping, Running, Inline
      <4> QED
        BY <1>0, <3>2, <4>1, PhaseStep
    <3> QED
      BY <2>2, <3>1, <3>2
  <2>9. StatusOf[t] = "pending"
    BY <1>0, <2>3, StatusValue DEF StatusOf
  <2>10. Service!Settle(t, s)
    BY <2>5, <2>6, <2>7, <2>8, <2>9 DEF Service!Settle, StatusOf, Due
  <2> QED
    BY <2>10 DEF Service!Next
<1> QED
  BY <1>1, <1>2, <1>3, <1>4, <1>5, <1>6, <1>7, StepCases DEF Idle

(***************************************************************************)
(* Run implements RPCService: under the mapping of RPCServer every step of *)
(* the loop, of a task or of the shutdown is a step of the abstract        *)
(* service or leaves it alone.                                             *)
(***************************************************************************)
THEOREM RunImplementsService == Spec => ImplementsService
<1> QED
  BY InitService, NextService, Inductive, PTL DEF Spec, ImplementsService, Service!Spec

=============================================================================

----------------------- MODULE TransportClientProofs -----------------------
(***************************************************************************)
(* Proofs about TransportClient, for any set of callers.                   *)
(***************************************************************************)
EXTENDS TransportClient, TLAPS

(***************************************************************************)
(* What Head, Tail and Append do to a sequence without repetitions.        *)
(***************************************************************************)
LEMMA HeadTail ==
    ASSUME NEW s \in Seq(Callers), s # << >>
    PROVE  /\ Head(s) \in Callers /\ Tail(s) \in Seq(Callers)
           /\ 1 \in DOMAIN s /\ s[1] = Head(s)
           /\ \A k \in DOMAIN Tail(s) : k + 1 \in DOMAIN s /\ Tail(s)[k] = s[k + 1]
           /\ \A k \in DOMAIN Tail(s) : k \in Nat /\ k # 0
  OBVIOUS

LEMMA Appended ==
    ASSUME NEW s \in Seq(Callers), NEW c \in Callers
    PROVE  /\ Append(s, c) \in Seq(Callers)
           /\ Len(s) \in Nat
           /\ DOMAIN s = 1 .. Len(s)
           /\ DOMAIN Append(s, c) = 1 .. (Len(s) + 1)
           /\ \A k \in DOMAIN s : Append(s, c)[k] = s[k]
           /\ Append(s, c)[Len(s) + 1] = c
  OBVIOUS

-----------------------------------------------------------------------------
LEMMA ClientTypeInit == Init => TypeOK
<1> SUFFICES ASSUME Init PROVE TypeOK
  OBVIOUS
<1>1. reqs \in Seq(Callers) /\ resps \in Seq(Callers)
      /\ log \in Seq([who : Callers, outcome : Outcomes])
  BY DEF Init
<1> QED
  BY <1>1 DEF Init, TypeOK

LEMMA ReturnType ==
    ASSUME TypeOK, NEW c \in Callers, NEW outcome \in Outcomes, Return(c, outcome)
    PROVE  /\ pc' \in [Callers -> {"start", "encode", "decode", "done"}]
           /\ mu' \in Callers \cup {NoOne}
           /\ log' \in Seq([who : Callers, outcome : Outcomes])
<1> DEFINE entry == [who |-> c, outcome |-> outcome]
<1>1. entry \in [who : Callers, outcome : Outcomes]
  OBVIOUS
<1>2. log' = Append(log, entry)
  BY DEF Return
<1> HIDE DEF entry
<1>3. log' \in Seq([who : Callers, outcome : Outcomes])
  BY <1>1, <1>2 DEF TypeOK
<1> QED
  BY <1>3 DEF Return, TypeOK

LEMMA ClientTypeNext == TypeOK /\ [Next]_vars => TypeOK'
<1> SUFFICES ASSUME TypeOK, [Next]_vars PROVE TypeOK'
  OBVIOUS
<1> USE DEF serverVars, clientVars, config
<1>0. {"refused", "error", "sent", "answered", "closed"} = Outcomes
  BY DEF Outcomes
<1>1. ASSUME NEW c \in Callers, CtxDone(c) PROVE TypeOK'
  BY <1>1 DEF CtxDone, TypeOK
<1>2. ASSUME NEW c \in Callers, Lock(c) PROVE TypeOK'
  BY <1>0, <1>2, ReturnType DEF Lock, TypeOK
<1>3. ASSUME NEW c \in Callers, NEW closes \in BOOLEAN,
             EncodeOK(c, closes)
      PROVE  TypeOK'
  BY <1>0, <1>3, ReturnType, Appended DEF EncodeOK, MayClose, TypeOK
<1>4. ASSUME NEW c \in Callers, NEW closes \in BOOLEAN,
             EncodeRefused(c, closes)
      PROVE  TypeOK'
  BY <1>0, <1>4, ReturnType DEF EncodeRefused, MayClose, TypeOK
<1>5. ASSUME NEW c \in Callers, NEW closes \in BOOLEAN,
             EncodeFails(c, closes)
      PROVE  TypeOK'
  BY <1>0, <1>5, ReturnType DEF EncodeFails, MayClose, TypeOK
<1>6. ASSUME NEW c \in Callers, NEW closes \in BOOLEAN,
             DecodeOK(c, closes)
      PROVE  TypeOK'
  BY <1>0, <1>6, ReturnType, HeadTail DEF DecodeOK, MayClose, TypeOK
<1>7. ASSUME NEW c \in Callers, NEW closes \in BOOLEAN,
             DecodeFails(c, closes)
      PROVE  TypeOK'
  BY <1>0, <1>7, ReturnType DEF DecodeFails, MayClose, TypeOK
<1>8. ASSUME NEW c \in Callers, Close(c) PROVE TypeOK'
  BY <1>0, <1>8, ReturnType DEF Close, TypeOK
<1>9. CASE ServerReads \/ ServerLeaves
  <2>1. CASE ServerReads
    BY <2>1, HeadTail DEF ServerReads, TypeOK
  <2>2. CASE ServerLeaves
    <3>1. reqs' \in Seq(Callers) /\ work' \subseteq Callers
      BY <2>2 DEF ServerLeaves
    <3> QED
      BY <2>2, <3>1 DEF ServerLeaves, TypeOK
  <2> QED
    BY <1>9, <2>1, <2>2
<1>10. ASSUME NEW r \in Callers, ServerAnswers(r) \/ ServerSilent(r) PROVE TypeOK'
  <2>1. CASE ServerAnswers(r)
    BY <2>1, Appended DEF ServerAnswers, TypeOK
  <2>2. CASE ServerSilent(r)
    BY <2>2 DEF ServerSilent, TypeOK
  <2> QED
    BY <1>10, <2>1, <2>2
<1>11. CASE Terminated \/ UNCHANGED vars
  BY <1>11 DEF Terminated, vars, TypeOK
<1> QED
  BY <1>1, <1>2, <1>3, <1>4, <1>5, <1>6, <1>7, <1>8, <1>9, <1>10, <1>11
     DEF Next, ClientStep

(***************************************************************************)
(* Every reachable state of the client and its connection is well typed.   *)
(***************************************************************************)
THEOREM ClientTypeCorrect == Spec => []TypeOK
<1> QED
  BY ClientTypeInit, ClientTypeNext, PTL DEF Spec

-----------------------------------------------------------------------------
(***************************************************************************)
(* The messages in flight only move, except for the one a caller encodes.  *)
(***************************************************************************)
Wires == <<reqs, work, resps>>

\* A client step other than a successful Encode or Decode.
Offline(c) ==
    \/ CtxDone(c) \/ Lock(c) \/ Close(c)
    \/ \E closes \in BOOLEAN :
          EncodeRefused(c, closes) \/ EncodeFails(c, closes) \/ DecodeFails(c, closes)

LEMMA OfflineWires ==
    ASSUME NEW c \in Callers, Offline(c) PROVE UNCHANGED <<op, Wires, unasked, got>>
  BY DEF Offline, CtxDone, Lock, EncodeRefused, EncodeFails, DecodeFails, Close,
     Wires, serverVars, clientVars, config

LEMMA ClientCases ==
    ASSUME [Next]_vars
    PROVE  \/ \E c \in Callers : Offline(c)
           \/ \E c \in Callers, closes \in BOOLEAN :
                 EncodeOK(c, closes) \/ DecodeOK(c, closes)
           \/ ServerReads
           \/ \E r \in Callers : ServerAnswers(r) \/ ServerSilent(r)
           \/ ServerLeaves
           \/ UNCHANGED vars
  BY DEF Next, ClientStep, Offline, Terminated

LEMMA ServerMoves ==
    ASSUME TypeOK,
           \/ ServerReads \/ ServerLeaves
           \/ \E r \in Callers : ServerAnswers(r) \/ ServerSilent(r)
    PROVE  /\ UNCHANGED <<op, pc, mu, decErr, got>>
           /\ unasked' = {} => unasked = {}
           /\ \A r \in Callers : InFlight(r)' => InFlight(r)
<1> USE DEF serverVars, clientVars, config, InFlight
<1>1. CASE ServerReads
  BY <1>1, HeadTail DEF ServerReads, TypeOK
<1>2. CASE ServerLeaves
  BY <1>2 DEF ServerLeaves, TypeOK
<1>3. ASSUME NEW r \in Callers, ServerAnswers(r)
      PROVE  /\ UNCHANGED <<op, pc, mu, decErr, got>>
             /\ unasked' = {} => unasked = {}
             /\ \A q \in Callers : InFlight(q)' => InFlight(q)
  BY <1>3, Appended DEF ServerAnswers, TypeOK
<1>4. ASSUME NEW r \in Callers, ServerSilent(r)
      PROVE  /\ UNCHANGED <<op, pc, mu, decErr, got>>
             /\ unasked' = {} => unasked = {}
             /\ \A q \in Callers : InFlight(q)' => InFlight(q)
  BY <1>4 DEF ServerSilent
<1> QED
  BY <1>1, <1>2, <1>3, <1>4

LEMMA EncodeAdds ==
    ASSUME TypeOK, NEW c \in Callers, NEW closes \in BOOLEAN, EncodeOK(c, closes)
    PROVE  \A r \in Callers : InFlight(r)' => InFlight(r) \/ r = c
  BY Appended DEF EncodeOK, InFlight, TypeOK, serverVars

\* Taking the head of the responses leaves the others.
LEMMA DecodeTakes ==
    ASSUME TypeOK, Once, NEW c \in Callers, NEW closes \in BOOLEAN, DecodeOK(c, closes)
    PROVE  /\ InFlight(Head(resps)) /\ Head(resps) \in Callers
           /\ \A r \in Callers : InFlight(r)' => InFlight(r) /\ r # Head(resps)
<1>1. /\ resps \in Seq(Callers) /\ resps # << >> /\ resps' = Tail(resps)
      /\ UNCHANGED <<reqs, work>>
  BY DEF DecodeOK, TypeOK, serverVars
<1>2. /\ Head(resps) \in Callers /\ 1 \in DOMAIN resps /\ resps[1] = Head(resps)
      /\ \A k \in DOMAIN resps' : /\ k + 1 \in DOMAIN resps /\ k + 1 # 1
                                  /\ resps'[k] = resps[k + 1]
  BY <1>1, HeadTail
<1>3. \A k \in DOMAIN resps' : resps'[k] # Head(resps)
  BY <1>2 DEF Once
<1> QED
  BY <1>1, <1>2, <1>3 DEF InFlight, Once

-----------------------------------------------------------------------------
LEMMA PcSteps ==
    ASSUME TypeOK, [Next]_vars
    PROVE  /\ \A r \in Callers : pc[r] \in {"decode", "done"} =>
                                    pc'[r] \in {"decode", "done"}
           /\ op' = op
<1> USE DEF serverVars, clientVars, config, Return, TypeOK
<1>1. ASSUME NEW c \in Callers, Offline(c)
      PROVE  \A r \in Callers : pc[r] \in {"decode", "done"} =>
                                    pc'[r] \in {"decode", "done"}
  BY <1>1 DEF Offline, CtxDone, Lock, EncodeRefused, EncodeFails, DecodeFails, Close
<1>2. ASSUME NEW c \in Callers, NEW closes \in BOOLEAN,
             EncodeOK(c, closes) \/ DecodeOK(c, closes)
      PROVE  /\ \A r \in Callers : pc[r] \in {"decode", "done"} =>
                                    pc'[r] \in {"decode", "done"}
             /\ op' = op
  BY <1>2 DEF EncodeOK, DecodeOK
<1> QED
  BY <1>1, <1>2, OfflineWires, ServerMoves, ClientCases DEF vars

LEMMA OnceNext == ClientInv /\ [Next]_vars => Once'
<1> SUFFICES ASSUME ClientInv, [Next]_vars PROVE Once'
  OBVIOUS
<1>0. TypeOK /\ Once /\ TypeOK'
  BY ClientTypeNext DEF ClientInv
<1> DEFINE
      Apart == /\ \A j, k \in DOMAIN reqs : reqs[j] = reqs[k] => j = k
               /\ \A j, k \in DOMAIN resps : resps[j] = resps[k] => j = k
               /\ \A k \in DOMAIN reqs : reqs[k] \notin work
               /\ \A k \in DOMAIN resps : resps[k] \notin work
               /\ \A j \in DOMAIN reqs, k \in DOMAIN resps : reqs[j] # resps[k]
<1>1. ASSUME NEW c \in Callers, Offline(c) PROVE Once'
  BY <1>0, <1>1, OfflineWires, PcSteps DEF Once, InFlight, Wires
<1>2. ASSUME NEW c \in Callers, NEW closes \in BOOLEAN,
             EncodeOK(c, closes)
      PROVE  Once'
  <2>1. ~InFlight(c) /\ UNCHANGED <<work, resps>> /\ pc'[c] \in {"decode", "done"}
    BY <1>0, <1>2 DEF EncodeOK, Once, TypeOK, Return, serverVars
  <2>2. reqs' = reqs \/ reqs' = Append(reqs, c)
    BY <1>2 DEF EncodeOK
  <2>3. Apart'
    <3>1. CASE reqs' = reqs
      BY <1>0, <2>1, <3>1 DEF Once
    <3>2. CASE reqs' = Append(reqs, c)
      <4>1. /\ DOMAIN reqs = 1 .. Len(reqs) /\ Len(reqs) \in Nat
            /\ DOMAIN reqs' = 1 .. (Len(reqs) + 1)
            /\ \A k \in DOMAIN reqs : reqs'[k] = reqs[k]
            /\ reqs'[Len(reqs) + 1] = c
        BY <1>0, <3>2, Appended DEF TypeOK
      <4>2. \A j, k \in DOMAIN reqs' : reqs'[j] = reqs'[k] => j = k
        BY <1>0, <2>1, <4>1 DEF Once, InFlight
      <4> QED
        BY <1>0, <2>1, <4>1, <4>2 DEF Once, InFlight
    <3> QED
      BY <2>2, <3>1, <3>2
  <2> QED
    BY <1>0, <1>2, <2>1, <2>3, EncodeAdds, PcSteps DEF Once
<1>3. ASSUME NEW c \in Callers, NEW closes \in BOOLEAN,
             DecodeOK(c, closes)
      PROVE  Once'
  <2>1. Apart'
    BY <1>0, <1>3, HeadTail DEF DecodeOK, Once, TypeOK, serverVars
  <2> QED
    BY <1>0, <1>3, <2>1, DecodeTakes, PcSteps DEF Once
<1>4. CASE ServerReads
  <2>1. Apart'
    BY <1>0, <1>4, HeadTail DEF ServerReads, Once, TypeOK
  <2> QED
    BY <1>0, <1>4, <2>1, ServerMoves DEF Once
<1>5. CASE ServerLeaves
  <2>1. Apart'
    BY <1>0, <1>5 DEF ServerLeaves, Once
  <2> QED
    BY <1>0, <1>5, <2>1, ServerMoves DEF Once
<1>6. ASSUME NEW r \in Callers, ServerAnswers(r) PROVE Once'
  <2>1. Apart'
    BY <1>0, <1>6, Appended DEF ServerAnswers, Once, TypeOK
  <2> QED
    BY <1>0, <1>6, <2>1, ServerMoves DEF Once
<1>7. ASSUME NEW r \in Callers, ServerSilent(r) PROVE Once'
  <2>1. Apart'
    BY <1>0, <1>7 DEF ServerSilent, Once
  <2> QED
    BY <1>0, <1>7, <2>1, ServerMoves DEF Once
<1>8. CASE UNCHANGED vars
  BY <1>0, <1>8 DEF vars, clientVars, serverVars, Once, InFlight
<1> QED
  BY <1>1, <1>2, <1>3, <1>4, <1>5, <1>6, <1>7, <1>8, ClientCases

LEMMA ExchangingNext == ClientInv /\ [Next]_vars => Exchanging'
<1> SUFFICES ASSUME ClientInv, [Next]_vars PROVE Exchanging'
  OBVIOUS
<1>0. TypeOK /\ Exchanging
  BY DEF ClientInv
<1> USE DEF Exchanging, Return
<1>1. ASSUME NEW c \in Callers, Offline(c) PROVE Exchanging'
  <2>1. /\ mu = NoOne \/ mu = c \/ UNCHANGED <<mu, pc>>
        /\ \/ UNCHANGED <<mu, pc>>
           \/ mu' = c /\ pc' = [pc EXCEPT ![c] = "encode"]
           \/ mu' = NoOne /\ pc' = [pc EXCEPT ![c] = "done"]
    BY <1>0, <1>1 DEF Offline, CtxDone, Lock, EncodeRefused, EncodeFails,
       DecodeFails, Close, clientVars
  <2> QED
    BY <1>0, <2>1, NoOneAssumption DEF TypeOK
<1>2. ASSUME NEW c \in Callers, NEW closes \in BOOLEAN,
             EncodeOK(c, closes) \/ DecodeOK(c, closes)
      PROVE  Exchanging'
  BY <1>0, <1>2, NoOneAssumption DEF EncodeOK, DecodeOK, TypeOK
<1>3. CASE UNCHANGED vars
  BY <1>0, <1>3 DEF vars, clientVars
<1> QED
  BY <1>0, <1>1, <1>2, <1>3, ServerMoves, ClientCases

LEMMA CurrentNext == ClientInv /\ [Next]_vars => OnlyTheCurrent'
<1> SUFFICES ASSUME ClientInv, [Next]_vars, ~decErr', unasked' = {},
                    NEW r \in Callers, InFlight(r)', op'[r] # "notify"
             PROVE  pc'[r] = "decode"
  BY DEF OnlyTheCurrent
<1>0. TypeOK /\ Once /\ Exchanging /\ OnlyTheCurrent /\ OnlyCalls
  BY DEF ClientInv
<1>1. ASSUME NEW c \in Callers, Offline(c) PROVE pc'[r] = "decode"
  <2>1. InFlight(r) /\ op[r] # "notify" /\ unasked = {}
    BY <1>1, OfflineWires DEF Wires, InFlight
  <2>2. ~decErr /\ (pc[r] = "decode" => pc'[r] = "decode")
    BY <1>0, <1>1 DEF Offline, CtxDone, Lock, EncodeRefused, EncodeFails,
       DecodeFails, Close, TypeOK, clientVars, Return
  <2> QED
    BY <1>0, <2>1, <2>2 DEF OnlyTheCurrent
<1>2. ASSUME NEW c \in Callers, NEW closes \in BOOLEAN,
             EncodeOK(c, closes)
      PROVE  pc'[r] = "decode"
  <2>1. /\ op' = op /\ decErr' = decErr /\ pc[c] = "encode"
        /\ op[c] # "notify" => pc'[c] = "decode"
        /\ unasked = {}
        /\ \A q \in Callers \ {c} : pc'[q] = pc[q]
    BY <1>0, <1>2 DEF EncodeOK, TypeOK, Return, config, serverVars
  <2> QED
    BY <1>0, <1>2, <2>1, EncodeAdds DEF OnlyTheCurrent
<1>3. ASSUME NEW c \in Callers, NEW closes \in BOOLEAN,
             DecodeOK(c, closes)
      PROVE  pc'[r] = "decode"
  <2>1. /\ op' = op /\ decErr' = decErr /\ pc[c] = "decode" /\ unasked = {}
        /\ \A q \in Callers \ {c} : pc'[q] = pc[q]
    BY <1>0, <1>3 DEF DecodeOK, TypeOK, Return, config, serverVars
  <2>2. InFlight(r) /\ r # Head(resps) /\ pc[r] = "decode"
    BY <1>0, <1>3, <2>1, DecodeTakes DEF OnlyTheCurrent
  <2>3. r = mu /\ c = mu
    BY <1>0, <2>1, <2>2 DEF Exchanging
  <2>4. op[Head(resps)] # "notify" /\ InFlight(Head(resps))
    BY <1>0, <1>3, <2>1, HeadTail, DecodeTakes DEF OnlyCalls, TypeOK, DecodeOK
  <2>5. Head(resps) = c
    BY <1>0, <1>3, <2>1, <2>3, <2>4, DecodeTakes DEF OnlyTheCurrent, Exchanging
  <2> QED
    BY <2>2, <2>3, <2>5
<1>4. CASE UNCHANGED vars
  BY <1>0, <1>4 DEF vars, config, clientVars, serverVars, OnlyTheCurrent, InFlight
<1> QED
  BY <1>0, <1>1, <1>2, <1>3, <1>4, ServerMoves, ClientCases DEF OnlyTheCurrent

LEMMA CallsNext == ClientInv /\ [Next]_vars => OnlyCalls'
<1> SUFFICES ASSUME ClientInv, [Next]_vars, unasked' = {} PROVE OnlyCalls'
  BY DEF OnlyCalls
<1>0. TypeOK /\ OnlyCalls
  BY DEF ClientInv
<1>1. ASSUME NEW c \in Callers, Offline(c) PROVE OnlyCalls'
  BY <1>0, <1>1, OfflineWires DEF OnlyCalls, Wires
<1>2. ASSUME NEW c \in Callers, NEW closes \in BOOLEAN,
             EncodeOK(c, closes)
      PROVE  OnlyCalls'
  BY <1>0, <1>2 DEF EncodeOK, OnlyCalls, serverVars, config
<1>3. ASSUME NEW c \in Callers, NEW closes \in BOOLEAN,
             DecodeOK(c, closes)
      PROVE  OnlyCalls'
  BY <1>0, <1>3, HeadTail DEF DecodeOK, OnlyCalls, TypeOK, serverVars, config
<1>4. CASE ServerReads \/ ServerLeaves \/ \E r \in Callers : ServerSilent(r)
  BY <1>0, <1>4 DEF ServerReads, ServerLeaves, ServerSilent, OnlyCalls, config
<1>5. ASSUME NEW r \in Callers, ServerAnswers(r) PROVE OnlyCalls'
  <2>1. resps' = Append(resps, r) /\ op' = op /\ unasked = {} /\ op[r] # "notify"
    BY <1>5 DEF ServerAnswers, config
  <2>2. /\ DOMAIN resps' = 1 .. (Len(resps) + 1) /\ Len(resps) \in Nat
        /\ DOMAIN resps = 1 .. Len(resps)
        /\ \A k \in DOMAIN resps : resps'[k] = resps[k]
        /\ resps'[Len(resps) + 1] = r
    BY <1>0, <2>1, Appended DEF TypeOK
  <2> QED
    BY <1>0, <2>1, <2>2 DEF OnlyCalls
<1>6. CASE UNCHANGED vars
  BY <1>0, <1>6 DEF vars, OnlyCalls, serverVars, config
<1> QED
  BY <1>1, <1>2, <1>3, <1>4, <1>5, <1>6, ClientCases

(***************************************************************************)
(* The client's invariant holds in every reachable state.                  *)
(***************************************************************************)
THEOREM ClientInductive == Spec => []ClientInv
<1>1. Init => ClientInv
  BY ClientTypeInit
     DEF Init, ClientInv, Once, InFlight, Exchanging, OnlyTheCurrent, OnlyCalls
<1>2. ClientInv /\ [Next]_vars => ClientInv'
  BY ClientTypeNext, OnceNext, ExchangingNext, CurrentNext, CallsNext DEF ClientInv
<1> QED
  BY <1>1, <1>2, PTL DEF Spec

(***************************************************************************)
(* A call on a shared connection returns the answer to another message     *)
(* only after the server has answered a notification on it, for any number *)
(* of callers, cancellations and closes: an unanswered call leaves the     *)
(* decoder broken, so while the decoder works the one call in flight is    *)
(* the one that holds the mutex.                                           *)
(***************************************************************************)
THEOREM CallGetsItsResponse == Spec => []ResponseMatches
<1>1. Init => ResponseMatches
  BY DEF Init, ResponseMatches
<1>2. ASSUME ClientInv, ResponseMatches, [Next]_vars, unasked' = {}
      PROVE  ResponseMatches'
  <2>0. TypeOK /\ Once /\ Exchanging /\ OnlyTheCurrent /\ OnlyCalls
    BY <1>2 DEF ClientInv
  <2>1. ASSUME NEW c \in Callers, NEW closes \in BOOLEAN,
               DecodeOK(c, closes)
        PROVE  ResponseMatches'
    <3>1. /\ pc[c] = "decode" /\ ~decErr /\ resps \in Seq(Callers) /\ resps # << >>
          /\ got' = [got EXCEPT ![c] = Head(resps)]
          /\ unasked = {}
      BY <1>2, <2>0, <2>1 DEF DecodeOK, TypeOK, serverVars
    <3>2. op[Head(resps)] # "notify" /\ InFlight(Head(resps))
      BY <2>0, <2>1, <3>1, HeadTail, DecodeTakes DEF OnlyCalls
    <3>3. pc[Head(resps)] = "decode" /\ Head(resps) \in Callers
      BY <2>0, <3>1, <3>2, HeadTail DEF OnlyTheCurrent
    <3>4. Head(resps) = c
      BY <2>0, <3>1, <3>3 DEF Exchanging
    <3> QED
      BY <1>2, <2>0, <3>1, <3>4 DEF ResponseMatches, TypeOK
  <2>2. ASSUME NEW c \in Callers, NEW closes \in BOOLEAN,
               Offline(c) \/ EncodeOK(c, closes)
        PROVE  ResponseMatches'
    BY <1>2, <2>2, OfflineWires DEF EncodeOK, ResponseMatches, serverVars
  <2>3. CASE UNCHANGED vars
    BY <1>2, <2>3 DEF vars, clientVars, serverVars, ResponseMatches
  <2> QED
    BY <1>2, <2>0, <2>1, <2>2, <2>3, ServerMoves, ClientCases DEF ResponseMatches
<1>3. ClientInv /\ ResponseMatches /\ [Next]_vars => ResponseMatches'
  BY <1>2 DEF ResponseMatches
<1> QED
  BY <1>1, <1>3, ClientInductive, PTL DEF Spec

-----------------------------------------------------------------------------
(***************************************************************************)
(* What an operation that failed on the wire, or Close, leaves behind: an  *)
(* error in the encoder or the decoder, or a closed connection.  Nobody    *)
(* waits for a response on an encoder that has failed, for whoever was in  *)
(* the middle of an exchange then held the mutex and failed itself.        *)
(***************************************************************************)
Spent ==
    /\ \A j \in DOMAIN log : log[j].outcome = "error" => encErr \/ decErr
    /\ \A j \in DOMAIN log : (log[j].outcome = "closed" /\ transport # "plain") => closed
    /\ \A c \in Callers : pc[c] = "decode" => ~encErr
    /\ SpentAfterFailure

\* Return adds one outcome to the log.
LEMMA Logged ==
    ASSUME TypeOK, NEW c \in Callers, NEW outcome \in Outcomes, Return(c, outcome)
    PROVE  /\ Len(log) \in Nat
           /\ DOMAIN log = 1 .. Len(log)
           /\ DOMAIN log' = 1 .. (Len(log) + 1)
           /\ \A k \in DOMAIN log : log'[k] = log[k]
           /\ log'[Len(log) + 1].outcome = outcome
<1> DEFINE entry == [who |-> c, outcome |-> outcome]
<1>1. entry.outcome = outcome
  OBVIOUS
<1>2. log' = Append(log, entry) /\ log \in Seq([who : Callers, outcome : Outcomes])
  BY DEF Return, TypeOK
<1> HIDE DEF entry
<1>3. /\ Len(log) \in Nat
      /\ DOMAIN log = 1 .. Len(log)
      /\ DOMAIN log' = 1 .. (Len(log) + 1)
      /\ \A k \in DOMAIN log : log'[k] = log[k]
      /\ log'[Len(log) + 1] = entry
  BY <1>2
<1> QED
  BY <1>1, <1>3

\* An operation returns: a failure leaves its trace, and only an operation that
\* found none is answered.
LEMMA SpentReturn ==
    ASSUME TypeOK, Spent, NEW c \in Callers, NEW outcome \in Outcomes, Return(c, outcome),
           UNCHANGED transport, closed => closed', encErr => encErr', decErr => decErr',
           outcome = "error" => encErr' \/ decErr',
           (outcome = "closed" /\ transport # "plain") => closed',
           outcome = "answered" => ~encErr /\ ~decErr /\ ~closed,
           \A d \in Callers : pc'[d] = "decode" => ~encErr'
    PROVE  Spent'
<1>1. /\ Len(log) \in Nat
      /\ DOMAIN log = 1 .. Len(log)
      /\ DOMAIN log' = 1 .. (Len(log) + 1)
      /\ \A k \in DOMAIN log : log'[k] = log[k]
      /\ log'[Len(log) + 1].outcome = outcome
  BY Logged
<1>2. \A j \in DOMAIN log' : log'[j].outcome = "error" => encErr' \/ decErr'
  BY <1>1 DEF Spent
<1>3. \A j \in DOMAIN log' : (log'[j].outcome = "closed" /\ transport' # "plain") => closed'
  BY <1>1 DEF Spent
<1>4. SpentAfterFailure'
  <2> SUFFICES ASSUME NEW j \in DOMAIN log', NEW k \in DOMAIN log', j < k,
                      \/ log'[j].outcome = "error"
                      \/ log'[j].outcome = "closed" /\ transport # "plain"
               PROVE  log'[k].outcome # "answered"
    BY DEF SpentAfterFailure
  <2>1. j \in DOMAIN log /\ log'[j] = log[j]
    BY <1>1
  <2>2. CASE k \in DOMAIN log
    BY <1>1, <2>1, <2>2 DEF Spent, SpentAfterFailure
  <2>3. CASE k = Len(log) + 1
    <3>1. encErr \/ decErr \/ closed
      BY <2>1 DEF Spent
    <3> QED
      BY <1>1, <2>3, <3>1
  <2> QED
    BY <1>1, <2>2, <2>3
<1> QED
  BY <1>2, <1>3, <1>4 DEF Spent

\* Every step leaves the trace of earlier failures.
LEMMA SpentNext == ClientInv /\ Spent /\ [Next]_vars => Spent'
<1> SUFFICES ASSUME ClientInv, Spent, [Next]_vars PROVE Spent'
  OBVIOUS
<1>0. TypeOK /\ Exchanging /\ {"refused", "error", "sent", "answered", "closed"} = Outcomes
  BY DEF ClientInv, Outcomes
\* Steps that end no operation.
<1>1. ASSUME UNCHANGED <<transport, log, encErr, decErr>>, closed => closed',
             \A c \in Callers : pc'[c] = "decode" => pc[c] = "decode" \/ ~encErr
      PROVE  Spent'
  BY <1>1 DEF Spent, SpentAfterFailure
<1>2. CASE UNCHANGED <<transport, clientVars>>
  BY <1>1, <1>2 DEF clientVars
<1>3. CASE \/ ServerReads \/ ServerLeaves \/ Terminated \/ UNCHANGED vars
           \/ \E r \in Callers : CtxDone(r) \/ ServerAnswers(r) \/ ServerSilent(r)
  <2>1. UNCHANGED <<transport, clientVars>>
    BY <1>3 DEF ServerReads, ServerLeaves, Terminated, vars, CtxDone, ServerAnswers,
       ServerSilent, config
  <2> QED
    BY <1>2, <2>1
\* Returning takes nobody into the wait for a response.
<1>4. ASSUME NEW c \in Callers, NEW outcome, Return(c, outcome)
      PROVE  \A d \in Callers : pc'[d] = "decode" => d # c /\ pc[d] = "decode"
  BY <1>0, <1>4 DEF Return, TypeOK
<1>5. ASSUME NEW c \in Callers, Lock(c) PROVE Spent'
  <2>1. CASE c \in ctx
    BY <1>0, <1>4, <1>5, <2>1, SpentReturn DEF Lock, Spent, config
  <2>2. CASE c \notin ctx
    BY <1>0, <1>1, <1>5, <2>2 DEF Lock, TypeOK, config
  <2> QED
    BY <2>1, <2>2
<1>6. ASSUME NEW c \in Callers, Close(c) PROVE Spent'
  BY <1>0, <1>4, <1>6, SpentReturn DEF Close, Spent, TypeOK, config
<1>7. ASSUME NEW c \in Callers, NEW closes \in BOOLEAN, EncodeOK(c, closes) PROVE Spent'
  <2>0. ~encErr /\ (closed => closed') /\ UNCHANGED <<transport, encErr, decErr>>
    BY <1>0, <1>7 DEF EncodeOK, MayClose, TypeOK, config
  <2>1. CASE op[c] = "notify"
    <3>1. Return(c, "sent")
      BY <1>7, <2>1 DEF EncodeOK
    <3> QED
      BY <1>0, <2>0, <3>1, SpentReturn
  <2>2. CASE op[c] # "notify"
    BY <1>1, <1>7, <2>0, <2>2 DEF EncodeOK, config
  <2> QED
    BY <2>1, <2>2
<1>8. ASSUME NEW c \in Callers, NEW closes \in BOOLEAN, EncodeRefused(c, closes) PROVE Spent'
  <2>1. /\ Return(c, "refused") /\ (closed => closed')
        /\ UNCHANGED <<transport, encErr, decErr>>
    BY <1>0, <1>8 DEF EncodeRefused, MayClose, TypeOK, config
  <2>2. \A d \in Callers : pc'[d] = "decode" => ~encErr'
    BY <1>4, <2>1 DEF Spent
  <2> QED
    BY <1>0, <2>1, <2>2, SpentReturn
\* The others are not in the middle of an exchange.
<1>9. ASSUME NEW c \in Callers, NEW closes \in BOOLEAN, EncodeFails(c, closes) PROVE Spent'
  <2>1. /\ pc[c] = "encode" /\ Return(c, "error") /\ (closed => closed') /\ encErr'
        /\ UNCHANGED <<transport, decErr>>
    BY <1>0, <1>9 DEF EncodeFails, MayClose, TypeOK, config
  <2>2. \A d \in Callers : pc'[d] # "decode"
    BY <1>0, <1>4, <2>1 DEF Exchanging
  <2> QED
    BY <1>0, <2>1, <2>2, SpentReturn
<1>10. ASSUME NEW c \in Callers, NEW closes \in BOOLEAN, DecodeOK(c, closes) PROVE Spent'
  <2>1. /\ pc[c] = "decode" /\ Return(c, "answered") /\ ~decErr /\ ~closed
        /\ UNCHANGED <<transport, encErr, decErr>>
    BY <1>10 DEF DecodeOK, config
  <2>2. ~encErr
    BY <2>1 DEF Spent
  <2> QED
    BY <1>0, <2>1, <2>2, SpentReturn
<1>11. ASSUME NEW c \in Callers, NEW closes \in BOOLEAN, DecodeFails(c, closes) PROVE Spent'
  <2>1. /\ Return(c, "error") /\ (closed => closed') /\ decErr'
        /\ UNCHANGED <<transport, encErr>>
    BY <1>0, <1>11 DEF DecodeFails, MayClose, TypeOK, config
  <2>2. \A d \in Callers : pc'[d] = "decode" => ~encErr'
    BY <1>4, <2>1 DEF Spent
  <2> QED
    BY <1>0, <2>1, <2>2, SpentReturn
<1> QED
  BY <1>3, <1>5, <1>6, <1>7, <1>8, <1>9, <1>10, <1>11 DEF Next, ClientStep

(***************************************************************************)
(* Once an operation has failed on the wire, or Close has returned, no     *)
(* later call on the connection is answered, for any number of callers and *)
(* although nothing in the TransportClient records the failure.            *)
(***************************************************************************)
THEOREM FailureIsFinal == Spec => []SpentAfterFailure
<1>1. Init => Spent
  BY DEF Init, Spent, SpentAfterFailure
<1>2. Spent => SpentAfterFailure
  BY DEF Spent
<1> QED
  BY <1>1, <1>2, SpentNext, ClientInductive, PTL DEF Spec
=============================================================================

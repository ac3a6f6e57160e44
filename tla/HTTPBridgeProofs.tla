-------------------------- MODULE HTTPBridgeProofs --------------------------
(***************************************************************************)
(* What the MethodMux, the HTTPHandler and the HTTPBridge guarantee for any *)
(* number of POSTs, handlers, changes to the mux and callers of the bridge. *)
(***************************************************************************)
EXTENDS HTTPBridge, TLAPS

-----------------------------------------------------------------------------
(***************************************************************************)
(* The inductive invariant, a part for each component.                     *)
(***************************************************************************)
\* A lookup between its two loads: the first found nothing, and what the
\* second will find is known to the history.
MuxInv ==
    /\ lookup \in [Posts -> {"idle", "default", "found", "unknown"}]
    /\ DOMAIN target = Posts /\ DOMAIN seen = Posts /\ DOMAIN seenDefault = Posts
    /\ \A p \in Posts : lookup[p] = "default" =>
          NoHandler \in seen[p] /\ defaultHandler \in seenDefault[p]
    /\ RoutedWhileRegistered

FramesOf(p) == [of : {p}, what : {"error", "response"}, no : Nat]

Entries == {"request", "notify", "invalid"}

RunTypeOK ==
    /\ body \in [Posts -> Bodies]
    /\ pc \in [Posts -> {"none", "decode", "entries", "handle", "done"}]
    /\ read \in [Posts -> Nat]
    /\ entry \in [Posts -> Nat]
    /\ resps \in [Posts -> Seq({"response", "unencodable"})]
    /\ failed \in [Posts -> SUBSET (Nat \X {"panic", "unencodable"})]

\* Everything a POST has written, and everything it is answered, is its own.
OwnFrames ==
    /\ DOMAIN buffer = Posts /\ DOMAIN answer = Posts
    /\ \A p \in Posts :
          /\ buffer[p] \in Seq(FramesOf(p))
          /\ answer[p].frames \in Seq(FramesOf(p))

InMessage(p) == pc[p] \in {"entries", "handle"}

\* The buffer holds, in order, a frame for each of the first n messages that is
\* owed one.
Settled(p, n) ==
    /\ Numbers(buffer[p]) = {k \in 1..n : Owes(p, k)}
    /\ InOrder(buffer[p])

\* What has been gathered for the current message is what its entries so far,
\* and the failures of their handlers, call for.
Answering(p) ==
    /\ resps[p] # << >> <=> Replies(p, read[p], entry[p] - 1)
    /\ (\E k \in DOMAIN resps[p] : resps[p][k] = "unencodable") <=> Spoilt(p, read[p])

AccountOf(p) ==
    /\ \A f \in failed[p] : f[1] <= read[p]
    /\ pc[p] = "none" => buffer[p] = << >> /\ read[p] = 0 /\ resps[p] = << >>
    /\ pc[p] = "decode" =>
          /\ read[p] <= Len(body[p].messages)
          /\ resps[p] = << >>
          /\ Settled(p, read[p])
    /\ InMessage(p) =>
          /\ read[p] \in 1..Len(body[p].messages)
          /\ entry[p] \in 1..Len(Message(p))
          /\ Settled(p, read[p] - 1)
          /\ Answering(p)

Accounted == \A p \in Posts : AccountOf(p)

\* What StatusTells says of one POST.
StatusOf(p) ==
    LET a == answer[p]
    IN  /\ a.code = 200 => a.frames # << >>
        /\ a.code \in {200, 204} =>
              Numbers(a.frames) = Owed(p) /\ InOrder(a.frames)
        /\ a.code = 500 => body[p].end \in {"syntax", "broken"} \/ p \in sctx
        /\ a.code \notin {200, 204} => a.frames = << >>

HandlerInv == RunTypeOK /\ OwnFrames /\ Accounted /\ StatusTells

\* Who has the mutex, and whose response the bridge holds meanwhile.
Exchange ==
    /\ DOMAIN op = Posts /\ DOMAIN at = Posts
    /\ \A c \in sent : op[c] \in {"call", "notify"}
    /\ DOMAIN result = Posts /\ DOMAIN got = Posts
    /\ \A c \in Posts :
          /\ at[c] \in {"wait", "decode"} => mu = c
          /\ at[c] = "wait" => respBuffer = << >>
          /\ at[c] = "decode" => respBuffer \in Seq(FramesOf(c))

BridgeInv == MuxInv /\ HandlerInv /\ Exchange /\ OwnHTTPResponse

-----------------------------------------------------------------------------
(***************************************************************************)
(* What a step of the whole is to each component.                          *)
(***************************************************************************)
MuxMoves ==
    \/ Administer
    \/ UNCHANGED muxVars
    \/ \E p \in Posts : LoadMethod(p) \/ LoadDefault(p) \/ EndLookup(p)

\* An entry is handled: its handler returns, or there is none to call.
Handled(p, what) ==
    /\ InMessage(p)
    /\ what \in Outcomes(Entry(p))
    /\ failed' = IF what = "response" THEN failed
                 ELSE [failed EXCEPT ![p] = @ \cup {<<read[p], what>>}]
    /\ Settle(p, Answer(p, what))

HandlerMoves ==
    \/ UNCHANGED httpVars
    \/ \E p \in Posts :
          \/ \E b \in Bodies : Receive(p, b)
          \/ CancelPost(p)
          \/ DecodeMessage(p)
          \/ \E what : Handled(p, what)
          \/ HandleEntry(p)
          \/ BodyEnds(p)
          \/ DecodeInterrupted(p)

BridgeMoves ==
    \/ UNCHANGED bridgeVars
    \/ \E c \in Posts :
          \/ Step(c) \/ CtxDone(c) \/ EncodeFails(c)
          \/ ResponseArrives(c) \/ GatewayAnswers(c) \/ ResponseBreaks(c) \/ PostFails(c)

\* Nothing the bridge does by itself touches the handler or the mux.
LEMMA BridgeAlone ==
    ASSUME NEW c \in Posts,
           \/ Step(c) \/ CtxDone(c) \/ EncodeFails(c)
           \/ ResponseArrives(c) \/ GatewayAnswers(c) \/ ResponseBreaks(c) \/ PostFails(c)
    PROVE  UNCHANGED httpVars /\ UNCHANGED muxVars
<1>1. UNCHANGED serverVars
  BY DEF Step, Close, CallCancelled, EncodeClosed, Encode, PostCancelled, Decode,
     CtxDone, EncodeFails, ResponseArrives, GatewayAnswers, ResponseBreaks,
     PostFails, Record
<1>2. QED
  BY <1>1 DEF serverVars

\* What a call or notification of the bridge posts is a body.
LEMMA PostedIsBody ==
    ASSUME NEW c \in Posts, NEW b,
           \/ /\ op[c] \in {"call", "notify"}
              /\ \E m \in Payloads[op[c]] :
                    b = [json |-> TRUE, messages |-> <<m>>, end |-> "eof"]
           \/ \E end \in {"truncated", "broken"} :
                 b = [json |-> TRUE, messages |-> << >>, end |-> end]
    PROVE  b \in Bodies
<1> DEFINE Es == {"request", "notify", "invalid"}
<1>1. \A m \in Seq(Es) : <<m>> \in Seq(Seq(Es))
  <2>1. \A S, e : e \in S => <<e>> \in Seq(S)
    OBVIOUS
  <2>2. QED
    BY <2>1, Zenon
<1>2. << >> \in Seq(Seq(Es))
  OBVIOUS
<1>3. op[c] \in {"call", "notify"} => \A m \in Payloads[op[c]] : m \in Seq(Es)
  BY PayloadsAssumption
<1>4. \E messages \in Seq(Seq(Es)), end \in {"eof", "truncated", "broken"} :
        b = [json |-> TRUE, messages |-> messages, end |-> end]
  BY <1>1, <1>2, <1>3
<1>5. QED
  BY <1>4 DEF Bodies

\* What ServeHTTP does is a move of the handler and one of the mux.
LEMMA ServeMoves ==
    ASSUME NEW p \in Posts, ServeHTTP(p)
    PROVE  HandlerMoves /\ MuxMoves
<1>1. CASE DecodeMessage(p) \/ BodyEnds(p) \/ DecodeInterrupted(p)
  <2>1. UNCHANGED muxVars
    BY <1>1 DEF DecodeMessage, BodyEnds, DecodeInterrupted
  <2>2. QED
    BY <1>1, <2>1, Zenon DEF HandlerMoves, MuxMoves
<1>2. CASE HandleInvalid(p)
  <2>1. UNCHANGED muxVars /\ Handled(p, "response")
    BY <1>2 DEF HandleInvalid, Handled, InMessage, Outcomes, Answer
  <2>2. QED
    BY <2>1, Zenon DEF HandlerMoves, MuxMoves
<1>3. CASE HandleEntry(p)
  <2>1. LoadMethod(p)
    BY <1>3 DEF HandleEntry
  <2>2. QED
    BY <1>3, <2>1, Zenon DEF HandlerMoves, MuxMoves
<1>4. CASE MethodNotFound(p) \/ \E what : HandlerReturns(p, what)
  <2>1. EndLookup(p) /\ \E what : Handled(p, what)
    BY <1>4 DEF MethodNotFound, HandlerReturns, Handled, InMessage, Outcomes
  <2>2. QED
    BY <2>1, Zenon DEF HandlerMoves, MuxMoves
<1>5. CASE LoadDefault(p) /\ UNCHANGED httpVars
  BY <1>5, Zenon DEF HandlerMoves, MuxMoves
<1>6. QED
  BY <1>1, <1>2, <1>3, <1>4, <1>5 DEF ServeHTTP

\* Every step of the whole is a move, or none, of each of the three.
LEMMA Moves ==
    ASSUME Exchange, [BridgeNext]_<<bridgeVars, serverVars>>
    PROVE  MuxMoves /\ HandlerMoves /\ BridgeMoves
<1>1. CASE UNCHANGED <<bridgeVars, serverVars>>
  <2>1. UNCHANGED httpVars /\ UNCHANGED muxVars /\ UNCHANGED bridgeVars
    BY <1>1 DEF serverVars
  <2>2. QED
    BY <2>1, Zenon DEF MuxMoves, HandlerMoves, BridgeMoves
<1>2. CASE Administer /\ UNCHANGED <<httpVars, bridgeVars>>
  <2>1. UNCHANGED httpVars /\ UNCHANGED bridgeVars
    BY <1>2
  <2>2. QED
    BY <1>2, <2>1, Zenon DEF MuxMoves, HandlerMoves, BridgeMoves
<1>3. ASSUME NEW c \in Posts,
             \/ Step(c) \/ CtxDone(c) \/ EncodeFails(c) \/ ResponseArrives(c)
             \/ GatewayAnswers(c) \/ ResponseBreaks(c) \/ PostFails(c)
      PROVE  MuxMoves /\ HandlerMoves /\ BridgeMoves
  <2>1. UNCHANGED httpVars /\ UNCHANGED muxVars
    BY <1>3, BridgeAlone
  <2>2. QED
    BY <1>3, <2>1, Zenon DEF MuxMoves, HandlerMoves, BridgeMoves
<1>4. ASSUME NEW c \in Posts,
             \/ Arrive(c) \/ ArriveTruncated(c)
             \/ \E b \in OtherBodies : ArriveOther(c, b)
      PROVE  MuxMoves /\ HandlerMoves /\ BridgeMoves
  <2>0. ASSUME Arrive(c) PROVE \E b \in Bodies : Receive(c, b)
    <3>1. op[c] \in {"call", "notify"}
      BY <2>0 DEF Arrive, Exchange
    <3>2. PICK m \in Payloads[op[c]] :
            Receive(c, [json |-> TRUE, messages |-> <<m>>, end |-> "eof"])
      BY <2>0 DEF Arrive
    <3>3. [json |-> TRUE, messages |-> <<m>>, end |-> "eof"] \in Bodies
      BY <3>1, PostedIsBody
    <3>4. QED
      BY <3>2, <3>3
  <2>1. UNCHANGED bridgeVars /\ \E b \in Bodies : Receive(c, b)
    BY <1>4, <2>0, PostedIsBody, BodiesAssumption DEF Arrive, ArriveTruncated, ArriveOther
  <2>2. UNCHANGED muxVars
    BY <2>1 DEF Receive
  <2>3. QED
    BY <2>1, <2>2, Zenon DEF MuxMoves, HandlerMoves, BridgeMoves
<1>5. ASSUME NEW c \in Posts, ServeHTTP(c), UNCHANGED bridgeVars
      PROVE  MuxMoves /\ HandlerMoves /\ BridgeMoves
  BY <1>5, ServeMoves, Zenon DEF BridgeMoves
<1>6. ASSUME NEW c \in Posts, CancelPost(c), UNCHANGED bridgeVars
      PROVE  MuxMoves /\ HandlerMoves /\ BridgeMoves
  <2>1. UNCHANGED muxVars
    BY <1>6 DEF CancelPost
  <2>2. QED
    BY <1>6, <2>1, Zenon DEF MuxMoves, HandlerMoves, BridgeMoves
<1>7. QED
  BY <1>1, <1>2, <1>3, <1>4, <1>5, <1>6, Zenon DEF BridgeNext, Network

-----------------------------------------------------------------------------
(***************************************************************************)
(* The mux.                                                                *)
(***************************************************************************)
LEMMA MuxStep ==
    ASSUME MuxInv, MuxMoves
    PROVE  MuxInv'
<1> USE PostsAssumption DEF MuxInv, RoutedWhileRegistered
<1>1. CASE UNCHANGED muxVars
  BY <1>1 DEF muxVars
<1>2. CASE Administer
  <2>1. PICK m, d : Change(m, d)
    BY <1>2 DEF Administer, Delete, Register, Replace, SetDefault
  <2>2. QED
    BY <2>1 DEF Change, Loading
<1>3. ASSUME NEW p \in Posts, LoadMethod(p) PROVE MuxInv'
  BY <1>3 DEF LoadMethod
<1>4. ASSUME NEW p \in Posts, LoadDefault(p) PROVE MuxInv'
  BY <1>4 DEF LoadDefault
<1>5. ASSUME NEW p \in Posts, EndLookup(p) PROVE MuxInv'
  BY <1>5 DEF EndLookup
<1>6. QED
  BY <1>1, <1>2, <1>3, <1>4, <1>5 DEF MuxMoves

-----------------------------------------------------------------------------
(***************************************************************************)
(* The handler, move by move.                                              *)
(***************************************************************************)
\* A frame with a number above all the others keeps the buffer in order.
LEMMA AppendFrame ==
    ASSUME NEW p, NEW s \in Seq(FramesOf(p)), NEW what \in {"error", "response"},
           NEW no \in Nat
    PROVE  LET t == Append(s, Frame(p, what, no))
           IN  /\ t \in Seq(FramesOf(p)) /\ t # << >>
               /\ Numbers(t) = Numbers(s) \cup {no}
               /\ InOrder(s) /\ (\A n \in Numbers(s) : n < no) => InOrder(t)
<1> DEFINE f == Frame(p, what, no)
           t == Append(s, f)
<1>1. f \in FramesOf(p) /\ f.no = no
  BY DEF Frame, FramesOf
<1> HIDE DEF f
<1>2. /\ t \in Seq(FramesOf(p)) /\ t # << >>
      /\ Len(s) \in Nat /\ DOMAIN s = 1..Len(s) /\ DOMAIN t = 1..(Len(s) + 1)
      /\ \A k \in DOMAIN s : t[k] = s[k]
      /\ t[Len(s) + 1] = f
  BY <1>1
<1> HIDE DEF t
<1>3. DOMAIN t = DOMAIN s \cup {Len(s) + 1}
  BY <1>2
<1>4. Numbers(t) = Numbers(s) \cup {no}
  BY <1>1, <1>2, <1>3 DEF Numbers
<1>5. ASSUME InOrder(s), \A n \in Numbers(s) : n < no PROVE InOrder(t)
  <2> SUFFICES ASSUME NEW j \in DOMAIN t, NEW k \in DOMAIN t, j < k
               PROVE  t[j].no < t[k].no
    BY DEF InOrder
  <2>1. j \in DOMAIN s
    BY <1>2
  <2>2. CASE k \in DOMAIN s
    BY <1>2, <1>5, <2>1, <2>2 DEF InOrder
  <2>3. CASE k = Len(s) + 1
    BY <1>1, <1>2, <1>5, <2>1, <2>3 DEF Numbers
  <2>4. QED
    BY <1>3, <2>2, <2>3
<1>6. QED
  BY <1>2, <1>4, <1>5 DEF t, f

\* A step of one POST leaves the accounts of the others as they are.
LEMMA OtherPosts ==
    ASSUME HandlerInv, NEW p \in Posts,
           \A q \in Posts \ {p} :
              /\ pc'[q] = pc[q] /\ body'[q] = body[q] /\ read'[q] = read[q]
              /\ entry'[q] = entry[q] /\ buffer'[q] = buffer[q]
              /\ resps'[q] = resps[q]
              /\ failed'[q] = failed[q] /\ answer'[q] = answer[q],
           sctx \subseteq sctx',
           AccountOf(p)',
           pc'[p] = "done" => StatusOf(p)'
    PROVE  Accounted' /\ StatusTells'
<1>0. ASSUME NEW q \in Posts \ {p}
      PROVE  /\ \A k : Owes(q, k)' <=> Owes(q, k)
             /\ Owed(q)' = Owed(q)
             /\ Answering(q)' <=> Answering(q)
             /\ \A n : Settled(q, n)' <=> Settled(q, n)
             /\ Message(q)' = Message(q)
  <2>1. \A k : Owes(q, k)' <=> Owes(q, k)
    BY <1>0 DEF Owes, Replies, Spoilt
  <2>2. Owed(q)' = Owed(q)
    BY <1>0, <2>1 DEF Owed
  <2>3. Answering(q)' <=> Answering(q)
    BY <1>0 DEF Answering, Replies, Spoilt
  <2>4. \A n : Settled(q, n)' <=> Settled(q, n)
    BY <1>0, <2>1 DEF Settled
  <2>5. QED
    BY <1>0, <2>1, <2>2, <2>3, <2>4 DEF Message
<1>1. ASSUME NEW q \in Posts \ {p} PROVE AccountOf(q)'
  <2>1. AccountOf(q)
    BY DEF HandlerInv, Accounted
  <2>2. QED
    BY <1>0, <2>1 DEF AccountOf, InMessage
<1>2. ASSUME NEW q \in Posts \ {p}, pc'[q] = "done" PROVE StatusOf(q)'
  <2>1. StatusOf(q)
    BY <1>2 DEF HandlerInv, StatusTells, StatusOf
  <2>2. QED
    BY <1>0, <2>1 DEF StatusOf
<1>3. Accounted'
  BY <1>1 DEF Accounted
<1>4. \A q \in Posts : pc'[q] = "done" => StatusOf(q)'
  BY <1>2
<1>5. QED
  BY <1>3, <1>4 DEF StatusTells, StatusOf

\* The types at one POST.
LEMMA TypesOf ==
    ASSUME HandlerInv, NEW p \in Posts
    PROVE  /\ buffer[p] \in Seq(FramesOf(p))
           /\ read[p] \in Nat /\ entry[p] \in Nat
           /\ resps[p] \in Seq({"response", "unencodable"})
           /\ failed[p] \subseteq Nat \X {"panic", "unencodable"}
           /\ body[p] \in Bodies
           /\ body[p].messages \in Seq(Seq(Entries))
           /\ Len(body[p].messages) \in Nat
           /\ AccountOf(p)
  BY DEF HandlerInv, RunTypeOK, OwnFrames, Accounted, Bodies, Entries

LEMMA MessageType ==
    ASSUME HandlerInv, NEW p \in Posts, NEW k \in 1..Len(body[p].messages)
    PROVE  /\ body[p].messages[k] \in Seq(Entries)
           /\ Len(body[p].messages[k]) \in Nat
           /\ Len(body[p].messages[k]) = 0 <=> body[p].messages[k] = << >>
<1>1. body[p].messages[k] \in Seq(Entries)
  BY TypesOf
<1> DEFINE m == body[p].messages[k]
<1> HIDE DEF m
<1>2. m \in Seq(Entries) => Len(m) \in Nat /\ (Len(m) = 0 <=> m = << >>)
  OBVIOUS
<1>3. QED
  BY <1>1, <1>2 DEF m

\* ServeHTTP is called once for a POST.
LEMMA ReceiveStep ==
    ASSUME HandlerInv, NEW p \in Posts, NEW b \in Bodies, Receive(p, b)
    PROVE  HandlerInv'
<1> USE DEF HandlerInv
<1>1. RunTypeOK'
  <2>1. /\ body' = [body EXCEPT ![p] = b]
        /\ pc' = [pc EXCEPT ![p] = "decode"] \/ pc' = [pc EXCEPT ![p] = "done"]
        /\ UNCHANGED <<read, entry, failed, resps>>
    BY DEF Receive, Respond
  <2>2. QED
    BY <2>1 DEF RunTypeOK
<1>2. OwnFrames'
  <2>1. CASE b.json
    BY <2>1 DEF Receive, OwnFrames
  <2>2. CASE ~b.json
    <3>1. /\ buffer' = [buffer EXCEPT ![p] = << >>]
          /\ answer' = [answer EXCEPT ![p] = [code |-> 415, json |-> FALSE,
                                              frames |-> << >>]]
      BY <2>2 DEF Receive, Respond
    <3>2. << >> \in Seq(FramesOf(p))
      OBVIOUS
    <3>3. QED
      BY <3>1, <3>2 DEF OwnFrames
  <2>3. QED
    BY <2>1, <2>2
<1>3. /\ buffer[p] = << >> /\ read[p] = 0 /\ resps[p] = << >>
      /\ \A f \in failed[p] : f[1] <= read[p]
      /\ Len(b.messages) \in Nat
  BY TypesOf DEF Receive, AccountOf, Bodies
<1>4. AccountOf(p)'
  <2>1. CASE b.json
    <3>1. /\ pc'[p] = "decode" /\ buffer'[p] = << >> /\ read'[p] = 0
          /\ resps'[p] = << >> /\ body'[p] = b /\ failed' = failed /\ read' = read
      BY <1>3, <2>1 DEF Receive, RunTypeOK
    <3>2. Settled(p, 0)'
      <4>1. Numbers(<< >>) = {} /\ InOrder(<< >>)
        BY DEF Numbers, InOrder
      <4>2. {k \in 1..0 : Owes(p, k)'} = {}
        OBVIOUS
      <4>3. QED
        BY <3>1, <4>1, <4>2 DEF Settled
    <3>3. QED
      BY <1>3, <3>1, <3>2 DEF AccountOf, InMessage
  <2>2. CASE ~b.json
    <3>1. pc'[p] = "done" /\ failed' = failed /\ read' = read
      BY <2>2 DEF Receive, RunTypeOK, Respond
    <3>2. QED
      BY <1>3, <3>1 DEF AccountOf, InMessage
  <2>3. QED
    BY <2>1, <2>2
<1>5. pc'[p] = "done" => StatusOf(p)'
  BY DEF Receive, RunTypeOK, OwnFrames, Respond, StatusOf
<1>6. Accounted' /\ StatusTells'
  BY <1>4, <1>5, OtherPosts DEF Receive, Respond, RunTypeOK, OwnFrames
<1>7. QED
  BY <1>1, <1>2, <1>6

LEMMA DecodeStep ==
    ASSUME HandlerInv, NEW p \in Posts, DecodeMessage(p)
    PROVE  HandlerInv'
<1> USE DEF HandlerInv
<1>0. PICK n : n = read[p] + 1
  OBVIOUS
<1>1. /\ n \in Nat /\ n \in 1..Len(body[p].messages) /\ read[p] = n - 1
      /\ read[p] < n /\ 1..n = (1..read[p]) \cup {n}
  <2>1. read[p] \in Nat /\ Len(body[p].messages) \in Nat /\ read[p] < Len(body[p].messages)
    BY TypesOf DEF DecodeMessage
  <2>2. QED
    BY <1>0, <2>1
<1>2. /\ read' = [read EXCEPT ![p] = n] /\ pc[p] = "decode"
      /\ UNCHANGED <<body, resps, failed, sctx, answer>>
      /\ body[p].messages[n] = << >> =>
            Write(p, "error", n) /\ UNCHANGED <<pc, entry>>
      /\ body[p].messages[n] # << >> =>
            /\ pc' = [pc EXCEPT ![p] = "entries"]
            /\ entry' = [entry EXCEPT ![p] = 1]
            /\ UNCHANGED buffer
  BY <1>0 DEF DecodeMessage
<1>3. RunTypeOK'
  <2>1. CASE body[p].messages[n] = << >>
    BY <1>1, <1>2, <2>1 DEF RunTypeOK
  <2>2. CASE body[p].messages[n] # << >>
    <3>1. read' \in [Posts -> Nat]
      BY <1>1, <1>2 DEF RunTypeOK
    <3>2. entry' \in [Posts -> Nat]
      <4>1. entry' = [entry EXCEPT ![p] = 1]
        BY <1>2, <2>2
      <4>2. entry \in [Posts -> Nat]
        BY DEF RunTypeOK
      <4>3. QED
        BY <4>1, <4>2
    <3>3. pc' \in [Posts -> {"none", "decode", "entries", "handle", "done"}]
      BY <1>2, <2>2 DEF RunTypeOK
    <3>4. QED
      BY <1>2, <3>1, <3>2, <3>3 DEF RunTypeOK
  <2>3. QED
    BY <2>1, <2>2
<1>4. OwnFrames'
  <2>1. CASE body[p].messages[n] = << >>
    <3>1. Append(buffer[p], Frame(p, "error", n)) \in Seq(FramesOf(p))
      BY <1>1, AppendFrame DEF OwnFrames
    <3>2. QED
      BY <1>2, <2>1, <3>1 DEF OwnFrames, Write
  <2>2. CASE body[p].messages[n] # << >>
    BY <1>2, <2>2 DEF OwnFrames
  <2>3. QED
    BY <2>1, <2>2
<1>5. /\ \A f \in failed[p] : f[1] <= read[p]
      /\ resps[p] = << >> /\ Settled(p, read[p])
  BY <1>2, TypesOf DEF AccountOf
<1>6. /\ <<n, "panic">> \notin failed[p] /\ <<n, "unencodable">> \notin failed[p]
      /\ \A f \in failed'[p] : f[1] <= read'[p]
      /\ read'[p] = n
  <2>1. read[p] \in Nat /\ failed[p] \subseteq Nat \X {"panic", "unencodable"}
    BY TypesOf
  <2>2. \A f \in failed[p] : f[1] \in Nat /\ f[1] < n
    BY <1>1, <1>5, <2>1
  <2>3. read'[p] = n /\ failed' = failed
    BY <1>2 DEF RunTypeOK
  <2>4. \A w : <<n, w>> \notin failed[p]
    <3> SUFFICES ASSUME NEW w, <<n, w>> \in failed[p] PROVE FALSE
      OBVIOUS
    <3>1. <<n, w>>[1] < n
      BY <2>2
    <3>2. QED
      BY <1>1, <3>1
  <2>5. QED
    BY <1>1, <2>2, <2>3, <2>4
<1>7. \A k : Owes(p, k)' <=> Owes(p, k)
  BY <1>2 DEF Owes, Replies, Spoilt
<1>8. AccountOf(p)'
  <2>1. CASE body[p].messages[n] = << >>
    <3>1. Owes(p, n)
      BY <1>6, <2>1 DEF Owes, Spoilt
    <3>2. /\ buffer'[p] = Append(buffer[p], Frame(p, "error", n))
          /\ pc'[p] = "decode"
      BY <1>2, <2>1 DEF Write, OwnFrames
    <3>3. /\ Numbers(buffer'[p]) = Numbers(buffer[p]) \cup {n}
          /\ InOrder(buffer'[p])
      <4>1. InOrder(buffer[p]) /\ \A no \in Numbers(buffer[p]) : no < n
        BY <1>1, <1>5 DEF Settled
      <4>2. QED
        BY <1>1, <3>2, <4>1, TypesOf, AppendFrame
    <3>4. Numbers(buffer'[p]) = {k \in 1..n : Owes(p, k)'}
      BY <1>1, <1>5, <1>7, <3>1, <3>3 DEF Settled
    <3>5. QED
      BY <1>1, <1>2, <1>5, <1>6, <3>2, <3>3, <3>4 DEF AccountOf, InMessage, Settled
  <2>2. CASE body[p].messages[n] # << >>
    <3>1. pc'[p] = "entries" /\ entry'[p] = 1 /\ buffer' = buffer
      BY <1>2, <2>2 DEF RunTypeOK
    <3>2. Message(p)' = body[p].messages[n]
      BY <1>2, <1>6 DEF Message
    <3>3. entry'[p] \in 1..Len(Message(p)')
      <4>1. Len(body[p].messages[n]) \in Nat /\ Len(body[p].messages[n]) # 0
        BY <1>1, <2>2, MessageType
      <4> DEFINE l == Len(body[p].messages[n])
      <4> HIDE DEF l
      <4>2. l \in Nat /\ l # 0 => 1 \in 1..l
        OBVIOUS
      <4>3. QED
        BY <3>1, <3>2, <4>1, <4>2 DEF l
    <3>4. Answering(p)'
      <4>1. resps'[p] = << >>
        BY <1>2, <1>5
      <4>2. 1..(entry'[p] - 1) = {}
        BY <3>1
      <4>3. ~Replies(p, read[p], entry[p] - 1)'
        BY <1>2, <1>6, <4>2 DEF Replies
      <4>4. ~Spoilt(p, read[p])'
        BY <1>2, <1>6 DEF Spoilt
      <4>5. QED
        BY <4>1, <4>3, <4>4 DEF Answering
    <3>5. Settled(p, read[p] - 1)'
      <4>1. read'[p] - 1 = read[p]
        BY <1>1, <1>6
      <4>2. Numbers(buffer'[p]) = {k \in 1..(read'[p] - 1) : Owes(p, k)'}
        BY <1>5, <1>7, <3>1, <4>1 DEF Settled
      <4>3. QED
        BY <1>5, <3>1, <4>2 DEF Settled
    <3>6. QED
      BY <1>1, <1>2, <1>6, <3>1, <3>3, <3>4, <3>5 DEF AccountOf, InMessage
  <2>3. QED
    BY <2>1, <2>2
<1>9. pc'[p] # "done"
  BY <1>2 DEF RunTypeOK
<1>10. Accounted' /\ StatusTells'
  BY <1>2, <1>8, <1>9, OtherPosts DEF RunTypeOK, OwnFrames, Write
<1>11. QED
  BY <1>3, <1>4, <1>10

\* What handling an entry adds to the responses and to the failures.
LEMMA HandledFacts ==
    ASSUME HandlerInv, NEW p \in Posts, NEW what, Handled(p, what)
    PROVE  /\ Answer(p, what) \in Seq({"response", "unencodable"})
           /\ Answer(p, what) # << >> <=> (Entry(p) # "notify" \/ what = "panic")
           /\ (\E k \in DOMAIN Answer(p, what) : Answer(p, what)[k] = "unencodable")
                 <=> what = "unencodable"
           /\ failed' \in [Posts -> SUBSET (Nat \X {"panic", "unencodable"})]
           /\ \A q \in Posts \ {p} : failed'[q] = failed[q]
           /\ \A k, w : w \in {"panic", "unencodable"} =>
                 (<<k, w>> \in failed'[p]
                     <=> <<k, w>> \in failed[p] \/ (k = read[p] /\ w = what))
           /\ \A f \in failed'[p] : f \in failed[p] \/ f[1] = read[p]
<1>1. /\ what \in {"response", "panic", "unencodable"}
      /\ Entry(p) = "notify" => what # "unencodable"
      /\ Entry(p) # "notify" => what # "panic"
  BY DEF Handled, Outcomes
<1>2. /\ Entry(p) = "notify" /\ what = "panic" => Answer(p, what) = <<"response">>
      /\ Entry(p) = "notify" /\ what # "panic" => Answer(p, what) = << >>
      /\ Entry(p) # "notify" => Answer(p, what) = <<what>>
  BY DEF Answer
<1>3. \A w \in {"response", "unencodable"} :
         /\ <<w>> \in Seq({"response", "unencodable"}) /\ <<w>> # << >>
         /\ (\E k \in DOMAIN <<w>> : <<w>>[k] = "unencodable") <=> w = "unencodable"
  OBVIOUS
<1>4. /\ << >> \in Seq({"response", "unencodable"})
      /\ ~ \E k \in DOMAIN << >> : << >>[k] = "unencodable"
  OBVIOUS
<1>5. /\ Answer(p, what) \in Seq({"response", "unencodable"})
      /\ Answer(p, what) # << >> <=> (Entry(p) # "notify" \/ what = "panic")
      /\ (\E k \in DOMAIN Answer(p, what) : Answer(p, what)[k] = "unencodable")
            <=> what = "unencodable"
  <2>1. CASE Entry(p) # "notify"
    BY <1>1, <1>2, <1>3, <2>1
  <2>2. CASE Entry(p) = "notify" /\ what = "panic"
    BY <1>2, <1>3, <2>2
  <2>3. CASE Entry(p) = "notify" /\ what # "panic"
    BY <1>1, <1>2, <1>4, <2>3
  <2>4. QED
    BY <2>1, <2>2, <2>3
<1>6. read[p] \in Nat /\ failed \in [Posts -> SUBSET (Nat \X {"panic", "unencodable"})]
  BY TypesOf DEF HandlerInv, RunTypeOK
<1>7. CASE what = "response"
  BY <1>5, <1>6, <1>7 DEF Handled
<1>8. CASE what # "response"
  <2>1. failed' = [failed EXCEPT ![p] = @ \cup {<<read[p], what>>}]
    BY <1>8 DEF Handled
  <2>2. what \in {"panic", "unencodable"}
    BY <1>1, <1>8
  <2>3. <<read[p], what>> \in Nat \X {"panic", "unencodable"}
    BY <1>6, <2>2
  <2>4. QED
    BY <1>5, <1>6, <2>1, <2>2, <2>3
<1>9. QED
  BY <1>7, <1>8

\* What is gathered up to an entry is what the entries up to it call for.
LEMMA GatheredFacts ==
    ASSUME HandlerInv, NEW p \in Posts, NEW what, Handled(p, what)
    PROVE  LET all == Gathered(p, Answer(p, what))
           IN  /\ all \in Seq({"response", "unencodable"})
               /\ all # << >> <=>
                     \/ \E i \in 1..entry[p] : Message(p)[i] # "notify"
                     \/ <<read[p], "panic">> \in failed'[p]
               /\ (\E k \in DOMAIN all : all[k] = "unencodable")
                     <=> <<read[p], "unencodable">> \in failed'[p]
<1> DEFINE s == resps[p]
           a == Answer(p, what)
           S == {"response", "unencodable"}
<1>1. s \in Seq(S) /\ a \in Seq(S)
  BY TypesOf, HandledFacts
<1>2. /\ AccountOf(p) /\ InMessage(p)
  BY TypesOf DEF Handled
<1>3. entry[p] \in Nat /\ entry[p] # 0 /\ entry[p] \in 1..Len(Message(p))
  <2>1. entry[p] \in Nat /\ entry[p] \in 1..Len(Message(p))
    BY <1>2, TypesOf DEF AccountOf
  <2>2. QED
    BY <2>1
<1>4. 1..entry[p] = 1..(entry[p] - 1) \cup {entry[p]}
  BY <1>3
<1>5. /\ s # << >> <=> \/ \E i \in 1..(entry[p] - 1) : Message(p)[i] # "notify"
                       \/ <<read[p], "panic">> \in failed[p]
      /\ (\E k \in DOMAIN s : s[k] = "unencodable")
            <=> <<read[p], "unencodable">> \in failed[p]
  BY <1>2 DEF AccountOf, Answering, Replies, Spoilt, Message
<1>6. /\ a # << >> <=> (Entry(p) # "notify" \/ what = "panic")
      /\ (\E k \in DOMAIN a : a[k] = "unencodable") <=> what = "unencodable"
      /\ <<read[p], "panic">> \in failed'[p]
            <=> <<read[p], "panic">> \in failed[p] \/ what = "panic"
      /\ <<read[p], "unencodable">> \in failed'[p]
            <=> <<read[p], "unencodable">> \in failed[p] \/ what = "unencodable"
  BY HandledFacts
<1> HIDE DEF s, a
<1>7. /\ s \o a \in Seq(S)
      /\ s \o a # << >> <=> (s # << >> \/ a # << >>)
      /\ (\E k \in DOMAIN (s \o a) : (s \o a)[k] = "unencodable")
            <=> \/ \E k \in DOMAIN s : s[k] = "unencodable"
                \/ \E k \in DOMAIN a : a[k] = "unencodable"
  <2>1. /\ s \o a \in Seq(S) /\ Len(s) \in Nat /\ Len(a) \in Nat
        /\ DOMAIN s = 1..Len(s) /\ DOMAIN a = 1..Len(a)
        /\ DOMAIN (s \o a) = 1..(Len(s) + Len(a))
        /\ Len(s \o a) = Len(s) + Len(a)
        /\ \A k \in 1..Len(s) : (s \o a)[k] = s[k]
        /\ \A k \in 1..Len(a) : (s \o a)[Len(s) + k] = a[k]
    BY <1>1
  <2>2. /\ s # << >> <=> Len(s) # 0
        /\ a # << >> <=> Len(a) # 0
        /\ s \o a # << >> <=> Len(s \o a) # 0
    BY <1>1, <2>1
  <2>3. s \o a # << >> <=> (s # << >> \/ a # << >>)
    BY <2>1, <2>2
  <2>4. ASSUME NEW k \in DOMAIN (s \o a), (s \o a)[k] = "unencodable"
        PROVE  \/ \E i \in DOMAIN s : s[i] = "unencodable"
               \/ \E i \in DOMAIN a : a[i] = "unencodable"
    <3>1. CASE k \in DOMAIN s
      BY <2>1, <2>4, <3>1
    <3>2. CASE k \notin DOMAIN s
      <4>1. k - Len(s) \in DOMAIN a /\ k = Len(s) + (k - Len(s))
        BY <2>1, <3>2
      <4>2. a[k - Len(s)] = "unencodable"
        BY <2>1, <2>4, <4>1
      <4>3. QED
        BY <4>1, <4>2
    <3>3. QED
      BY <3>1, <3>2
  <2>5. ASSUME NEW k \in DOMAIN s, s[k] = "unencodable"
        PROVE  \E i \in DOMAIN (s \o a) : (s \o a)[i] = "unencodable"
    BY <2>1, <2>5
  <2>6. ASSUME NEW k \in DOMAIN a, a[k] = "unencodable"
        PROVE  \E i \in DOMAIN (s \o a) : (s \o a)[i] = "unencodable"
    <3>1. Len(s) + k \in DOMAIN (s \o a) /\ (s \o a)[Len(s) + k] = "unencodable"
      BY <2>1, <2>6
    <3>2. QED
      BY <3>1
  <2>7. QED
    BY <2>1, <2>3, <2>4, <2>5, <2>6
<1>8. s \o a = Gathered(p, Answer(p, what))
  BY DEF Gathered, s, a
<1>9. (\E i \in 1..entry[p] : Message(p)[i] # "notify")
         <=> \/ \E i \in 1..(entry[p] - 1) : Message(p)[i] # "notify"
             \/ Entry(p) # "notify"
  BY <1>4 DEF Entry
<1>10. /\ s \o a # << >> <=>
             \/ \E i \in 1..entry[p] : Message(p)[i] # "notify"
             \/ <<read[p], "panic">> \in failed'[p]
       /\ (\E k \in DOMAIN (s \o a) : (s \o a)[k] = "unencodable")
             <=> <<read[p], "unencodable">> \in failed'[p]
  BY <1>5, <1>6, <1>7, <1>9
<1>11. QED
  BY <1>7, <1>8, <1>10

LEMMA SettleStep ==
    ASSUME HandlerInv, NEW p \in Posts, NEW what, Handled(p, what)
    PROVE  HandlerInv'
<1> USE DEF HandlerInv
<1>a. PICK all, r, m : /\ all = Gathered(p, Answer(p, what))
                       /\ r = read[p]
                       /\ m = body[p].messages[r]
  OBVIOUS
<1>0. /\ UNCHANGED <<body, read, sctx, answer>>
      /\ entry[p] < Len(m) =>
            /\ pc' = [pc EXCEPT ![p] = "entries"]
            /\ entry' = [entry EXCEPT ![p] = @ + 1]
            /\ resps' = [resps EXCEPT ![p] = all]
            /\ UNCHANGED buffer
      /\ ~(entry[p] < Len(m)) =>
            /\ pc' = [pc EXCEPT ![p] = "decode"]
            /\ entry' = [entry EXCEPT ![p] = 0]
            /\ resps' = [resps EXCEPT ![p] = << >>]
            /\ Encodable(all) => Write(p, "response", r)
            /\ ~Encodable(all) => UNCHANGED buffer
  BY <1>a DEF Handled, Settle, Message
<1>1. /\ all \in Seq({"response", "unencodable"})
      /\ all # << >> <=> \/ \E i \in 1..entry[p] : m[i] # "notify"
                         \/ <<r, "panic">> \in failed'[p]
      /\ (\E k \in DOMAIN all : all[k] = "unencodable")
            <=> <<r, "unencodable">> \in failed'[p]
  BY <1>a, GatheredFacts DEF Message
<1>2. /\ failed' \in [Posts -> SUBSET (Nat \X {"panic", "unencodable"})]
      /\ \A q \in Posts \ {p} : failed'[q] = failed[q]
      /\ \A k, w : w \in {"panic", "unencodable"} /\ k # r =>
            (<<k, w>> \in failed'[p] <=> <<k, w>> \in failed[p])
      /\ \A f \in failed'[p] : f \in failed[p] \/ f[1] = r
  BY <1>a, HandledFacts
<1>3. /\ r \in Nat /\ r \in 1..Len(body[p].messages) /\ entry[p] \in Nat
      /\ entry[p] \in 1..Len(m)
      /\ Settled(p, r - 1)
      /\ \A f \in failed[p] : f[1] <= r
  BY <1>a, TypesOf DEF Handled, AccountOf, Message
<1>4. /\ Len(m) \in Nat /\ m # << >> /\ r - 1 \in Nat
      /\ 1..r = (1..(r - 1)) \cup {r}
      /\ \A k \in 1..(r - 1) : k # r
  <2>1. Len(m) \in Nat /\ (Len(m) = 0 <=> m = << >>)
    BY <1>a, <1>3, MessageType
  <2>2. QED
    BY <1>3, <2>1
<1>5. RunTypeOK'
  <2>1. /\ \E x \in {"entries", "decode"} : pc' = [pc EXCEPT ![p] = x]
        /\ \E x \in Nat : entry' = [entry EXCEPT ![p] = x]
        /\ \E x \in Seq({"response", "unencodable"}) : resps' = [resps EXCEPT ![p] = x]
    <3>1. entry[p] + 1 \in Nat /\ 0 \in Nat /\ << >> \in Seq({"response", "unencodable"})
      BY <1>3
    <3>2. QED
      BY <1>0, <1>1, <3>1
  <2>2. QED
    BY <1>0, <1>2, <2>1 DEF RunTypeOK
<1>6. OwnFrames'
  <2>1. Append(buffer[p], Frame(p, "response", r)) \in Seq(FramesOf(p))
    BY <1>3, AppendFrame DEF OwnFrames
  <2>2. answer' = answer /\ (buffer' = buffer \/ Write(p, "response", r))
    BY <1>0
  <2>3. QED
    BY <2>1, <2>2 DEF OwnFrames, Write
<1>7. \A k \in 1..(r - 1) : Owes(p, k)' <=> Owes(p, k)
  BY <1>0, <1>2, <1>4 DEF Owes, Replies, Spoilt
<1>8. \A f \in failed'[p] : f[1] <= read'[p]
  BY <1>a, <1>0, <1>2, <1>3
<1>9. read'[p] = r /\ body' = body
  BY <1>a, <1>0
<1>10. CASE entry[p] < Len(m)
  <2>1. /\ pc'[p] = "entries" /\ entry'[p] = entry[p] + 1 /\ resps'[p] = all
        /\ buffer' = buffer
    BY <1>0, <1>10 DEF RunTypeOK
  <2>2. Settled(p, read[p] - 1)'
    BY <1>a, <1>3, <1>7, <1>9, <2>1 DEF Settled
  <2>3. Answering(p)'
    <3>1. entry'[p] - 1 = entry[p]
      BY <1>3, <2>1
    <3>2. Replies(p, read[p], entry[p] - 1)' <=> all # << >>
      BY <1>a, <1>1, <1>9, <3>1 DEF Replies
    <3>3. Spoilt(p, read[p])' <=> \E k \in DOMAIN all : all[k] = "unencodable"
      BY <1>1, <1>9 DEF Spoilt
    <3>4. QED
      BY <2>1, <3>2, <3>3 DEF Answering
  <2>4. Message(p)' = m
    BY <1>a, <1>9 DEF Message
  <2>5. entry'[p] \in 1..Len(Message(p)')
    BY <1>3, <1>4, <1>10, <2>1, <2>4
  <2>6. AccountOf(p)' /\ pc'[p] # "done"
    BY <1>3, <1>8, <1>9, <2>1, <2>2, <2>3, <2>5 DEF AccountOf, InMessage
  <2>7. Accounted' /\ StatusTells'
    BY <1>0, <1>2, <1>10, <2>6, OtherPosts DEF RunTypeOK
  <2>8. QED
    BY <1>5, <1>6, <2>7
<1>11. CASE ~(entry[p] < Len(m))
  <2>1. pc'[p] = "decode" /\ resps'[p] = << >>
    BY <1>0, <1>11 DEF RunTypeOK
  <2>2. entry[p] = Len(m)
    BY <1>3, <1>4, <1>11
  <2>3. Owes(p, r)' <=> Encodable(all)
    <3>1. Owes(p, r)' <=> /\ \/ \E i \in 1..Len(m) : m[i] # "notify"
                             \/ <<r, "panic">> \in failed'[p]
                          /\ <<r, "unencodable">> \notin failed'[p]
      BY <1>a, <1>4, <1>9 DEF Owes, Replies, Spoilt
    <3>2. Encodable(all) <=> /\ all # << >>
                             /\ ~ \E k \in DOMAIN all : all[k] = "unencodable"
      BY DEF Encodable
    <3>3. QED
      BY <1>1, <2>2, <3>1, <3>2
  <2>4. Settled(p, r)'
    <3>1. CASE Encodable(all)
      <4>1. buffer'[p] = Append(buffer[p], Frame(p, "response", r))
        BY <1>0, <1>11, <3>1 DEF Write, OwnFrames
      <4>2. InOrder(buffer[p]) /\ \A no \in Numbers(buffer[p]) : no < r
        BY <1>3, <1>4 DEF Settled
      <4>3. Numbers(buffer'[p]) = Numbers(buffer[p]) \cup {r} /\ InOrder(buffer'[p])
        BY <1>3, <4>1, <4>2, TypesOf, AppendFrame
      <4>4. Numbers(buffer'[p]) = {k \in 1..r : Owes(p, k)'}
        BY <1>3, <1>4, <1>7, <2>3, <3>1, <4>3 DEF Settled
      <4>5. QED
        BY <1>9, <4>3, <4>4 DEF Settled
    <3>2. CASE ~Encodable(all)
      <4>1. buffer' = buffer
        BY <1>0, <1>11, <3>2
      <4>2. Numbers(buffer'[p]) = {k \in 1..r : Owes(p, k)'}
        BY <1>3, <1>4, <1>7, <2>3, <3>2, <4>1 DEF Settled
      <4>3. QED
        BY <1>3, <1>9, <4>1, <4>2 DEF Settled
    <3>3. QED
      BY <3>1, <3>2
  <2>5. AccountOf(p)'
    <3>1. read'[p] <= Len(body'[p].messages)
      BY <1>3, <1>9
    <3>2. Settled(p, read[p])'
      BY <1>9, <2>4 DEF Settled
    <3>3. QED
      BY <1>8, <2>1, <3>1, <3>2 DEF AccountOf, InMessage
  <2>6. Accounted' /\ StatusTells'
    BY <1>0, <1>2, <1>11, <2>1, <2>5, OtherPosts DEF RunTypeOK, OwnFrames, Write
  <2>7. QED
    BY <1>5, <1>6, <2>6
<1>12. QED
  BY <1>10, <1>11

LEMMA EntryStep ==
    ASSUME HandlerInv, NEW p \in Posts, CancelPost(p) \/ HandleEntry(p)
    PROVE  HandlerInv'
<1> USE DEF HandlerInv
<1>1. /\ UNCHANGED <<body, runVars, answer>> /\ sctx \subseteq sctx'
      /\ \/ pc' = pc
         \/ pc[p] = "entries" /\ pc' = [pc EXCEPT ![p] = "handle"]
  <2>1. CASE CancelPost(p)
    <3>1. sctx' = sctx \cup {p} /\ UNCHANGED <<body, pc, runVars, answer>>
      BY <2>1 DEF CancelPost
    <3>2. sctx \subseteq sctx'
      BY <3>1
    <3>3. pc' = pc /\ UNCHANGED <<body, runVars, answer>>
      BY <3>1
    <3>4. QED
      BY <3>2, <3>3
  <2>2. CASE HandleEntry(p)
    BY <2>2 DEF HandleEntry
  <2>3. QED
    BY <2>1, <2>2
<1>2. RunTypeOK' /\ OwnFrames'
  BY <1>1 DEF runVars, RunTypeOK, OwnFrames
<1>3. InMessage(p)' = InMessage(p) /\ pc'[p] = "done" => pc[p] = "done"
  BY <1>1 DEF InMessage, RunTypeOK
<1>4. AccountOf(p)'
  <2>1. AccountOf(p)
    BY TypesOf
  <2>2. CASE pc' = pc
    BY <1>1, <2>1, <2>2 DEF AccountOf, InMessage, runVars, Message, Settled, Answering,
       Owes, Replies, Spoilt
  <2>3. CASE pc[p] = "entries" /\ pc' = [pc EXCEPT ![p] = "handle"]
    <3>1. pc'[p] = "handle"
      BY <2>3 DEF RunTypeOK
    <3>2. QED
      BY <1>1, <2>1, <2>3, <3>1 DEF AccountOf, InMessage, runVars, Message, Settled,
         Answering, Owes, Replies, Spoilt
  <2>4. QED
    BY <1>1, <2>2, <2>3
<1>5. pc'[p] = "done" => StatusOf(p)'
  <2> SUFFICES ASSUME pc'[p] = "done" PROVE StatusOf(p)'
    OBVIOUS
  <2>1. StatusOf(p)
    BY <1>1 DEF StatusTells, StatusOf, RunTypeOK
  <2>2. QED
    BY <1>1, <2>1 DEF StatusOf, runVars, Owed, Owes, Replies, Spoilt
<1>6. Accounted' /\ StatusTells'
  BY <1>1, <1>4, <1>5, OtherPosts DEF runVars, RunTypeOK
<1>7. QED
  BY <1>2, <1>6

(***************************************************************************)
(* ServeHTTP responds.  All messages are read, so the buffer holds what    *)
(* they are owed; the response is the buffer or withheld.                  *)
(***************************************************************************)
LEMMA RespondStep ==
    ASSUME HandlerInv, NEW p \in Posts, BodyEnds(p) \/ DecodeInterrupted(p)
    PROVE  HandlerInv'
<1> USE DEF HandlerInv
<1> DEFINE n == Len(body[p].messages)
           Fit(code, frames) ==
              /\ frames \in Seq(FramesOf(p))
              /\ code = 200 => frames # << >>
              /\ code \in {200, 204} =>
                    Numbers(frames) = Owed(p) /\ InOrder(frames)
              /\ code = 500 => body[p].end \in {"syntax", "broken"} \/ p \in sctx
              /\ code \notin {200, 204} => frames = << >>
<1>0. n \in Nat /\ buffer[p] \in Seq(FramesOf(p)) /\ AccountOf(p) /\ pc[p] = "decode"
  BY TypesOf DEF BodyEnds, DecodeInterrupted
<1>1. \E code, frames : Respond(p, code, frames) /\ Fit(code, frames)
  <2>1. << >> \in Seq(FramesOf(p))
    OBVIOUS
  <2>2. ASSUME BodyEnds(p)
        PROVE  Numbers(buffer[p]) = {k \in 1..n : Owes(p, k)} /\ InOrder(buffer[p])
    BY <1>0, <2>2 DEF BodyEnds, AccountOf, Settled
  <2>3. ASSUME BodyEnds(p), body[p].end = "truncated"
        PROVE  Respond(p, 200, WithParseError(p)) /\ Fit(200, WithParseError(p))
    <3>1. \A no \in Numbers(buffer[p]) : no < n + 1
      BY <1>0, <2>2, <2>3
    <3>2. /\ WithParseError(p) \in Seq(FramesOf(p)) /\ WithParseError(p) # << >>
          /\ Numbers(WithParseError(p)) = Numbers(buffer[p]) \cup {n + 1}
          /\ InOrder(WithParseError(p))
      BY <1>0, <2>2, <2>3, <3>1, AppendFrame DEF WithParseError
    <3>3. Numbers(WithParseError(p)) = Owed(p)
      BY <2>2, <2>3, <3>2 DEF Owed
    <3>4. QED
      BY <2>3, <3>2, <3>3 DEF BodyEnds
  <2>4. ASSUME BodyEnds(p), body[p].end = "eof"
        PROVE  Numbers(buffer[p]) = Owed(p) /\ InOrder(buffer[p])
    BY <2>2, <2>4 DEF Owed
  <2>5. ASSUME BodyEnds(p), body[p].end = "eof", buffer[p] = << >>
        PROVE  Respond(p, 204, << >>) /\ Fit(204, << >>)
    <3>1. Numbers(<< >>) = Owed(p) /\ InOrder(<< >>)
      BY <2>4, <2>5
    <3>2. QED
      BY <2>1, <2>5, <3>1 DEF BodyEnds, EOFStatus
  <2>6. ASSUME BodyEnds(p), body[p].end = "eof", buffer[p] # << >>
        PROVE  Respond(p, 200, buffer[p]) /\ Fit(200, buffer[p])
    BY <1>0, <2>4, <2>6 DEF BodyEnds, EOFStatus
  <2>7. ASSUME BodyEnds(p), body[p].end = "toolarge"
        PROVE  Respond(p, 413, << >>) /\ Fit(413, << >>)
    BY <2>1, <2>7 DEF BodyEnds
  <2>8. ASSUME BodyEnds(p), body[p].end \in {"syntax", "broken"}
        PROVE  Respond(p, 500, << >>) /\ Fit(500, << >>)
    BY <2>1, <2>8 DEF BodyEnds
  <2>9. ASSUME DecodeInterrupted(p)
        PROVE  Respond(p, 500, << >>) /\ Fit(500, << >>)
    BY <2>1, <2>9 DEF DecodeInterrupted
  <2>10. BodyEnds(p) => body[p].end \in {"eof", "truncated", "toolarge", "syntax", "broken"}
    BY DEF BodyEnds
  <2> HIDE DEF Fit
  <2>11. CASE BodyEnds(p)
    BY <2>3, <2>5, <2>6, <2>7, <2>8, <2>10, <2>11
  <2>12. QED
    BY <2>9, <2>11
<1>2. PICK code, frames : Respond(p, code, frames) /\ Fit(code, frames)
  BY <1>1
<1>3. UNCHANGED <<body, read, entry, resps, failed, sctx>>
  BY DEF BodyEnds, DecodeInterrupted
<1>4. RunTypeOK'
  BY <1>2, <1>3 DEF RunTypeOK, Respond
<1>5. /\ pc'[p] = "done"
      /\ answer'[p].code = code /\ answer'[p].frames = frames
      /\ buffer'[p] = << >>
      /\ DOMAIN buffer' = Posts /\ DOMAIN answer' = Posts
      /\ \A q \in Posts \ {p} : /\ pc'[q] = pc[q] /\ buffer'[q] = buffer[q]
                               /\ answer'[q] = answer[q]
  BY <1>2 DEF Respond, RunTypeOK, OwnFrames
<1>6. OwnFrames'
  <2>1. << >> \in Seq(FramesOf(p)) /\ frames \in Seq(FramesOf(p))
    BY <1>2
  <2>2. ASSUME NEW q \in Posts
        PROVE  buffer'[q] \in Seq(FramesOf(q)) /\ answer'[q].frames \in Seq(FramesOf(q))
    BY <1>5, <2>1, <2>2 DEF OwnFrames
  <2>3. QED
    BY <1>5, <2>2 DEF OwnFrames
<1>7. AccountOf(p)'
  <2>1. \A f \in failed'[p] : f[1] <= read'[p]
    BY <1>0, <1>3 DEF AccountOf
  <2>2. QED
    BY <1>5, <2>1 DEF AccountOf, InMessage
<1>8. StatusOf(p)'
  <2>1. Owed(p)' = Owed(p)
    BY <1>3 DEF Owed, Owes, Replies, Spoilt
  <2>2. QED
    BY <1>2, <1>3, <1>5, <2>1 DEF StatusOf
<1>9. Accounted' /\ StatusTells'
  BY <1>3, <1>5, <1>7, <1>8, OtherPosts
<1>10. QED
  BY <1>4, <1>6, <1>9

LEMMA HandlerStep ==
    ASSUME HandlerInv, HandlerMoves
    PROVE  HandlerInv'
<1>1. CASE UNCHANGED httpVars
  <2>1. UNCHANGED <<body, pc, read, entry, resps, buffer, failed, sctx, answer>>
    BY <1>1 DEF httpVars, runVars
  <2>2. (RunTypeOK /\ OwnFrames)'
    BY <2>1 DEF HandlerInv, RunTypeOK, OwnFrames
  <2>3. Accounted'
    <3>1. \A p : /\ Message(p)' = Message(p) /\ Answering(p)' = Answering(p)
                 /\ \A n : Settled(p, n)' = Settled(p, n)
      BY <2>1 DEF Message, Settled, Answering, Owes, Replies, Spoilt
    <3>2. QED
      BY <2>1, <3>1 DEF HandlerInv, Accounted, AccountOf, InMessage
  <2>4. StatusTells'
    <3>1. \A p : Owed(p)' = Owed(p)
      BY <2>1 DEF Owed, Owes, Replies, Spoilt
    <3>2. QED
      BY <2>1, <3>1 DEF HandlerInv, StatusTells
  <2>5. QED
    BY <2>2, <2>3, <2>4 DEF HandlerInv
<1>2. QED
  BY <1>1, ReceiveStep, DecodeStep, SettleStep, EntryStep, RespondStep DEF HandlerMoves

-----------------------------------------------------------------------------
(***************************************************************************)
(* The bridge.                                                             *)
(***************************************************************************)
\* An operation returns: it gives the mutex back, and the frame it returns is
\* its own if it is a call.
LEMMA ReturnStep ==
    ASSUME Exchange, OwnHTTPResponse, NEW c \in Posts, NEW r, NEW f,
           Return(c, r, f), op' = op, sent' = sent,
           at[c] \in {"lock", "wait", "decode"},
           at[c] = "lock" => mu = Nobody,
           op[c] = "call" /\ r = "ok" => f.of = c
    PROVE  Exchange' /\ OwnHTTPResponse'
<1>1. \A d \in Posts \ {c} : at[d] \notin {"wait", "decode"}
  BY PostsAssumption DEF Exchange
<1>2. \A d \in Posts : at'[d] \notin {"wait", "decode"}
  BY <1>1 DEF Return, Exchange
<1>3. Exchange'
  BY <1>2 DEF Exchange, Return
<1>4. OwnHTTPResponse'
  BY DEF Exchange, OwnHTTPResponse, Return
<1>5. QED
  BY <1>3, <1>4

LEMMA BridgeStep ==
    ASSUME Exchange, OwnHTTPResponse, OwnFrames, BridgeMoves
    PROVE  Exchange' /\ OwnHTTPResponse'
<1> DEFINE P == Exchange /\ OwnHTTPResponse
<1>1. CASE UNCHANGED bridgeVars
  BY <1>1 DEF bridgeVars, response, Exchange, OwnHTTPResponse
<1>2. ASSUME NEW c \in Posts, CtxDone(c) PROVE P'
  BY <1>2 DEF CtxDone, response, Exchange, OwnHTTPResponse
<1>3. ASSUME NEW c \in Posts,
             Close(c) \/ CallCancelled(c) \/ EncodeClosed(c) \/ EncodeFails(c)
      PROVE  P'
  <2>1. at[c] = "lock" /\ mu = Nobody /\ op' = op /\ sent' = sent
    BY <1>3 DEF Close, CallCancelled, EncodeClosed, EncodeFails, Locks
  <2>2. \/ op[c] = "close" /\ Return(c, "ok", NoFrame)
        \/ Return(c, "cancelled", NoFrame) \/ Return(c, "eof", NoFrame)
        \/ Return(c, "error", NoFrame)
    BY <1>3 DEF Close, CallCancelled, EncodeClosed, EncodeFails
  <2>3. QED
    BY <2>1, <2>2, ReturnStep
<1>4. ASSUME NEW c \in Posts, Encode(c) PROVE P'
  <2>1. \A d \in Posts : at[d] \notin {"wait", "decode"}
    BY <1>4, PostsAssumption DEF Encode, Locks, Exchange
  <2>2. QED
    BY <1>4, <2>1 DEF Encode, Locks, ResetResponse, Exchange, OwnHTTPResponse
<1>5. ASSUME NEW c \in Posts, PostCancelled(c) \/ PostFails(c) \/ ResponseBreaks(c)
      PROVE  P'
  <2>1. /\ at[c] = "wait" /\ op' = op /\ sent' = sent
        /\ Return(c, "cancelled", NoFrame) \/ Return(c, "error", NoFrame)
    BY <1>5 DEF PostCancelled, PostFails, ResponseBreaks, Record
  <2>2. QED
    BY <2>1, ReturnStep
<1>6. ASSUME NEW c \in Posts, Decode(c) PROVE P'
  <2>1. ASSUME Decoded(c) = "ok" PROVE respBuffer[1].of = c
    <3>1. Len(respBuffer) = 1 /\ respBuffer \in Seq(FramesOf(c))
      BY <1>6, <2>1 DEF Decoded, Whole, Decode, Exchange
    <3>2. QED
      <4>1. respBuffer[1] \in FramesOf(c)
        BY <3>1
      <4>2. QED
        BY <4>1 DEF FramesOf
  <2>2. QED
    BY <1>6, <2>1, ReturnStep DEF Decode
<1>7. ASSUME NEW c \in Posts, ResponseArrives(c) \/ GatewayAnswers(c) PROVE P'
  <2>1. PICK a : Record(c, a) /\ EncodeReturns(c) /\ a.frames \in Seq(FramesOf(c))
    <3>1. CASE ResponseArrives(c)
      BY <3>1 DEF ResponseArrives, OwnFrames
    <3>2. CASE GatewayAnswers(c)
      <4>1. PICK code \in {200, 502} :
              /\ Record(c, [code |-> code, json |-> FALSE, frames |-> << >>])
              /\ EncodeReturns(c)
        BY <3>2 DEF GatewayAnswers
      <4> DEFINE a == [code |-> code, json |-> FALSE, frames |-> << >>]
      <4>2. a.frames \in Seq(FramesOf(c))
        OBVIOUS
      <4>3. Record(c, a) /\ EncodeReturns(c)
        BY <4>1
      <4> HIDE DEF a
      <4>4. QED
        BY <4>2, <4>3
    <3>3. QED
      BY <1>7, <3>1, <3>2
  <2>2. CASE op[c] = "call"
    <3>1. /\ at' = [at EXCEPT ![c] = "decode"]
          /\ UNCHANGED <<op, mu, sent, result, got>>
          /\ at[c] = "wait"
      BY <2>1, <2>2 DEF EncodeReturns, Record
    <3>2. respBuffer = << >>
      BY <3>1 DEF Exchange
    <3>3. respBuffer' \in Seq(FramesOf(c))
      BY <2>1, <3>2 DEF Record
    <3>4. \A d \in Posts \ {c} : at[d] \notin {"wait", "decode"}
      BY <3>1 DEF Exchange
    <3>5. QED
      BY <3>1, <3>3, <3>4 DEF Exchange, OwnHTTPResponse
  <2>3. CASE op[c] # "call"
    <3>1. at[c] = "wait" /\ op' = op /\ sent' = sent /\ Return(c, "ok", NoFrame)
      BY <2>1, <2>3 DEF EncodeReturns, Record
    <3>2. QED
      BY <2>3, <3>1, ReturnStep
  <2>4. QED
    BY <2>2, <2>3
<1>8. QED
  BY <1>1, <1>2, <1>3, <1>4, <1>5, <1>6, <1>7 DEF BridgeMoves, Step

-----------------------------------------------------------------------------
LEMMA InitBridgeInv == BridgeInit => BridgeInv
<1> SUFFICES ASSUME BridgeInit PROVE BridgeInv
  OBVIOUS
<1>1. MuxInv
  BY PostsAssumption DEF BridgeInit, MuxInit, MuxInv, RoutedWhileRegistered
<1>2. << >> \in Seq({"response", "unencodable"}) /\ NoBody \in Bodies
  BY DEF NoBody, Bodies
<1>3. RunTypeOK
  BY <1>2 DEF BridgeInit, HTTPInit, RunTypeOK
<1>4. OwnFrames
  <2>1. \A p \in Posts : << >> \in Seq(FramesOf(p))
    OBVIOUS
  <2>2. QED
    BY <2>1 DEF BridgeInit, HTTPInit, OwnFrames, NoAnswer
<1>5. Accounted /\ StatusTells
  BY DEF BridgeInit, HTTPInit, Accounted, AccountOf, InMessage, StatusTells
<1>6. Exchange /\ OwnHTTPResponse
  BY RolesAssumption DEF BridgeInit, Exchange, OwnHTTPResponse
<1>7. QED
  BY <1>1, <1>3, <1>4, <1>5, <1>6 DEF BridgeInv, HandlerInv

(***************************************************************************)
(* For any number of POSTs, whatever they hold, every reachable state of   *)
(* the bridge, the handler and the mux satisfies the invariant.            *)
(***************************************************************************)
THEOREM BridgeInductive == BridgeSpec => []BridgeInv
<1>1. BridgeInv /\ [BridgeNext]_<<bridgeVars, serverVars>> => BridgeInv'
  BY Moves, MuxStep, HandlerStep, BridgeStep DEF BridgeInv, HandlerInv
<1>2. QED
  BY <1>1, InitBridgeInv, PTL DEF BridgeSpec

(***************************************************************************)
(* MethodMux.Handle goes by what was registered while it looked: for any   *)
(* number of lookups, handlers and concurrent changes to the mux.          *)
(***************************************************************************)
THEOREM LookupsAreCurrent == BridgeSpec => []RoutedWhileRegistered
<1>1. BridgeInv => RoutedWhileRegistered
  BY DEF BridgeInv, MuxInv
<1>2. QED
  BY <1>1, BridgeInductive, PTL

(***************************************************************************)
(* The status of HTTPHandler.ServeHTTP tells what became of the body, for  *)
(* bodies with any number of messages and batches of any length.           *)
(***************************************************************************)
THEOREM StatusIsTrue == BridgeSpec => []StatusTells
<1>1. BridgeInv => StatusTells
  BY DEF BridgeInv, HandlerInv
<1>2. QED
  BY <1>1, BridgeInductive, PTL

(***************************************************************************)
(* However many calls and notifications share an HTTPBridge and however    *)
(* they fail, a call returns the response to its own POST or none.         *)
(***************************************************************************)
THEOREM ResponsesAreOwn == BridgeSpec => []OwnHTTPResponse
<1>1. BridgeInv => OwnHTTPResponse
  BY DEF BridgeInv
<1>2. QED
  BY <1>1, BridgeInductive, PTL
=============================================================================

------------------------ MODULE BatchExchangeProofs ------------------------
(***************************************************************************)
(* What a batch guarantees for any number of requests, any IDs and any     *)
(* width of the counter that IDs are drawn from: a response goes to the    *)
(* request it answers, and BatchCorrelate is exact.                        *)
(***************************************************************************)
EXTENDS BatchExchange, SequenceTheorems, WellFoundedInduction, TLAPS

-----------------------------------------------------------------------------
(***************************************************************************)
(* IDs.                                                                    *)
(***************************************************************************)
\* ID.Equal is symmetric.
LEMMA EqualSymmetric ==
    ASSUME NEW a, NEW b, Equal(a, b)
    PROVE  Equal(b, a)
  BY DEF Equal, IsZero, IsNull, IsInt64

\* What an ID that is not zero comes back as equals only what the ID equals.
LEMMA EqualDecoded ==
    ASSUME NEW a, NEW b, Equal(a, Decoded(b)), ~IsZero(b)
    PROVE  Equal(a, b)
  BY DEF Equal, Decoded, IsZero, IsNull, IsInt64, NumberID, NullID

\* The ID of a request equals what it comes back as, unless it is zero.
LEMMA EchoIsEqual ==
    ASSUME NEW a \in IDs, ~IsZero(a)
    PROVE  Equal(a, Decoded(a))
  BY DEF IDs, Equal, Decoded, IsZero, IsNull, IsInt64, NumberID, NullID

\* Drawn IDs are equal only as numbers.
LEMMA DrawnEqual ==
    ASSUME NEW m, NEW n, Equal(IntID(m), IntID(n))
    PROVE  m = n
  BY DEF Equal, IntID, IsZero, IsNull, IsInt64

LEMMA DecodedIsID ==
    ASSUME NEW a \in IDs
    PROVE  Decoded(a) \in IDs
  BY DEF IDs, Decoded, NumberID, NullID

-----------------------------------------------------------------------------
(***************************************************************************)
(* Batch.Index and Batch.Delete.                                           *)
(***************************************************************************)
Less == {ss \in Nat \X Nat : ss[1] < ss[2]}

\* A set of natural numbers has a least one.
LEMMA HasMin ==
    ASSUME NEW I, I \subseteq Nat, I # {}
    PROVE  Min(I) \in I
<1>1. IsWellFoundedOn(Less, Nat)
  BY NatLessThanWellFounded DEF OpToRel, Less
<1>2. PICK x \in I : \A y \in I : ~(<<y, x>> \in Less)
  BY <1>1, WFMin
<1>3. \A y \in I : x <= y
  <2> SUFFICES ASSUME NEW y \in I PROVE x <= y
    OBVIOUS
  <2>1. x \in Nat /\ y \in Nat /\ ~(<<y, x>> \in Less)
    BY <1>2
  <2>2. ~(y < x)
    BY <2>1 DEF Less
  <2>3. QED
    BY <2>1, <2>2
<1>4. QED
  BY <1>3 DEF Min

\* Index finds an element that id equals, if there is one.
LEMMA IndexFinds ==
    ASSUME NEW batch, Len(batch) \in Nat, NEW id
    PROVE  /\ \/ Index(batch, id) = 0
              \/ /\ Index(batch, id) \in 1 .. Len(batch)
                 /\ Equal(id, batch[Index(batch, id)].id)
           /\ Index(batch, id) = 0 => \A i \in 1 .. Len(batch) : ~Equal(id, batch[i].id)
<1> DEFINE I == {i \in 1 .. Len(batch) : Equal(id, batch[i].id)}
<1>1. Index(batch, id) = IF I # {} THEN Min(I) ELSE 0
  BY DEF Index, SelectInSeq
<1>2. I \subseteq Nat /\ 0 \notin I
  OBVIOUS
<1>3. I # {} => Index(batch, id) \in I
  <2> HIDE DEF I
  <2>1. QED
    BY <1>1, <1>2, HasMin
<1>4. QED
  BY <1>1, <1>2, <1>3

\* RemoveAt closes the gap.
LEMMA Removed ==
    ASSUME NEW S, NEW s \in Seq(S), NEW k \in 1 .. Len(s)
    PROVE  /\ RemoveAt(s, k) \in Seq(S)
           /\ Len(RemoveAt(s, k)) = Len(s) - 1
           /\ \A i \in 1 .. Len(s) - 1 : RemoveAt(s, k)[i] = IF i < k THEN s[i] ELSE s[i + 1]
<1> DEFINE a == SubSeq(s, 1, k - 1)
           b == SubSeq(s, k + 1, Len(s))
<1>1. \A i \in 1 .. Len(s) : s[i] \in S
  BY ElementOfSeq
<1>2. /\ a \in Seq(S) /\ Len(a) = k - 1
      /\ \A i \in 1 .. k - 1 : a[i] = s[i]
  BY <1>1, SubSeqProperties
<1>3. /\ b \in Seq(S) /\ Len(b) = Len(s) - k
      /\ \A i \in 1 .. Len(s) - k : b[i] = s[k + i]
  <2>1. /\ b \in Seq(S) /\ Len(b) = IF k + 1 <= Len(s) THEN Len(s) - (k + 1) + 1 ELSE 0
        /\ \A i \in 1 .. Len(s) - (k + 1) + 1 : b[i] = s[k + 1 + i - 1]
    BY <1>1, SubSeqProperties
  <2>2. QED
    BY <2>1
<1> HIDE DEF a, b
<1>4. /\ a \o b \in Seq(S) /\ Len(a \o b) = Len(s) - 1
      /\ \A i \in 1 .. Len(s) - 1 :
            (a \o b)[i] = IF i <= k - 1 THEN a[i] ELSE b[i - (k - 1)]
  BY <1>2, <1>3, ConcatProperties
<1>5. \A i \in 1 .. Len(s) - 1 : (a \o b)[i] = IF i < k THEN s[i] ELSE s[i + 1]
  BY <1>2, <1>3, <1>4
<1>6. RemoveAt(s, k) = a \o b
  BY DEF RemoveAt, a, b
<1>7. QED
  BY <1>4, <1>5, <1>6, Zenon

-----------------------------------------------------------------------------
(***************************************************************************)
(* The inductive invariant.                                                *)
(***************************************************************************)
RequestSet  == [id : IDs, draw : Nat]
ResponseSet == [id : IDs, of : Nat, no : Nat]

Phases == {"build", "sent", "answered", "requests", "responses", "done", "stopped"}

BatchTypeOK ==
    /\ counter \in 0 .. (IDSpace - 1)
    /\ drawn \in Nat
    /\ reqs \in Seq(RequestSet)
    /\ arrived \in Seq(ResponseSet)
    /\ resps \in Seq(ResponseSet)
    /\ phase \in Phases
    /\ pos \in Nat
    /\ calls \in Seq(Nat \X ResponseSet)

\* A drawn ID is as many values behind the counter c, after n draws, as draws
\* have been made since, if they are less than a turn.
Behind(r, n, c) ==
    /\ r.draw <= n
    /\ r.id.val \in 0 .. (IDSpace - 1)
    /\ r.id = IntID(r.id.val)
    /\ n - r.draw < IDSpace =>
          \/ c = r.id.val + (n - r.draw)
          \/ c = r.id.val + (n - r.draw) - IDSpace

\* Two requests drawn in this order have different IDs unless the counter has
\* made a whole turn in between.
Apart(r, s) ==
    /\ r.draw < s.draw
    /\ s.draw - r.draw < IDSpace => r.id.val # s.id.val

Drawn ==
    /\ \A i \in 1 .. Len(reqs) : reqs[i].draw # 0 => Behind(reqs[i], drawn, counter)
    /\ \A i, j \in 1 .. Len(reqs) :
          (i < j /\ reqs[i].draw # 0 /\ reqs[j].draw # 0) => Apart(reqs[i], reqs[j])

\* A response that answers a request has the ID the request's came back as, no
\* two answer the same, and the caller has what arrived and was not taken.
Echoed ==
    /\ \A j \in 1 .. Len(arrived) :
          /\ arrived[j].no = j
          /\ arrived[j].of \in 0 .. Len(reqs)
          /\ arrived[j].of # 0 =>
                /\ ~IsZero(reqs[arrived[j].of].id)
                /\ arrived[j].id = Decoded(reqs[arrived[j].of].id)
    /\ \A j, k \in 1 .. Len(arrived) : arrived[j].of = arrived[k].of => j = k
    /\ \A k \in 1 .. Len(resps) : \E j \in 1 .. Len(arrived) : resps[k] = arrived[j]

\* Before the responses are there, nothing is.
Fresh ==
    /\ phase \in {"build", "sent"} => arrived = << >> /\ calls = << >>
    /\ phase \in {"build", "sent", "answered"} => processed = {}
    /\ calls = << >> => resps = arrived

\* Every request is reported with a response that its ID equals.
Fits(call) ==
    (call[1] # 0 /\ call[2] # NoResponse) =>
        /\ call[1] \in 1 .. Len(reqs)
        /\ Equal(reqs[call[1]].id, call[2].id)
        /\ \E j \in 1 .. Len(arrived) : call[2] = arrived[j]

Matched == \A k \in 1 .. Len(calls) : Fits(calls[k])

\* What the loops of BatchCorrelate have done at each turn.
Found(k)  == Get(resps, reqs[k].id)
Pairs(n)  == {<<k, Found(k)>> : k \in 1 .. n}
Marks(n)  == {Found(k).id : k \in {i \in 1 .. n : Found(i) # NoResponse}}
Extras(n) == {<<0, resps[m]>> : m \in {i \in 1 .. n : resps[i].id \notin processed}}

Loops ==
    /\ phase \in {"requests", "responses", "done"} => resps = arrived /\ IsInjective(calls)
    /\ phase = "requests" =>
          /\ pos \in 1 .. Len(reqs) + 1
          /\ processed = Marks(pos - 1)
          /\ ToSet(calls) = Pairs(pos - 1)
    /\ phase \in {"responses", "done"} =>
          /\ pos \in 1 .. Len(resps) + 1
          /\ processed = Marks(Len(reqs))
          /\ ToSet(calls) = Pairs(Len(reqs)) \cup Extras(pos - 1)
    /\ phase = "done" => pos = Len(resps) + 1

BatchInv ==
    BatchTypeOK /\ Drawn /\ Echoed /\ Fresh /\ Matched /\ Loops

-----------------------------------------------------------------------------
(***************************************************************************)
(* What the invariant says of matches.                                     *)
(***************************************************************************)
LEMMA Domains ==
    ASSUME BatchTypeOK
    PROVE  /\ DOMAIN reqs = 1 .. Len(reqs) /\ Len(reqs) \in Nat
           /\ DOMAIN arrived = 1 .. Len(arrived) /\ Len(arrived) \in Nat
           /\ DOMAIN resps = 1 .. Len(resps) /\ Len(resps) \in Nat
           /\ DOMAIN calls = 1 .. Len(calls) /\ Len(calls) \in Nat
  BY LenProperties DEF BatchTypeOK

\* No two requests of an unambiguous batch have equal IDs.
LEMMA NoTwins ==
    ASSUME BatchTypeOK, Drawn, Unambiguous,
           NEW a \in 1 .. Len(reqs), NEW b \in 1 .. Len(reqs), a < b,
           Equal(reqs[a].id, reqs[b].id)
    PROVE  FALSE
<1>1. a \in DOMAIN reqs /\ b \in DOMAIN reqs
  BY Domains
<1>2. reqs[a].draw # 0 /\ reqs[b].draw # 0 /\ reqs[b].draw - reqs[a].draw < IDSpace
  BY <1>1 DEF Unambiguous
<1>3. /\ reqs[a].id = IntID(reqs[a].id.val) /\ reqs[b].id = IntID(reqs[b].id.val)
      /\ reqs[a].id.val # reqs[b].id.val
  BY <1>2 DEF Drawn, Behind, Apart
<1>4. Equal(IntID(reqs[a].id.val), IntID(reqs[b].id.val))
  BY <1>3, Zenon
<1>5. QED
  BY <1>3, <1>4, DrawnEqual

\* A response that the ID of a request equals answers that request.
LEMMA AnswersIt ==
    ASSUME BatchTypeOK, Drawn, Echoed, Unambiguous,
           NEW i \in 1 .. Len(reqs), NEW j \in 1 .. Len(arrived),
           Equal(reqs[i].id, arrived[j].id)
    PROVE  arrived[j].of = i
<1> DEFINE o == arrived[j].of
<1>1. o # 0
  BY Domains DEF Unambiguous
<1>2. o \in 1 .. Len(reqs) /\ ~IsZero(reqs[o].id) /\ arrived[j].id = Decoded(reqs[o].id)
  BY <1>1, Domains DEF Echoed
<1> HIDE DEF o
<1>3. Equal(reqs[i].id, reqs[o].id)
  BY <1>2, EqualDecoded
<1>4. Equal(reqs[o].id, reqs[i].id)
  BY <1>3, EqualSymmetric
<1>5. ~(i < o) /\ ~(o < i)
  BY <1>2, <1>3, <1>4, NoTwins
<1>6. i \in Nat /\ o \in Nat
  BY <1>2, Domains
<1>7. QED
  BY <1>5, <1>6 DEF o

LEMMA InvOwnResponse == BatchInv => OwnResponse
<1> SUFFICES ASSUME BatchInv, Unambiguous, NEW k \in 1 .. Len(calls),
                    calls[k][1] # 0, calls[k][2] # NoResponse
             PROVE  calls[k][2].of = calls[k][1]
  BY Domains DEF OwnResponse, BatchInv
<1>1. PICK j \in 1 .. Len(arrived) : calls[k][2] = arrived[j]
  BY DEF BatchInv, Matched, Fits
<1>2. /\ calls[k][1] \in 1 .. Len(reqs)
      /\ Equal(reqs[calls[k][1]].id, arrived[j].id)
  BY <1>1 DEF BatchInv, Matched, Fits
<1>3. QED
  BY <1>1, <1>2, AnswersIt DEF BatchInv

\* Get returns NoResponse or an element of the batch that the ID equals.
LEMMA GetFinds ==
    ASSUME NEW batch, Len(batch) \in Nat, NEW id
    PROVE  /\ \/ Get(batch, id) = NoResponse
              \/ \E j \in 1 .. Len(batch) :
                    Get(batch, id) = batch[j] /\ Equal(id, batch[j].id)
           /\ \A j \in 1 .. Len(batch) :
                Equal(id, batch[j].id) =>
                    \E k \in 1 .. Len(batch) :
                        Get(batch, id) = batch[k] /\ Equal(id, batch[k].id)
  BY IndexFinds DEF Get

(***************************************************************************)
(* BatchCorrelate has run to the end.  A request whose response arrived    *)
(* found it: what its ID equals answers it, and nothing else does.  A      *)
(* response of a request was marked, and one of no request was not.        *)
(***************************************************************************)
LEMMA FoundIsAnswer ==
    ASSUME BatchInv, Unambiguous, resps = arrived, NEW i \in 1 .. Len(reqs)
    PROVE  \/ /\ Found(i) = NoResponse
              /\ \A j \in 1 .. Len(arrived) : arrived[j].of # i
           \/ \E j \in 1 .. Len(arrived) : Found(i) = arrived[j] /\ arrived[j].of = i
<1> USE DEF BatchInv
<1>1. Len(resps) \in Nat
  BY Domains
<1>2. CASE \E j \in 1 .. Len(arrived) : Equal(reqs[i].id, arrived[j].id)
  <2>1. PICK j \in 1 .. Len(arrived) : Found(i) = arrived[j] /\ Equal(reqs[i].id, arrived[j].id)
    BY <1>1, <1>2, GetFinds DEF Found
  <2>2. QED
    BY <2>1, AnswersIt
<1>3. CASE \A j \in 1 .. Len(arrived) : ~Equal(reqs[i].id, arrived[j].id)
  <2>1. Found(i) = NoResponse
    BY <1>1, <1>3, GetFinds DEF Found
  <2>2. ASSUME NEW j \in 1 .. Len(arrived), arrived[j].of = i PROVE FALSE
    <3>1. ~IsZero(reqs[i].id) /\ arrived[j].id = Decoded(reqs[i].id) /\ reqs[i].id \in IDs
      <4>1. i # 0
        BY Domains
      <4>2. reqs[i] \in RequestSet
        BY ElementOfSeq DEF BatchTypeOK
      <4>3. QED
        BY <2>2, <4>1, <4>2 DEF Echoed, RequestSet
    <3>2. QED
      BY <1>3, <3>1, EchoIsEqual
  <2>3. QED
    BY <2>1, <2>2
<1>4. QED
  BY <1>2, <1>3

LEMMA MarkedIffAnswer ==
    ASSUME BatchInv, Unambiguous, resps = arrived, processed = Marks(Len(reqs)),
           NEW j \in 1 .. Len(arrived)
    PROVE  arrived[j].id \in processed <=> arrived[j].of # 0
<1> USE DEF BatchInv
<1>0. Len(resps) \in Nat /\ Len(reqs) \in Nat
  BY Domains
<1>1. ASSUME arrived[j].of # 0 PROVE arrived[j].id \in processed
  <2> DEFINE i == arrived[j].of
  <2>1. i \in 1 .. Len(reqs)
    BY <1>0, <1>1 DEF Echoed
  <2>2. PICK k \in 1 .. Len(arrived) : Found(i) = arrived[k] /\ arrived[k].of = i
    BY <2>1, FoundIsAnswer
  <2>3. k = j
    BY <2>2 DEF Echoed
  <2>4. Found(i) # NoResponse /\ Found(i).id = arrived[j].id
    BY <2>2, <2>3 DEF Echoed, NoResponse
  <2> HIDE DEF i
  <2>5. QED
    BY <2>1, <2>4 DEF Marks
<1>2. ASSUME arrived[j].id \in processed, arrived[j].of = 0 PROVE FALSE
  <2>1. PICK i \in 1 .. Len(reqs) : Found(i) # NoResponse /\ Found(i).id = arrived[j].id
    BY <1>2 DEF Marks
  <2>2. Equal(reqs[i].id, arrived[j].id)
    BY <1>0, <2>1, GetFinds DEF Found
  <2>3. QED
    BY <1>2, <2>2, Domains DEF Unambiguous
<1>3. QED
  BY <1>1, <1>2

LEMMA InvCorrelationExact == BatchInv => CorrelationExact
<1> SUFFICES ASSUME BatchInv, phase = "done", Unambiguous
             PROVE  ToSet(calls) = Reference /\ IsInjective(calls)
  BY DEF CorrelationExact
<1> USE DEF BatchInv
<1>1. /\ resps = arrived /\ IsInjective(calls) /\ processed = Marks(Len(reqs))
      /\ ToSet(calls) = Pairs(Len(reqs)) \cup Extras(Len(arrived))
  <2>1. pos = Len(resps) + 1 /\ Len(resps) \in Nat /\ resps = arrived
    BY Domains DEF Loops
  <2>2. pos - 1 = Len(arrived)
    BY <2>1
  <2>3. QED
    BY <2>1, <2>2 DEF Loops
<1>2. DOMAIN reqs = 1 .. Len(reqs) /\ DOMAIN arrived = 1 .. Len(arrived) /\ Len(reqs) \in Nat
  BY Domains
<1>3. ASSUME NEW x \in Reference PROVE x \in Pairs(Len(reqs)) \cup Extras(Len(arrived))
  <2>1. CASE \E j \in 1 .. Len(arrived) : x = <<arrived[j].of, arrived[j]>>
    <3>1. PICK j \in 1 .. Len(arrived) : x = <<arrived[j].of, arrived[j]>>
      BY <2>1
    <3>2. CASE arrived[j].of = 0
      BY <1>1, <3>1, <3>2, MarkedIffAnswer DEF Extras
    <3>3. CASE arrived[j].of # 0
      <4>1. arrived[j].of \in 1 .. Len(reqs)
        BY <1>2, <3>3 DEF Echoed
      <4>2. PICK k \in 1 .. Len(arrived) :
              Found(arrived[j].of) = arrived[k] /\ arrived[k].of = arrived[j].of
        BY <1>1, <4>1, FoundIsAnswer
      <4>3. k = j
        BY <4>2 DEF Echoed
      <4>4. QED
        BY <3>1, <4>1, <4>2, <4>3 DEF Pairs
    <3>4. QED
      BY <3>2, <3>3
  <2>2. CASE \E i \in 1 .. Len(reqs) :
               x = <<i, NoResponse>> /\ \A j \in 1 .. Len(arrived) : arrived[j].of # i
    <3>1. PICK i \in 1 .. Len(reqs) :
            x = <<i, NoResponse>> /\ \A j \in 1 .. Len(arrived) : arrived[j].of # i
      BY <2>2
    <3>2. Found(i) = NoResponse
      BY <1>1, <3>1, FoundIsAnswer
    <3>3. QED
      BY <3>1, <3>2 DEF Pairs
  <2>3. QED
    BY <1>2, <1>3, <2>1, <2>2 DEF Reference
<1>4. ASSUME NEW x \in Pairs(Len(reqs)) PROVE x \in Reference
  <2>1. PICK i \in 1 .. Len(reqs) : x = <<i, Found(i)>>
    BY <1>4 DEF Pairs
  <2>2. CASE /\ Found(i) = NoResponse
             /\ \A j \in 1 .. Len(arrived) : arrived[j].of # i
    BY <1>2, <2>1, <2>2 DEF Reference
  <2>3. CASE \E j \in 1 .. Len(arrived) : Found(i) = arrived[j] /\ arrived[j].of = i
    BY <1>2, <2>1, <2>3 DEF Reference
  <2>4. QED
    BY <1>1, <2>2, <2>3, FoundIsAnswer
<1>5. ASSUME NEW x \in Extras(Len(arrived)) PROVE x \in Reference
  <2>1. PICK m \in 1 .. Len(arrived) : x = <<0, arrived[m]>> /\ arrived[m].id \notin processed
    BY <1>1, <1>5 DEF Extras
  <2>2. arrived[m].of = 0
    BY <1>1, <2>1, MarkedIffAnswer
  <2>3. QED
    BY <1>2, <2>1, <2>2 DEF Reference
<1>6. QED
  BY <1>1, <1>3, <1>4, <1>5

-----------------------------------------------------------------------------
(***************************************************************************)
(* Drawing IDs.                                                            *)
(***************************************************************************)
\* The counter goes round.
LEMMA NextIDTurns ==
    ASSUME counter \in 0 .. (IDSpace - 1)
    PROVE  /\ NextID = IF counter + 1 = IDSpace THEN 0 ELSE counter + 1
           /\ NextID \in 0 .. (IDSpace - 1)
<1>1. NextID = IF counter + 1 = IDSpace THEN 0 ELSE counter + 1
  BY SpaceAssumption DEF NextID
<1>2. QED
  BY <1>1, SpaceAssumption

\* A value v that was drawn d draws ago, and the next draw.
LEMMA Turn ==
    ASSUME NEW N \in Nat \ {0}, NEW c \in 0 .. (N - 1), NEW v \in 0 .. (N - 1), NEW d \in Nat,
           d < N => c = v + d \/ c = v + d - N,
           NEW n, n = IF c + 1 = N THEN 0 ELSE c + 1,
           d + 1 < N
    PROVE  (n = v + (d + 1) \/ n = v + (d + 1) - N) /\ n # v
  OBVIOUS

\* What was drawn stays behind the counter when it is drawn from again, and
\* differs from what is drawn less than a turn later.
LEMMA StaysBehind ==
    ASSUME BatchTypeOK, NEW r \in RequestSet, Behind(r, drawn, counter),
           counter' = NextID, drawn' = drawn + 1
    PROVE  /\ Behind(r, drawn', counter')
           /\ drawn' - r.draw < IDSpace => r.id.val # NextID
<1> DEFINE d == drawn - r.draw
<1>1. r.draw \in Nat /\ drawn \in Nat /\ r.draw <= drawn /\ d \in Nat
  BY DEF BatchTypeOK, RequestSet, Behind
<1>2. drawn' - r.draw = d + 1
  BY <1>1
<1>3. d < IDSpace => counter = r.id.val + d \/ counter = r.id.val + d - IDSpace
  BY DEF Behind
<1>4. r.id.val \in 0 .. (IDSpace - 1) /\ counter \in 0 .. (IDSpace - 1)
  BY DEF Behind, BatchTypeOK
<1>5. NextID = IF counter + 1 = IDSpace THEN 0 ELSE counter + 1
  BY <1>4, NextIDTurns
<1> HIDE DEF d
<1>6. d + 1 < IDSpace =>
        /\ NextID = r.id.val + (d + 1) \/ NextID = r.id.val + (d + 1) - IDSpace
        /\ NextID # r.id.val
  BY <1>1, <1>3, <1>4, <1>5, SpaceAssumption, Turn
<1>7. r.draw <= drawn'
  BY <1>1
<1>8. QED
  BY <1>2, <1>6, <1>7 DEF Behind

\* Everything but the requests and the counter is left alone, and empty.
LEMMA BuildStep ==
    ASSUME BatchInv, phase = "build",
           UNCHANGED <<arrived, resps, phase, pos, processed, calls>>,
           reqs' \in Seq(RequestSet)
    PROVE  Echoed' /\ Fresh' /\ Matched' /\ Loops'
<1>1. arrived = << >> /\ calls = << >> /\ resps = << >> /\ processed = {}
  BY DEF BatchInv, Fresh
<1>2. Echoed'
  BY <1>1 DEF Echoed
<1>3. Fresh' /\ Loops'
  BY <1>1 DEF BatchInv, Fresh, Loops
<1>4. Matched'
  BY <1>1 DEF Matched
<1>5. QED
  BY <1>2, <1>3, <1>4

LEMMA DrawElsewhereStep ==
    ASSUME BatchInv, DrawElsewhere
    PROVE  BatchInv'
<1>1. BatchTypeOK'
  BY NextIDTurns DEF BatchInv, BatchTypeOK, DrawElsewhere
<1>2. Drawn'
  <2>1. ASSUME NEW i \in 1 .. Len(reqs), reqs[i].draw # 0 PROVE Behind(reqs[i], drawn', counter')
    <3>1. reqs[i] \in RequestSet /\ Behind(reqs[i], drawn, counter) /\ reqs' = reqs
      BY <2>1, ElementOfSeq DEF BatchInv, BatchTypeOK, Drawn, DrawElsewhere
    <3>2. QED
      BY <3>1, StaysBehind DEF BatchInv, DrawElsewhere
  <2>2. QED
    BY <2>1 DEF Drawn, DrawElsewhere, BatchInv, Apart
<1>3. Echoed' /\ Fresh' /\ Matched' /\ Loops'
  BY BuildStep DEF DrawElsewhere, BatchInv, BatchTypeOK
<1>4. QED
  BY <1>1, <1>2, <1>3 DEF BatchInv

\* A request is appended.
LEMMA AddStep ==
    ASSUME BatchInv, Add
    PROVE  BatchInv'
<1> USE DEF BatchInv
<1> DEFINE r == Request(IntID(NextID), drawn + 1)
<1>1. NextID \in 0 .. (IDSpace - 1) /\ drawn \in Nat
  BY NextIDTurns DEF BatchTypeOK
<1>2. /\ r \in RequestSet /\ r.draw = drawn + 1 /\ r.draw # 0
      /\ r.id = IntID(NextID) /\ r.id.val = NextID
  BY <1>1 DEF Request, IntID, RequestSet, IDs
<1>3. /\ reqs' = Append(reqs, r) /\ counter' = NextID /\ drawn' = drawn + 1
      /\ phase = "build" /\ UNCHANGED <<arrived, resps, phase, pos, processed, calls>>
  BY DEF Add
<1> HIDE DEF r
<1>4. /\ reqs' \in Seq(RequestSet) /\ Len(reqs') = Len(reqs) + 1
      /\ \A i \in 1 .. Len(reqs) : reqs'[i] = reqs[i]
      /\ reqs'[Len(reqs) + 1] = r /\ Len(reqs) \in Nat
  BY <1>2, <1>3, AppendProperties, Domains DEF BatchTypeOK
<1>5. BatchTypeOK'
  BY <1>1, <1>3, <1>4 DEF BatchTypeOK
<1>6. Behind(r, drawn', counter')
  BY <1>1, <1>2, <1>3, SpaceAssumption DEF Behind
<1>7. ASSUME NEW i \in 1 .. Len(reqs), reqs[i].draw # 0
      PROVE  Behind(reqs[i], drawn', counter') /\ Apart(reqs[i], r)
  <2>1. reqs[i] \in RequestSet /\ Behind(reqs[i], drawn, counter)
    BY <1>7, ElementOfSeq DEF BatchTypeOK, Drawn
  <2>2. /\ Behind(reqs[i], drawn', counter')
        /\ drawn' - reqs[i].draw < IDSpace => reqs[i].id.val # NextID
    BY <1>3, <2>1, StaysBehind
  <2>3. reqs[i].draw < r.draw
    BY <1>1, <1>2, <2>1 DEF Behind, RequestSet
  <2>4. QED
    BY <1>2, <1>3, <2>2, <2>3 DEF Apart
<1>8. Drawn'
  BY <1>2, <1>4, <1>6, <1>7 DEF Drawn, Apart
<1>9. Echoed' /\ Fresh' /\ Matched' /\ Loops'
  BY <1>3, <1>4, BuildStep
<1>10. QED
  BY <1>5, <1>8, <1>9

\* A request of the caller's own: it was not drawn.
LEMMA AddOwnStep ==
    ASSUME BatchInv, NEW id \in OwnIDs, AddOwn(id)
    PROVE  BatchInv'
<1> USE DEF BatchInv
<1> DEFINE r == Request(id, 0)
<1>1. r \in RequestSet /\ r.draw = 0
  BY IDAssumption DEF Request, RequestSet
<1>2. /\ reqs' = Append(reqs, r) /\ UNCHANGED <<counter, drawn>>
      /\ phase = "build" /\ UNCHANGED <<arrived, resps, phase, pos, processed, calls>>
  BY DEF AddOwn
<1> HIDE DEF r
<1>3. /\ reqs' \in Seq(RequestSet) /\ Len(reqs') = Len(reqs) + 1
      /\ \A i \in 1 .. Len(reqs) : reqs'[i] = reqs[i]
      /\ reqs'[Len(reqs) + 1] = r /\ Len(reqs) \in Nat
  BY <1>1, <1>2, AppendProperties, Domains DEF BatchTypeOK
<1>4. BatchTypeOK'
  BY <1>2, <1>3 DEF BatchTypeOK
<1>5. Drawn'
  BY <1>1, <1>2, <1>3 DEF Drawn
<1>6. Echoed' /\ Fresh' /\ Matched' /\ Loops'
  BY <1>2, <1>3, BuildStep
<1>7. QED
  BY <1>4, <1>5, <1>6

\* A request is taken out; the others keep their order.
LEMMA DeleteRequestStep ==
    ASSUME BatchInv, NEW id, DeleteRequest(id)
    PROVE  BatchInv'
<1> USE DEF BatchInv
<1> DEFINE k == Index(reqs, id)
<1>1. k \in 1 .. Len(reqs)
  BY IndexFinds, Domains DEF DeleteRequest
<1>2. /\ reqs' = RemoveAt(reqs, k) /\ UNCHANGED <<counter, drawn>>
      /\ phase = "build" /\ UNCHANGED <<arrived, resps, phase, pos, processed, calls>>
  BY DEF DeleteRequest
<1> HIDE DEF k
<1>3. /\ reqs' \in Seq(RequestSet) /\ Len(reqs') = Len(reqs) - 1 /\ Len(reqs) \in Nat
      /\ \A i \in 1 .. Len(reqs) - 1 : reqs'[i] = IF i < k THEN reqs[i] ELSE reqs[i + 1]
  BY <1>1, <1>2, Removed, Domains DEF BatchTypeOK
<1>4. BatchTypeOK'
  BY <1>2, <1>3 DEF BatchTypeOK
<1>5. Drawn'
  <2>1. ASSUME NEW i \in 1 .. Len(reqs')
        PROVE  \E m \in 1 .. Len(reqs) : reqs'[i] = reqs[m]
    BY <1>1, <1>3
  <2>2. ASSUME NEW i \in 1 .. Len(reqs'), NEW j \in 1 .. Len(reqs'), i < j
        PROVE  \E m, n \in 1 .. Len(reqs) : m < n /\ reqs'[i] = reqs[m] /\ reqs'[j] = reqs[n]
    <3>1. CASE j < k
      BY <1>1, <1>3, <2>2, <3>1
    <3>2. CASE i < k /\ ~(j < k)
      BY <1>1, <1>3, <2>2, <3>2
    <3>3. CASE ~(i < k)
      BY <1>1, <1>3, <2>2, <3>3
    <3>4. QED
      BY <3>1, <3>2, <3>3
  <2>3. ASSUME NEW i \in 1 .. Len(reqs'), reqs'[i].draw # 0
        PROVE  Behind(reqs'[i], drawn', counter')
    BY <1>2, <2>1, <2>3 DEF Drawn
  <2>4. ASSUME NEW i \in 1 .. Len(reqs'), NEW j \in 1 .. Len(reqs'), i < j,
               reqs'[i].draw # 0, reqs'[j].draw # 0
        PROVE  Apart(reqs'[i], reqs'[j])
    <3>1. PICK m, n \in 1 .. Len(reqs) : m < n /\ reqs'[i] = reqs[m] /\ reqs'[j] = reqs[n]
      BY <2>2, <2>4
    <3>2. Apart(reqs[m], reqs[n])
      BY <2>4, <3>1 DEF Drawn
    <3>3. QED
      BY <3>1, <3>2, Zenon
  <2>5. QED
    BY <2>3, <2>4 DEF Drawn
<1>6. Echoed' /\ Fresh' /\ Matched' /\ Loops'
  BY <1>2, <1>3, BuildStep
<1>7. QED
  BY <1>4, <1>5, <1>6

\* Batch.Reset.
LEMMA ResetStep ==
    ASSUME BatchInv, Reset
    PROVE  BatchInv'
<1> USE DEF BatchInv
<1>1. /\ reqs' = << >> /\ arrived' = << >> /\ resps' = << >> /\ calls' = << >>
      /\ phase' = "build" /\ pos' = 0 /\ processed' = {} /\ UNCHANGED <<counter, drawn>>
  BY DEF Reset
<1>2. BatchTypeOK'
  BY <1>1 DEF BatchTypeOK, Phases
<1>3. Drawn' /\ Echoed' /\ Fresh' /\ Matched' /\ Loops'
  BY <1>1 DEF Drawn, Echoed, Fresh, Matched, Loops
<1>4. QED
  BY <1>2, <1>3

LEMMA CallStep ==
    ASSUME BatchInv, Call
    PROVE  BatchInv'
<1> USE DEF BatchInv
<1>1. BatchTypeOK'
  BY DEF Call, BatchTypeOK, Phases
<1>2. Drawn' /\ Echoed' /\ Matched'
  BY DEF Call, Drawn, Echoed, Matched, Fits
<1>3. Fresh' /\ Loops'
  BY DEF Call, Fresh, Loops
<1>4. QED
  BY <1>1, <1>2, <1>3

(***************************************************************************)
(* The server answers: each entry of the order is a call or the stray.     *)
(***************************************************************************)
LEMMA AnswerStep ==
    ASSUME BatchInv, NEW order \in Orders, NEW stray \in StrayIDs, Answer(order, stray)
    PROVE  BatchInv'
<1> USE DEF BatchInv
<1>1. PICK n \in Nat : order \in [1 .. n -> CallNos \cup {0}] /\ IsInjective(order)
  BY BoundAssumption DEF Orders, BoundedSeq, SeqOf
<1>2. DOMAIN order = 1 .. n /\ \A j \in 1 .. n : order[j] \in CallNos \cup {0}
  BY <1>1
<1>3. /\ Len(reqs) \in Nat
      /\ \A i \in CallNos : i \in 1 .. Len(reqs) /\ ~IsZero(reqs[i].id)
  BY Domains DEF CallNos
<1>4. /\ phase = "sent" /\ phase' = "answered" /\ resps' = arrived'
      /\ arrived' = [j \in 1 .. n |->
                       [id |-> Decoded(IF order[j] = 0 THEN stray ELSE reqs[order[j]].id),
                        of |-> order[j], no |-> j]]
      /\ UNCHANGED <<counter, drawn, reqs, pos, processed, calls>>
  BY <1>2 DEF Answer
<1>5. ASSUME NEW j \in 1 .. n PROVE arrived'[j] \in ResponseSet
  <2>0. order[j] = 0 \/ order[j] \in CallNos
    BY <1>2
  <2>1. order[j] \in Nat
    BY <1>3, <2>0
  <2>2. (IF order[j] = 0 THEN stray ELSE reqs[order[j]].id) \in IDs
    <3>1. CASE order[j] = 0
      BY <3>1, IDAssumption
    <3>2. CASE order[j] # 0
      <4>1. order[j] \in 1 .. Len(reqs)
        BY <1>2, <1>3, <3>2
      <4>2. reqs[order[j]] \in RequestSet
        BY <4>1, ElementOfSeq DEF BatchTypeOK
      <4>3. QED
        BY <3>2, <4>2 DEF RequestSet
    <3>3. QED
      BY <3>1, <3>2
  <2>3. Decoded(IF order[j] = 0 THEN stray ELSE reqs[order[j]].id) \in IDs
    BY <2>2, DecodedIsID
  <2>4. QED
    BY <1>4, <2>1, <2>3 DEF ResponseSet
<1>6. arrived' \in Seq(ResponseSet) /\ Len(arrived') = n
  BY <1>4, <1>5, IsASeq
<1>7. BatchTypeOK'
  BY <1>4, <1>6 DEF BatchTypeOK, Phases
<1>8. Echoed'
  <2>1. ASSUME NEW j \in 1 .. n
        PROVE  /\ arrived'[j].no = j /\ arrived'[j].of = order[j]
               /\ arrived'[j].of \in 0 .. Len(reqs)
               /\ arrived'[j].of # 0 =>
                     /\ ~IsZero(reqs[arrived'[j].of].id)
                     /\ arrived'[j].id = Decoded(reqs[arrived'[j].of].id)
    <3>1. /\ arrived'[j].no = j /\ arrived'[j].of = order[j]
          /\ order[j] # 0 => arrived'[j].id = Decoded(reqs[order[j]].id)
      BY <1>4
    <3>2. order[j] = 0 \/ order[j] \in CallNos
      BY <1>2
    <3>3. order[j] \in 0 .. Len(reqs) /\ (order[j] # 0 => ~IsZero(reqs[order[j]].id))
      BY <1>3, <3>2
    <3>4. QED
      BY <3>1, <3>3, Zenon
  <2>2. \A j, k \in 1 .. n : arrived'[j].of = arrived'[k].of => j = k
    BY <1>1, <1>2, <2>1 DEF IsInjective
  <2>3. QED
    BY <1>4, <1>6, <2>1, <2>2 DEF Echoed
<1>9. Drawn'
  BY <1>4 DEF Drawn
<1>10. calls = << >>
  BY <1>4 DEF Fresh
<1>11. Fresh' /\ Matched' /\ Loops'
  BY <1>4, <1>10 DEF Fresh, Matched, Loops
<1>12. QED
  BY <1>7, <1>8, <1>9, <1>11

-----------------------------------------------------------------------------
(***************************************************************************)
(* Taking responses and the loops of BatchCorrelate.                       *)
(***************************************************************************)
\* One more call is one more element, and a new one if it was none before.
LEMMA Appended ==
    ASSUME NEW S, NEW s \in Seq(S), NEW x \in S
    PROVE  /\ ToSet(Append(s, x)) = ToSet(s) \cup {x}
           /\ (IsInjective(s) /\ x \notin ToSet(s)) => IsInjective(Append(s, x))
<1>1. /\ DOMAIN s = 1 .. Len(s) /\ Len(s) \in Nat
      /\ DOMAIN Append(s, x) = 1 .. Len(s) + 1
      /\ \A i \in 1 .. Len(s) : Append(s, x)[i] = s[i]
      /\ Append(s, x)[Len(s) + 1] = x
  BY AppendProperties, LenProperties
<1>2. ToSet(Append(s, x)) = ToSet(s) \cup {x}
  <2>1. ASSUME NEW e \in ToSet(Append(s, x)) PROVE e \in ToSet(s) \cup {x}
    <3>1. PICK i \in 1 .. Len(s) + 1 : e = Append(s, x)[i]
      BY <1>1, <2>1 DEF ToSet
    <3>2. i \in 1 .. Len(s) \/ i = Len(s) + 1
      BY <1>1
    <3>3. QED
      BY <1>1, <3>1, <3>2 DEF ToSet
  <2>2. ASSUME NEW e \in ToSet(s) PROVE e \in ToSet(Append(s, x))
    <3>1. PICK i \in 1 .. Len(s) : e = s[i]
      BY <1>1, <2>2 DEF ToSet
    <3>2. i \in 1 .. Len(s) + 1
      BY <1>1
    <3>3. QED
      BY <1>1, <3>1, <3>2 DEF ToSet
  <2>3. x \in ToSet(Append(s, x))
    <3>1. Len(s) + 1 \in 1 .. Len(s) + 1
      BY <1>1
    <3>2. QED
      BY <1>1, <3>1 DEF ToSet
  <2>4. QED
    BY <2>1, <2>2, <2>3
<1>3. ASSUME IsInjective(s), x \notin ToSet(s) PROVE IsInjective(Append(s, x))
  <2> SUFFICES ASSUME NEW a \in 1 .. Len(s) + 1, NEW b \in 1 .. Len(s) + 1,
                      Append(s, x)[a] = Append(s, x)[b]
               PROVE  a = b
    BY <1>1 DEF IsInjective
  <2>1. \A i \in 1 .. Len(s) : s[i] # x
    BY <1>1, <1>3 DEF ToSet
  <2>2. /\ a \in 1 .. Len(s) \/ a = Len(s) + 1
        /\ b \in 1 .. Len(s) \/ b = Len(s) + 1
    BY <1>1
  <2>3. QED
    BY <1>1, <1>3, <2>1, <2>2 DEF IsInjective
<1>4. QED
  BY <1>2, <1>3

\* A call that fits is appended.
LEMMA MatchedStep ==
    ASSUME BatchInv, NEW x \in Nat \X ResponseSet, Fits(x),
           calls' = Append(calls, x), reqs' = reqs, arrived' = arrived
    PROVE  Matched' /\ calls' \in Seq(Nat \X ResponseSet) /\ calls' # << >>
<1>1. /\ calls' \in Seq(Nat \X ResponseSet) /\ calls' # << >>
      /\ Len(calls') = Len(calls) + 1 /\ Len(calls) \in Nat
      /\ \A i \in 1 .. Len(calls) : calls'[i] = calls[i]
      /\ calls'[Len(calls) + 1] = x
  <2> DEFINE S == Nat \X ResponseSet
  <2>1. calls \in Seq(S) /\ x \in S /\ Len(calls) \in Nat
    BY Domains DEF BatchInv, BatchTypeOK
  <2> HIDE DEF S
  <2>2. /\ Append(calls, x) \in Seq(S) /\ Append(calls, x) # << >>
        /\ Len(Append(calls, x)) = Len(calls) + 1
        /\ \A i \in 1 .. Len(calls) : Append(calls, x)[i] = calls[i]
        /\ Append(calls, x)[Len(calls) + 1] = x
    BY <2>1, AppendProperties
  <2>3. QED
    BY <2>1, <2>2 DEF S
<1>2. ASSUME NEW k \in 1 .. Len(calls') PROVE Fits(calls[k])'
  <2>1. CASE k \in 1 .. Len(calls)
    <3>1. Fits(calls[k]) /\ calls'[k] = calls[k]
      BY <1>1, <2>1 DEF BatchInv, Matched
    <3>2. QED
      BY <3>1 DEF Fits
  <2>2. CASE k = Len(calls) + 1
    <3>1. calls'[k] = x
      BY <1>1, <2>2
    <3>2. QED
      BY <3>1 DEF Fits
  <2>3. QED
    BY <1>1, <2>1, <2>2
<1>3. Matched'
  BY <1>2, Zenon DEF Matched
<1>4. QED
  BY <1>1, <1>3

LEMMA TakeResponseStep ==
    ASSUME BatchInv, NEW i \in DOMAIN reqs, TakeResponse(i)
    PROVE  BatchInv'
<1> USE DEF BatchInv
<1> DEFINE j == Index(resps, reqs[i].id)
<1>1. j \in 1 .. Len(resps) /\ Equal(reqs[i].id, resps[j].id) /\ i \in 1 .. Len(reqs)
  BY IndexFinds, Domains DEF TakeResponse
<1>2. /\ phase = "answered" /\ calls' = Append(calls, <<i, resps[j]>>)
      /\ resps' = RemoveAt(resps, j)
      /\ UNCHANGED <<counter, drawn, reqs, arrived, phase, pos, processed>>
  BY DEF TakeResponse
<1> HIDE DEF j
<1>3. resps[j] \in ResponseSet /\ \E m \in 1 .. Len(arrived) : resps[j] = arrived[m]
  BY <1>1, ElementOfSeq DEF BatchTypeOK, Echoed
<1>4. Fits(<<i, resps[j]>>) /\ <<i, resps[j]>> \in Nat \X ResponseSet
  BY <1>1, <1>3, Domains DEF Fits
<1>5. Matched' /\ calls' \in Seq(Nat \X ResponseSet) /\ calls' # << >>
  BY <1>2, <1>4, MatchedStep
<1>6. /\ resps' \in Seq(ResponseSet) /\ Len(resps') = Len(resps) - 1 /\ Len(resps) \in Nat
      /\ \A k \in 1 .. Len(resps) - 1 : resps'[k] = IF k < j THEN resps[k] ELSE resps[k + 1]
  BY <1>1, <1>2, Removed, Domains DEF BatchTypeOK
<1>7. BatchTypeOK'
  BY <1>2, <1>5, <1>6 DEF BatchTypeOK
<1>8. Echoed'
  <2>1. ASSUME NEW k \in 1 .. Len(resps')
        PROVE  \E m \in 1 .. Len(resps) : resps'[k] = resps[m]
    BY <1>1, <1>6
  <2>2. \A k \in 1 .. Len(resps') : \E m \in 1 .. Len(arrived) : resps'[k] = arrived[m]
    BY <2>1 DEF Echoed
  <2>3. QED
    BY <1>2, <2>2 DEF Echoed
<1>9. Drawn' /\ Fresh' /\ Loops'
  BY <1>2, <1>5 DEF Drawn, Fresh, Loops
<1>10. QED
  BY <1>5, <1>7, <1>8, <1>9

LEMMA CorrelateStep ==
    ASSUME BatchInv, Correlate
    PROVE  BatchInv'
<1> USE DEF BatchInv
<1>1. /\ phase = "answered" /\ calls = << >> /\ phase' = "requests" /\ pos' = 1
      /\ UNCHANGED <<counter, drawn, reqs, arrived, resps, processed, calls>>
  BY DEF Correlate
<1>2. BatchTypeOK'
  BY <1>1 DEF BatchTypeOK, Phases
<1>3. Drawn' /\ Echoed' /\ Fresh' /\ Matched'
  BY <1>1 DEF Drawn, Echoed, Fresh, Matched
<1>4. processed = {} /\ resps = arrived /\ Len(reqs) \in Nat
  BY <1>1, Domains DEF Fresh
<1>5. /\ Marks(pos - 1)' = {} /\ Pairs(pos - 1)' = {}
      /\ ToSet(calls)' = {} /\ IsInjective(calls)'
  <2>1. 1 .. (pos' - 1) = {} /\ calls' = << >> /\ DOMAIN << >> = {}
    BY <1>1
  <2>2. ToSet(calls)' = {} /\ IsInjective(calls)'
    BY <2>1 DEF ToSet, IsInjective
  <2>3. Marks(pos - 1)' = {}
    BY <2>1 DEF Marks
  <2>4. Pairs(pos - 1)' = {}
    BY <2>1 DEF Pairs
  <2>5. QED
    BY <2>2, <2>3, <2>4
<1>6. Loops'
  <2>1. pos' \in 1 .. Len(reqs') + 1
    BY <1>1, <1>4
  <2>2. (resps = arrived /\ IsInjective(calls))'
    BY <1>1, <1>4, <1>5
  <2>3. (processed = Marks(pos - 1) /\ ToSet(calls) = Pairs(pos - 1))'
    BY <1>1, <1>4, <1>5
  <2>4. phase' = "requests"
    BY <1>1
  <2>5. QED
    BY <2>1, <2>2, <2>3, <2>4 DEF Loops
<1>7. QED
  BY <1>2, <1>3, <1>6

\* The sets of the loops depend on the batches only, and grow by one element.
LEMMA LoopSets ==
    ASSUME NEW n \in Nat \ {0}
    PROVE  /\ Pairs(n) = Pairs(n - 1) \cup {<<n, Found(n)>>}
           /\ <<n, Found(n)>> \notin Pairs(n - 1)
           /\ Marks(n) = Marks(n - 1) \cup Mark(reqs[n], Found(n))
<1>1. /\ \A k \in 1 .. n : k \in 1 .. (n - 1) \/ k = n
      /\ \A k \in 1 .. (n - 1) : k \in 1 .. n /\ k # n
      /\ n \in 1 .. n
  OBVIOUS
<1>2. Pairs(n) = Pairs(n - 1) \cup {<<n, Found(n)>>}
  BY <1>1 DEF Pairs
<1>3. <<n, Found(n)>> \notin Pairs(n - 1)
  BY <1>1 DEF Pairs
<1>4. Marks(n) = Marks(n - 1) \cup Mark(reqs[n], Found(n))
  BY <1>1 DEF Marks, Mark
<1>5. QED
  BY <1>2, <1>3, <1>4

LEMMA SameSets ==
    ASSUME NEW n, reqs' = reqs, resps' = resps
    PROVE  /\ Pairs(n)' = Pairs(n)
           /\ Marks(n)' = Marks(n)
           /\ processed' = processed => Extras(n)' = Extras(n)
<1>1. \A k : Found(k)' = Found(k)
  BY DEF Found
<1>2. Pairs(n)' = Pairs(n)
  BY <1>1 DEF Pairs
<1>3. Marks(n)' = Marks(n)
  BY <1>1 DEF Marks
<1>4. processed' = processed => Extras(n)' = Extras(n)
  BY DEF Extras
<1>5. QED
  BY <1>2, <1>3, <1>4

LEMMA CorrelateRequestStep ==
    ASSUME BatchInv, NEW cont \in BOOLEAN, CorrelateRequest(cont)
    PROVE  BatchInv'
<1> USE DEF BatchInv
<1>1. /\ phase = "requests" /\ pos <= Len(reqs) /\ pos' = pos + 1
      /\ phase' = IF cont THEN "requests" ELSE "stopped"
      /\ processed' = processed \cup Mark(reqs[pos], Found(pos))
      /\ calls' = Append(calls, <<pos, Found(pos)>>)
      /\ UNCHANGED <<counter, drawn, reqs, arrived, resps>>
  BY DEF CorrelateRequest, Advance, Found
<1>2. /\ pos \in 1 .. Len(reqs) /\ pos \in Nat \ {0} /\ resps = arrived /\ IsInjective(calls)
      /\ processed = Marks(pos - 1) /\ ToSet(calls) = Pairs(pos - 1)
      /\ Len(reqs) \in Nat /\ Len(resps) \in Nat
  BY <1>1, Domains DEF Loops
<1>3. /\ Found(pos) \in ResponseSet
      /\ Found(pos) # NoResponse =>
            \E j \in 1 .. Len(arrived) :
                Found(pos) = arrived[j] /\ Equal(reqs[pos].id, arrived[j].id)
  <2>1. \/ Found(pos) = NoResponse
        \/ \E j \in 1 .. Len(resps) :
              Found(pos) = resps[j] /\ Equal(reqs[pos].id, resps[j].id)
    BY <1>2, GetFinds DEF Found
  <2>2. NoResponse \in ResponseSet
    BY DEF NoResponse, ResponseSet, NoID, IDs
  <2>3. \A j \in 1 .. Len(resps) : resps[j] \in ResponseSet
    BY ElementOfSeq DEF BatchTypeOK
  <2>4. QED
    BY <1>2, <2>1, <2>2, <2>3
<1>4. Fits(<<pos, Found(pos)>>) /\ <<pos, Found(pos)>> \in Nat \X ResponseSet
  BY <1>2, <1>3 DEF Fits
<1>5. Matched' /\ calls' \in Seq(Nat \X ResponseSet) /\ calls' # << >>
  BY <1>1, <1>4, MatchedStep
<1>6. BatchTypeOK'
  <2>1. pos' \in Nat /\ phase' \in Phases
    BY <1>1, <1>2 DEF Phases
  <2>2. QED
    BY <1>1, <1>5, <2>1 DEF BatchTypeOK
<1>7. Drawn' /\ Echoed' /\ Fresh'
  BY <1>1, <1>5 DEF Drawn, Echoed, Fresh
<1>8. Loops'
  <2>1. /\ Pairs(pos) = Pairs(pos - 1) \cup {<<pos, Found(pos)>>}
        /\ <<pos, Found(pos)>> \notin Pairs(pos - 1)
        /\ Marks(pos) = Marks(pos - 1) \cup Mark(reqs[pos], Found(pos))
    BY <1>2, LoopSets
  <2>2. ToSet(calls') = Pairs(pos) /\ IsInjective(calls') /\ processed' = Marks(pos)
    <3> DEFINE S == Nat \X ResponseSet
               x == <<pos, Found(pos)>>
    <3>1. calls \in Seq(S) /\ x \in S
      BY <1>4 DEF BatchTypeOK
    <3> HIDE DEF S
    <3>2. /\ ToSet(Append(calls, x)) = ToSet(calls) \cup {x}
          /\ x \notin ToSet(calls) => IsInjective(Append(calls, x))
      BY <1>2, <3>1, Appended
    <3>3. QED
      BY <1>1, <1>2, <2>1, <3>2, Zenon
  <2>3. pos' - 1 = pos /\ pos' \in 1 .. Len(reqs') + 1
    BY <1>1, <1>2
  <2>4. QED
    BY <1>1, <1>2, <2>2, <2>3, SameSets DEF Loops
<1>9. QED
  BY <1>5, <1>6, <1>7, <1>8

LEMMA RequestsDoneStep ==
    ASSUME BatchInv, RequestsDone
    PROVE  BatchInv'
<1> USE DEF BatchInv
<1>1. /\ phase = "requests" /\ pos > Len(reqs) /\ phase' = "responses" /\ pos' = 1
      /\ UNCHANGED <<counter, drawn, reqs, arrived, resps, processed, calls>>
  BY DEF RequestsDone
<1>2. /\ pos \in 1 .. Len(reqs) + 1 /\ resps = arrived /\ IsInjective(calls)
      /\ processed = Marks(pos - 1) /\ ToSet(calls) = Pairs(pos - 1)
      /\ Len(reqs) \in Nat /\ Len(resps) \in Nat
  BY <1>1, Domains DEF Loops
<1>3. BatchTypeOK'
  BY <1>1 DEF BatchTypeOK, Phases
<1>4. Drawn' /\ Echoed' /\ Fresh' /\ Matched'
  BY <1>1 DEF Drawn, Echoed, Fresh, Matched, Fits
<1>5. Loops'
  <2>1. pos - 1 = Len(reqs) /\ 1 \in 1 .. Len(resps) + 1
    BY <1>1, <1>2
  <2>2. processed = Marks(Len(reqs)) /\ ToSet(calls) = Pairs(Len(reqs))
    BY <1>2, <2>1, Zenon
  <2>3. pos' - 1 = 0
    BY <1>1
  <2>4. /\ Pairs(Len(reqs))' = Pairs(Len(reqs)) /\ Marks(Len(reqs))' = Marks(Len(reqs))
    <3>1. Len(reqs') = Len(reqs)
      BY <1>1
    <3>2. QED
      BY <1>1, <3>1, SameSets
  <2>5. Extras(pos - 1)' = {}
    <3>1. 1 .. (pos' - 1) = {}
      BY <2>3
    <3>2. QED
      BY <3>1, Zenon DEF Extras
  <2>6. (ToSet(calls) = Pairs(Len(reqs)) \cup Extras(pos - 1))'
    <3>1. ToSet(calls)' = ToSet(calls)
      BY <1>1
    <3>2. QED
      BY <2>2, <2>4, <2>5, <3>1
  <2>7. (processed = Marks(Len(reqs)))' /\ pos' \in 1 .. Len(resps') + 1
    BY <1>1, <2>1, <2>2, <2>4
  <2>8. (resps = arrived /\ IsInjective(calls))'
    BY <1>1, <1>2
  <2>9. QED
    BY <1>1, <2>6, <2>7, <2>8 DEF Loops
<1>6. QED
  BY <1>3, <1>4, <1>5

\* What the second loop reports grows by the response it is at, unless that was
\* marked.
LEMMA ExtraSets ==
    ASSUME NEW n \in Nat \ {0}
    PROVE  Extras(n) = Extras(n - 1) \cup
                         IF resps[n].id \in processed THEN {} ELSE {<<0, resps[n]>>}
<1>1. /\ \A k \in 1 .. n : k \in 1 .. (n - 1) \/ k = n
      /\ \A k \in 1 .. (n - 1) : k \in 1 .. n
      /\ n \in 1 .. n
  OBVIOUS
<1>2. QED
  BY <1>1 DEF Extras

LEMMA CorrelateResponseStep ==
    ASSUME BatchInv, NEW cont \in BOOLEAN, CorrelateResponse(cont)
    PROVE  BatchInv'
<1> USE DEF BatchInv
<1> DEFINE x == <<0, resps[pos]>>
<1>1. /\ phase = "responses" /\ pos <= Len(resps) /\ pos' = pos + 1
      /\ UNCHANGED <<counter, drawn, reqs, arrived, resps, processed>>
      /\ \/ resps[pos].id \in processed /\ UNCHANGED <<phase, calls>>
         \/ /\ resps[pos].id \notin processed /\ calls' = Append(calls, x)
            /\ phase' = IF cont THEN "responses" ELSE "stopped"
  BY DEF CorrelateResponse, Advance
<1>2. /\ pos \in 1 .. Len(resps) /\ pos \in Nat \ {0} /\ resps = arrived /\ IsInjective(calls)
      /\ processed = Marks(Len(reqs))
      /\ ToSet(calls) = Pairs(Len(reqs)) \cup Extras(pos - 1)
      /\ Len(reqs) \in Nat /\ Len(resps) \in Nat
  BY <1>1, Domains DEF Loops
<1>3. pos' \in Nat /\ phase' \in Phases
  BY <1>1, <1>2 DEF Phases
<1>4. pos' - 1 = pos /\ pos' \in 1 .. Len(resps') + 1
  BY <1>1, <1>2
<1>5. Drawn' /\ Echoed'
  BY <1>1 DEF Drawn, Echoed
<1>6. ASSUME Matched', calls' \in Seq(Nat \X ResponseSet), phase' # "stopped" => IsInjective(calls'),
             phase' # "stopped" => ToSet(calls') = Pairs(Len(reqs)) \cup Extras(pos)
      PROVE  BatchInv'
  <2>1. BatchTypeOK'
    BY <1>1, <1>3, <1>6 DEF BatchTypeOK
  <2>2. Fresh'
    BY <1>1, <1>2 DEF Fresh
  <2>3. /\ Pairs(Len(reqs))' = Pairs(Len(reqs)) /\ Marks(Len(reqs))' = Marks(Len(reqs))
        /\ Extras(pos - 1)' = Extras(pos)
    <3>1. Len(reqs') = Len(reqs)
      BY <1>1
    <3>2. QED
      BY <1>1, <1>4, <3>1, SameSets
  <2>4. phase' \in {"responses", "stopped"}
    BY <1>1
  <2>5. phase' = "responses" => (ToSet(calls) = Pairs(Len(reqs)) \cup Extras(pos - 1))'
    BY <1>6, <2>3, Zenon
  <2>6. (processed = Marks(Len(reqs)) /\ resps = arrived)'
    BY <1>1, <1>2, <2>3
  <2>7. Loops'
    BY <1>4, <1>6, <2>4, <2>5, <2>6 DEF Loops
  <2>8. QED
    BY <1>5, <1>6, <2>1, <2>2, <2>7
<1>7. CASE resps[pos].id \in processed
  <2>1. calls' = calls /\ Extras(pos) = Extras(pos - 1)
    BY <1>1, <1>2, <1>7, ExtraSets
  <2>2. Matched'
    BY <1>1, <2>1 DEF Matched, Fits
  <2>3. calls \in Seq(Nat \X ResponseSet)
    BY DEF BatchTypeOK
  <2>4. QED
    BY <1>2, <1>6, <2>1, <2>2, <2>3
<1>8. CASE resps[pos].id \notin processed
  <2>1. calls' = Append(calls, x) /\ Extras(pos) = Extras(pos - 1) \cup {x}
    BY <1>1, <1>2, <1>8, ExtraSets
  <2>2. Fits(x) /\ x \in Nat \X ResponseSet
    BY <1>2, ElementOfSeq DEF Fits, BatchTypeOK
  <2>3. Matched' /\ calls' \in Seq(Nat \X ResponseSet)
    BY <1>1, <2>1, <2>2, MatchedStep
  <2>4. x \notin ToSet(calls)
    <3>1. x \notin Pairs(Len(reqs))
      <4>1. \A k \in 1 .. Len(reqs) : k # 0
        BY <1>2
      <4>2. QED
        BY <4>1 DEF Pairs
    <3>2. ASSUME NEW m \in 1 .. (pos - 1) PROVE x # <<0, resps[m]>>
      <4>1. m \in 1 .. Len(arrived) /\ m # pos
        BY <1>2
      <4>2. arrived[m].no = m /\ arrived[pos].no = pos
        BY <1>2, <4>1 DEF Echoed
      <4>3. QED
        BY <1>2, <4>1, <4>2
    <3>3. x \notin Extras(pos - 1)
      BY <3>2 DEF Extras
    <3>4. QED
      BY <1>2, <3>1, <3>3
  <2>5. ToSet(calls') = ToSet(calls) \cup {x} /\ IsInjective(calls')
    <3> DEFINE S == Nat \X ResponseSet
    <3>1. calls \in Seq(S) /\ x \in S
      BY <2>2 DEF BatchTypeOK
    <3> HIDE DEF S, x
    <3>2. /\ ToSet(Append(calls, x)) = ToSet(calls) \cup {x}
          /\ x \notin ToSet(calls) => IsInjective(Append(calls, x))
      BY <1>2, <3>1, Appended
    <3>3. QED
      BY <2>1, <2>4, <3>2, Zenon
  <2> HIDE DEF x
  <2>6. ToSet(calls') = Pairs(Len(reqs)) \cup Extras(pos)
    BY <1>2, <2>1, <2>5
  <2>7. QED
    BY <1>6, <2>3, <2>5, <2>6
<1>9. QED
  BY <1>7, <1>8

LEMMA ResponsesDoneStep ==
    ASSUME BatchInv, ResponsesDone
    PROVE  BatchInv'
<1> USE DEF BatchInv
<1>1. /\ phase = "responses" /\ pos > Len(resps) /\ phase' = "done"
      /\ UNCHANGED <<counter, drawn, reqs, arrived, resps, pos, processed, calls>>
  BY DEF ResponsesDone
<1>2. BatchTypeOK'
  BY <1>1 DEF BatchTypeOK, Phases
<1>3. Drawn' /\ Echoed' /\ Fresh' /\ Matched'
  BY <1>1 DEF Drawn, Echoed, Fresh, Matched, Fits
<1>4. /\ pos \in 1 .. Len(resps) + 1 /\ resps = arrived /\ IsInjective(calls)
      /\ processed = Marks(Len(reqs))
      /\ ToSet(calls) = Pairs(Len(reqs)) \cup Extras(pos - 1)
      /\ Len(resps) \in Nat
  BY <1>1, Domains DEF Loops
<1>5. Loops'
  <2>1. pos' = Len(resps') + 1 /\ pos' \in 1 .. Len(resps') + 1
    BY <1>1, <1>4
  <2>2. Len(reqs') = Len(reqs) /\ pos' - 1 = pos - 1
    BY <1>1
  <2>3. /\ Pairs(Len(reqs))' = Pairs(Len(reqs)) /\ Marks(Len(reqs))' = Marks(Len(reqs))
        /\ Extras(pos - 1)' = Extras(pos - 1)
    BY <1>1, <2>2, SameSets
  <2>4. /\ (resps = arrived /\ IsInjective(calls) /\ processed = Marks(Len(reqs)))'
        /\ (ToSet(calls) = Pairs(Len(reqs)) \cup Extras(pos - 1))'
    BY <1>1, <1>4, <2>3
  <2>5. QED
    BY <1>1, <2>1, <2>4 DEF Loops
<1>6. QED
  BY <1>2, <1>3, <1>5

LEMMA StutterStep ==
    ASSUME BatchInv, UNCHANGED vars
    PROVE  BatchInv'
<1> USE DEF BatchInv, vars
<1>1. BatchTypeOK' /\ Drawn' /\ Echoed' /\ Fresh' /\ Matched'
  BY DEF BatchTypeOK, Drawn, Echoed, Fresh, Matched, Fits
<1>2. Len(reqs') = Len(reqs) /\ pos' - 1 = pos - 1
  BY DEF vars
<1>3. /\ Pairs(Len(reqs))' = Pairs(Len(reqs)) /\ Marks(Len(reqs))' = Marks(Len(reqs))
      /\ Pairs(pos - 1)' = Pairs(pos - 1) /\ Marks(pos - 1)' = Marks(pos - 1)
      /\ Extras(pos - 1)' = Extras(pos - 1)
  BY <1>2, SameSets
<1>4. Loops'
  BY <1>3 DEF Loops
<1>5. QED
  BY <1>1, <1>4

-----------------------------------------------------------------------------
(***************************************************************************)
(* The theorems.                                                           *)
(***************************************************************************)
LEMMA InitBatchInv == Init => BatchInv
<1> SUFFICES ASSUME Init PROVE BatchInv
  OBVIOUS
<1>1. BatchTypeOK
  BY DEF Init, BatchTypeOK, Phases
<1>2. Drawn /\ Echoed /\ Fresh /\ Matched /\ Loops
  BY DEF Init, Drawn, Echoed, Fresh, Matched, Loops
<1>3. QED
  BY <1>1, <1>2 DEF BatchInv

LEMMA NextBatchInv == BatchInv /\ [Next]_vars => BatchInv'
<1> SUFFICES ASSUME BatchInv, [Next]_vars PROVE BatchInv'
  OBVIOUS
<1>1. CASE DrawElsewhere
  BY <1>1, DrawElsewhereStep
<1>2. CASE Add
  BY <1>2, AddStep
<1>3. CASE Reset
  BY <1>3, ResetStep
<1>4. CASE Call
  BY <1>4, CallStep
<1>5. CASE Correlate
  BY <1>5, CorrelateStep
<1>6. CASE RequestsDone
  BY <1>6, RequestsDoneStep
<1>7. CASE ResponsesDone
  BY <1>7, ResponsesDoneStep
<1>8. CASE \E id \in OwnIDs : AddOwn(id) \/ DeleteRequest(id)
  BY <1>8, AddOwnStep, DeleteRequestStep
<1>9. CASE \E order \in Orders, stray \in StrayIDs : Answer(order, stray)
  BY <1>9, AnswerStep
<1>10. CASE \E i \in DOMAIN reqs : TakeResponse(i)
  BY <1>10, TakeResponseStep
<1>11. CASE \E cont \in BOOLEAN : CorrelateRequest(cont) \/ CorrelateResponse(cont)
  BY <1>11, CorrelateRequestStep, CorrelateResponseStep
<1>12. CASE UNCHANGED vars
  BY <1>12, StutterStep
<1>13. QED
  BY <1>1, <1>2, <1>3, <1>4, <1>5, <1>6, <1>7, <1>8, <1>9, <1>10, <1>11, <1>12 DEF Next

(***************************************************************************)
(* The invariant holds of a batch of any size, for a counter of any width  *)
(* and whatever IDs the caller and the server make up: the IDs drawn by    *)
(* nextID stay as far apart as their draws, responses echo their requests, *)
(* and the loops of BatchCorrelate have done what their position says.     *)
(***************************************************************************)
THEOREM BatchInductive == Spec => []BatchInv
  BY InitBatchInv, NextBatchInv, PTL DEF Spec

(***************************************************************************)
(* A response is given only to the request it answers, by Batch.Delete and *)
(* by BatchCorrelate, in any order of arrival, across the wrap of the      *)
(* counter and although the ID comes back as a json.Number.                *)
(***************************************************************************)
THEOREM ResponsesGoHome == Spec => []OwnResponse
  BY BatchInductive, InvOwnResponse, PTL

(***************************************************************************)
(* A BatchCorrelate that runs to its end reports every request once, with  *)
(* its response if one came, and every other response once: the processed  *)
(* set and Batch.Index together compute the reference definition.          *)
(***************************************************************************)
THEOREM CorrelateIsExact == Spec => []CorrelationExact
  BY BatchInductive, InvCorrelationExact, PTL
=============================================================================

--------------------------- MODULE ReadLimitProofs ---------------------------
(***************************************************************************)
(* The two promises of the read limit, for every stream and every limit.   *)
(***************************************************************************)
EXTENDS ReadLimit, TLAPS

\* Before the first Decode nothing was read; a refusal is final.
Beginning ==
    /\ last = "none" => ~spent
    /\ (last = "none" /\ phase = "idle") => got = 0 /\ i = 0
    /\ last = "toolarge" => spent

(***************************************************************************)
(* What is buffered.  A call that returns a message leaves less than n     *)
(* bytes of later messages, because its last read began before the message *)
(* was complete; a call that is reading has read n - N bytes.              *)
(***************************************************************************)
Idling == (phase = "idle" /\ ~spent) => got - stream.ends[i] <= n - 1

Reading ==
    phase = "reading" =>
        /\ N \in 0 .. n
        /\ got - stream.ends[i] + N <= 2 * n - 1
        /\ got - stream.ends[i] >= n - N
        /\ Complete => got - stream.ends[i + 1] <= n - 1

\* The inductive invariant.
LimitInv ==
    /\ TypeOK
    /\ Beginning
    /\ Limited => Idling /\ Reading
    /\ ExcessBounded
    /\ FittingNeverRefused

\* The initial states satisfy the invariant.
LEMMA InitLimitInv == Init => LimitInv
<1> SUFFICES ASSUME Init PROVE LimitInv
  OBVIOUS
<1>1. IsStream(stream)
  BY StreamAssumption DEF Init
<1>2. 0 \in 0 .. stream.count /\ 0 \in stream.ends[0] .. stream.len
  BY <1>1 DEF IsStream
<1>3. TypeOK
  <2>1. n \in Int /\ N \in Int /\ i \in 0 .. stream.count /\ got \in stream.ends[i] .. stream.len
    BY <1>2 DEF Init
  <2> QED
    BY <2>1, Zenon DEF Init, TypeOK
<1>4. Beginning /\ ~Limited /\ FittingNeverRefused
  BY DEF Init, Beginning, Limited, FittingNeverRefused
<1> QED
  BY <1>3, <1>4 DEF LimitInv, ExcessBounded

\* Every step preserves it.
LEMMA NextLimitInv == LimitInv /\ [Next]_vars => LimitInv'
<1> SUFFICES ASSUME LimitInv, [Next]_vars PROVE LimitInv'
  OBVIOUS
<1> DEFINE e == stream.ends
<1>0. /\ stream.count \in Nat /\ stream.len \in Nat
      /\ e \in [0 .. stream.count -> Nat]
      /\ e[0] = 0
      /\ \A j \in 1 .. stream.count : e[j - 1] < e[j]
      /\ \A j \in 0 .. stream.count : e[j] \in Nat
  BY StreamAssumption DEF LimitInv, TypeOK, IsStream
<1>a. /\ i \in Nat /\ e[i] \in Nat
      /\ i < stream.count => e[i + 1] \in Nat /\ e[i] < e[i + 1]
  <2>1. i \in 0 .. stream.count
    BY DEF LimitInv, TypeOK
  <2>2. ASSUME i < stream.count PROVE e[i + 1] \in Nat /\ e[(i + 1) - 1] < e[i + 1] /\ (i + 1) - 1 = i
    BY <1>0, <2>1, <2>2
  <2> QED
    BY <1>0, <2>1, <2>2
<1>1. CASE \E limit \in Limits : SetLimit(limit)
  <2> PICK limit \in Limits : SetLimit(limit)
    BY <1>1
  <2>1. limit \in Int
    BY LimitAssumption
  <2> QED
    BY <1>0, <2>1 DEF SetLimit, LimitInv, TypeOK, Beginning, Limited, Idling, Reading,
       ExcessBounded, FittingNeverRefused
<1>2. CASE Decode
  <2>1. TypeOK' /\ Beginning'
    BY <1>0, <1>2 DEF Decode, Allowance, LimitInv, TypeOK, Beginning
  <2>2. (Limited => Idling /\ Reading)'
    <3> SUFFICES ASSUME Limited PROVE Idling' /\ Reading'
      BY <1>2 DEF Decode, Limited
    <3>1. CASE spent
      BY <1>0, <1>2, <3>1 DEF Decode, Allowance, LimitInv, TypeOK, Idling, Reading, Limited
    <3>2. CASE ~spent
      <4>1. got - e[i] <= n - 1 /\ n > 0 /\ n \in Int
        BY <1>2, <3>2 DEF Decode, LimitInv, TypeOK, Idling, Limited
      <4>2. ~Complete \/ got - e[i + 1] <= n - 1
        <5>1. got \in Int
          BY <1>0, <1>a DEF LimitInv, TypeOK
        <5>2. Complete => i < stream.count
          BY DEF Complete
        <5> QED
          BY <1>a, <4>1, <5>1, <5>2
      <4>3. phase' = "reading" /\ N' = n /\ UNCHANGED <<stream, n, got, i>>
        BY <1>2, <3>2 DEF Decode, Allowance
      <4> QED
        BY <1>0, <4>1, <4>2, <4>3 DEF Idling, Reading, Complete, LimitInv, TypeOK
    <3> QED
      BY <3>1, <3>2
  <2>3. ExcessBounded' /\ FittingNeverRefused'
    BY <1>0, <1>2 DEF Decode, LimitInv, TypeOK, Beginning, Limited, ExcessBounded,
       FittingNeverRefused
  <2> QED
    BY <2>1, <2>2, <2>3 DEF LimitInv
<1>3. CASE Deliver
  <2>1. /\ i \in 0 .. (stream.count - 1) /\ e[i + 1] <= got
        /\ i' = i + 1 /\ phase' = "idle" /\ last' = "message"
        /\ UNCHANGED <<stream, n, N, got, spent>> /\ phase = "reading"
    BY <1>0, <1>3 DEF Deliver, Complete, LimitInv, TypeOK
  <2>2. TypeOK' /\ Beginning' /\ FittingNeverRefused'
    BY <1>0, <2>1 DEF LimitInv, TypeOK, Beginning, FittingNeverRefused
  <2>3. (Limited => Idling /\ Reading)'
    BY <1>0, <2>1 DEF LimitInv, TypeOK, Idling, Reading, Complete, Limited
  <2>4. ExcessBounded'
    <3> SUFFICES ASSUME Limited, NEW j \in 1 .. (i + 1)
                 PROVE  e[j] - e[j - 1] <= 2 * n - 1
      BY <2>1 DEF ExcessBounded, Limited
    <3>1. CASE j = i + 1
      <4>1. got - e[i] + N <= 2 * n - 1 /\ N >= 0 /\ N \in Int /\ n \in Int /\ got \in Int
        BY <1>0, <1>a, <2>1 DEF LimitInv, Reading, TypeOK
      <4>a. i < stream.count
        BY <1>0, <2>1
      <4>b. e[i + 1] <= got /\ e[i + 1] \in Nat /\ e[i] \in Nat
        BY <1>a, <2>1, <4>a
      <4>2. e[i + 1] - e[i] <= 2 * n - 1
        BY <4>1, <4>b
      <4> QED
        BY <1>a, <3>1, <4>2
    <3>2. CASE j # i + 1
      BY <1>a, <3>2 DEF LimitInv, ExcessBounded
    <3> QED
      BY <3>1, <3>2
  <2> QED
    BY <2>2, <2>3, <2>4 DEF LimitInv
<1>4. CASE \E k \in 1 .. (stream.len - got) : Read(k)
  <2> PICK k \in 1 .. (stream.len - got) : Read(k)
    BY <1>4
  <2>1. /\ phase = "reading" /\ ~Complete /\ got' = got + k
        /\ Limited => k <= N /\ N' = N - k
        /\ ~Limited => N' = N
        /\ UNCHANGED <<stream, n, i, phase, spent, last>>
        /\ k \in Nat \ {0} /\ got \in Nat /\ got + k <= stream.len
    BY <1>0 DEF Read, Left, LimitInv, TypeOK
  <2>2. TypeOK' /\ Beginning' /\ FittingNeverRefused' /\ ExcessBounded'
    BY <1>0, <2>1 DEF LimitInv, TypeOK, Beginning, FittingNeverRefused, ExcessBounded,
       Limited
  <2>3. (Limited => Idling /\ Reading)'
    <3> SUFFICES ASSUME Limited PROVE Idling' /\ Reading'
      BY <2>1 DEF Limited
    <3>1. /\ N \in 0 .. n /\ got - e[i] + N <= 2 * n - 1 /\ got - e[i] >= n - N
          /\ n \in Int /\ i \in 0 .. stream.count
      BY <2>1 DEF LimitInv, Reading, TypeOK
    <3>2. i < stream.count => got < e[i + 1]
      BY <1>a, <2>1 DEF Complete
    <3>3. i < stream.count => got + k - e[i + 1] <= n - 1
      BY <1>a, <2>1, <3>1, <3>2
    <3>4. N' \in 0 .. n /\ got' - e[i] + N' <= 2 * n - 1 /\ got' - e[i] >= n - N'
      BY <1>a, <2>1, <3>1
    <3>5. Complete' => got' - e[i + 1] <= n - 1
      <4> HAVE Complete'
      <4>1. i < stream.count
        BY <2>1 DEF Complete
      <4> QED
        BY <1>a, <2>1, <3>1, <3>3, <4>1
    <3> QED
      BY <2>1, <3>4, <3>5 DEF Idling, Reading
  <2> QED
    BY <2>2, <2>3 DEF LimitInv
<1>5. CASE ReadEOF
  <2>1. /\ phase = "reading" /\ ~Complete /\ phase' = "idle" /\ spent' = TRUE
        /\ last' \in {"toolarge", "eof"}
        /\ last' = "toolarge" => Limited /\ N <= 0
        /\ UNCHANGED <<stream, n, N, got, i>>
    BY <1>5 DEF ReadEOF, Fail
  <2>2. TypeOK' /\ Beginning' /\ ExcessBounded' /\ (Limited => Idling /\ Reading)'
    BY <1>0, <2>1 DEF LimitInv, TypeOK, Beginning, ExcessBounded, Limited, Idling, Reading
  <2>3. FittingNeverRefused'
    <3>1. CASE last' = "eof"
      BY <3>1 DEF FittingNeverRefused
    <3>2. CASE last' = "toolarge"
      <4>1. got - e[i] >= n /\ got \in e[i] .. stream.len /\ n \in Int /\ i \in 0 .. stream.count
        BY <1>a, <2>1, <3>2 DEF LimitInv, TypeOK, Reading
      <4>2. i < stream.count => e[i + 1] - e[i] > n
        BY <1>0, <1>a, <2>1, <4>1 DEF Complete
      <4>3. i = stream.count => stream.len - e[i] >= n
        BY <1>0, <1>a, <4>1
      <4> QED
        BY <1>0, <2>1, <4>1, <4>2, <4>3 DEF FittingNeverRefused
    <3> QED
      BY <2>1, <3>1, <3>2
  <2> QED
    BY <2>2, <2>3 DEF LimitInv
<1>6. CASE ReadFails
  BY <1>0, <1>6 DEF ReadFails, Fail, LimitInv, TypeOK, Beginning, ExcessBounded, Limited,
     Idling, Reading, FittingNeverRefused
<1>7. CASE UNCHANGED vars
  BY <1>7 DEF vars, LimitInv, TypeOK, Beginning, ExcessBounded, Limited, Idling, Reading,
     Complete, FittingNeverRefused
<1> QED
  BY <1>1, <1>2, <1>3, <1>4, <1>5, <1>6, <1>7 DEF Next

\* The decoder never accepts a message of twice its limit.
THEOREM NeverTwiceTheLimit == Spec => []ExcessBounded
<1>1. LimitInv => ExcessBounded
  BY DEF LimitInv
<1> QED
  BY InitLimitInv, NextLimitInv, <1>1, PTL DEF Spec

\* The decoder never refuses a message that fits.
THEOREM FittingIsAccepted == Spec => []FittingNeverRefused
<1>1. LimitInv => FittingNeverRefused
  BY DEF LimitInv
<1> QED
  BY InitLimitInv, NextLimitInv, <1>1, PTL DEF Spec
=============================================================================

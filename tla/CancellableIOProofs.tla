------------------------ MODULE CancellableIOProofs ------------------------
(***************************************************************************)
(* What CancellableIO guarantees for any number of callers.                *)
(***************************************************************************)
EXTENDS CancellableIO, TLAPS

\* The initial states satisfy the invariant.
LEMMA InitIOInv == Init => IOInv
<1> SUFFICES ASSUME Init PROVE IOInv
  OBVIOUS
<1>1. TypeOK
  BY KindsAssumption, TransportsAssumption DEF Init, TypeOK, Busy
<1>2. Exclusive /\ Armed /\ Cleared /\ StreamOwnDeadline
  BY NoOneAssumption DEF Init, Exclusive, Armed, Cleared, StreamOwnDeadline,
     OwnDeadline, Busy
<1>3. QED
  BY <1>1, <1>2 DEF IOInv

\* Every step keeps the types.
LEMMA TypeStep == TypeOK /\ [Next]_vars => TypeOK'
<1> SUFFICES ASSUME TypeOK, [Next]_vars PROVE TypeOK'
  OBVIOUS
<1> USE DEF TypeOK, Busy
<1>1. CASE Cancel
  BY <1>1 DEF Cancel
<1>2. CASE Close
  BY <1>2 DEF Close
<1>3. ASSUME NEW c \in Callers, Begin(c) PROVE TypeOK'
  BY <1>3 DEF Begin
<1>4. ASSUME NEW c \in Callers, Complete(c) \/ TimeOut(c) \/ Evict(c)
      PROVE TypeOK'
  BY <1>4 DEF Complete, TimeOut, Evict, Leave
<1>5. ASSUME NEW c \in Callers, MarshalFails(c) PROVE TypeOK'
  BY <1>5 DEF MarshalFails, Return
<1>6. ASSUME NEW c \in Callers, ClearDeadline(c) PROVE TypeOK'
  BY <1>6 DEF ClearDeadline, Return
<1>7. ASSUME NEW c \in Callers, Arm(c) \/ Fire(c) PROVE TypeOK'
  BY <1>7 DEF Arm, Fire
<1>8. ASSUME NEW c \in Callers, Enter(c) PROVE TypeOK'
  BY <1>8 DEF Enter
<1>9. ASSUME NEW c \in Callers, StopAfter(c) PROVE TypeOK'
  BY <1>9 DEF StopAfter, Return
<1>10. ASSUME NEW c \in Callers, Wait(c) PROVE TypeOK'
  BY <1>10 DEF Wait, Return
<1>11. ASSUME NEW c \in Callers, Expire(c) PROVE TypeOK'
  BY <1>11 DEF Expire
<1>12. ASSUME NEW c \in Callers, Interrupt(c) PROVE TypeOK'
  BY <1>12 DEF Interrupt
<1>13. CASE UNCHANGED vars
  BY <1>13 DEF vars
<1>14. QED
  BY <1>1, <1>2, <1>3, <1>4, <1>5, <1>6, <1>7, <1>8, <1>9, <1>10, <1>11,
     <1>12, <1>13 DEF Next, Proceed

(***************************************************************************)
(* Every step keeps the mutex with the one operation in progress, keeps    *)
(* each AfterFunc within its operation, and keeps a deadline in the past   *)
(* apart from operations whose AfterFunc has not set it.                   *)
(***************************************************************************)
LEMMA InvStep == IOInv /\ [Next]_vars => IOInv'
<1> SUFFICES ASSUME IOInv, [Next]_vars PROVE IOInv'
  OBVIOUS
<1> DEFINE P == Exclusive /\ Armed /\ Cleared /\ StreamOwnDeadline
<1>0. TypeOK /\ TypeOK'
  BY TypeStep DEF IOInv
<1> SUFFICES P'
  BY <1>0 DEF IOInv
<1> USE <1>0, NoOneAssumption DEF TypeOK, IOInv, Exclusive, Armed, Cleared,
        StreamOwnDeadline, OwnDeadline, Busy, DctxDone, Locked
<1>1. CASE Cancel
  BY <1>1 DEF Cancel
<1>2. CASE Close
  BY <1>2 DEF Close
<1>3. ASSUME NEW c \in Callers, Begin(c) PROVE P'
  <2>1. Exclusive'
    BY <1>3 DEF Begin
  <2>2. Armed'
    BY <1>3 DEF Begin
  <2>3. Cleared'
    BY <1>3 DEF Begin
  <2>4. StreamOwnDeadline'
    BY <1>3 DEF Begin
  <2>5. QED
    BY <2>1, <2>2, <2>3, <2>4
<1>4. ASSUME NEW c \in Callers, Complete(c) \/ TimeOut(c) \/ Evict(c) PROVE P'
  <2>1. Exclusive'
    BY <1>4 DEF Complete, TimeOut, Evict, Leave
  <2>2. Armed'
    BY <1>4 DEF Complete, TimeOut, Evict, Leave
  <2>3. Cleared'
    BY <1>4 DEF Complete, TimeOut, Evict, Leave
  <2>4. StreamOwnDeadline'
    BY <1>4 DEF Complete, TimeOut, Evict, Leave
  <2>5. QED
    BY <2>1, <2>2, <2>3, <2>4
<1>5. ASSUME NEW c \in Callers, MarshalFails(c) PROVE P'
  <2>1. Exclusive'
    BY <1>5 DEF MarshalFails, Return, StreamKinds
  <2>2. Armed'
    BY <1>5 DEF MarshalFails, Return, StreamKinds
  <2>3. Cleared'
    BY <1>5 DEF MarshalFails, Return, StreamKinds
  <2>4. StreamOwnDeadline'
    BY <1>5 DEF MarshalFails, Return, StreamKinds
  <2>5. QED
    BY <2>1, <2>2, <2>3, <2>4
<1>6. ASSUME NEW c \in Callers, ClearDeadline(c) PROVE P'
  <2>1. Exclusive'
    BY <1>6 DEF ClearDeadline, Return
  <2>2. Armed'
    BY <1>6 DEF ClearDeadline, Return
  <2>3. Cleared'
    BY <1>6 DEF ClearDeadline, Return
  <2>4. StreamOwnDeadline'
    BY <1>6 DEF ClearDeadline, Return
  <2>5. QED
    BY <2>1, <2>2, <2>3, <2>4
<1>7. ASSUME NEW c \in Callers, Arm(c) PROVE P'
  <2>1. Exclusive'
    BY <1>7 DEF Arm
  <2>2. Armed'
    BY <1>7 DEF Arm
  <2>3. Cleared'
    BY <1>7 DEF Arm
  <2>4. StreamOwnDeadline'
    BY <1>7 DEF Arm
  <2>5. QED
    BY <2>1, <2>2, <2>3, <2>4
<1>8. ASSUME NEW c \in Callers, Fire(c) PROVE P'
  <2>1. Exclusive'
    BY <1>8 DEF Fire
  <2>2. Armed'
    BY <1>8 DEF Fire
  <2>3. Cleared'
    BY <1>8 DEF Fire
  <2>4. StreamOwnDeadline'
    BY <1>8 DEF Fire
  <2>5. QED
    BY <2>1, <2>2, <2>3, <2>4
<1>9. ASSUME NEW c \in Callers, Enter(c) PROVE P'
  <2>1. Exclusive'
    BY <1>9 DEF Enter
  <2>2. Armed'
    BY <1>9 DEF Enter
  <2>3. Cleared'
    BY <1>9 DEF Enter
  <2>4. StreamOwnDeadline'
    BY <1>9 DEF Enter
  <2>5. QED
    BY <2>1, <2>2, <2>3, <2>4
<1>10. ASSUME NEW c \in Callers, StopAfter(c) PROVE P'
  <2>1. Exclusive'
    BY <1>10 DEF StopAfter, Return
  <2>2. Armed'
    BY <1>10 DEF StopAfter, Return
  <2>3. Cleared'
    BY <1>10 DEF StopAfter, Return
  <2>4. StreamOwnDeadline'
    BY <1>10 DEF StopAfter, Return
  <2>5. QED
    BY <2>1, <2>2, <2>3, <2>4
<1>11. ASSUME NEW c \in Callers, Wait(c) PROVE P'
  <2>1. Exclusive'
    BY <1>11 DEF Wait, Return
  <2>2. Armed'
    BY <1>11 DEF Wait, Return
  <2>3. Cleared'
    BY <1>11 DEF Wait, Return
  <2>4. StreamOwnDeadline'
    BY <1>11 DEF Wait, Return
  <2>5. QED
    BY <2>1, <2>2, <2>3, <2>4
<1>12. ASSUME NEW c \in Callers, Expire(c) PROVE P'
  <2>1. Exclusive'
    BY <1>12 DEF Expire, HasDctx
  <2>2. Armed'
    BY <1>12 DEF Expire, HasDctx
  <2>3. Cleared'
    BY <1>12 DEF Expire, HasDctx
  <2>4. StreamOwnDeadline'
    BY <1>12 DEF Expire, HasDctx
  <2>5. QED
    BY <2>1, <2>2, <2>3, <2>4
<1>13. ASSUME NEW c \in Callers, Interrupt(c) PROVE P'
  <2>1. Exclusive'
    BY <1>13 DEF Interrupt
  <2>2. Armed'
    BY <1>13 DEF Interrupt
  <2>3. Cleared'
    BY <1>13 DEF Interrupt
  <2>4. StreamOwnDeadline'
    BY <1>13 DEF Interrupt
  <2>5. QED
    BY <2>1, <2>2, <2>3, <2>4
<1>14. CASE UNCHANGED vars
  BY <1>14 DEF vars
<1>15. QED
  BY <1>1, <1>2, <1>3, <1>4, <1>5, <1>6, <1>7, <1>8, <1>9, <1>10, <1>11,
     <1>12, <1>13, <1>14 DEF Next, Proceed

-----------------------------------------------------------------------------
\* For any number of callers, every reachable state satisfies the invariant.
THEOREM IOInductive == Spec => []IOInv
<1>1. Init => IOInv
  BY InitIOInv
<1>2. IOInv /\ [Next]_vars => IOInv'
  BY InvStep
<1>3. QED
  BY <1>1, <1>2, PTL DEF Spec

(***************************************************************************)
(* A stream operation (Encode, Decode) fails with a deadline only if its   *)
(* own context is done: it is never cut short by the AfterFunc of an       *)
(* earlier operation or of one that waits for the mutex.                   *)
(***************************************************************************)
THEOREM StreamsFailOnTheirOwn == Spec => []StreamOwnDeadline
<1>1. IOInv => StreamOwnDeadline
  BY DEF IOInv
<1>2. QED
  BY <1>1, IOInductive, PTL

(***************************************************************************)
(* When an operation of any of the four codecs has returned, its AfterFunc *)
(* is stopped or has ended: the wait on the sync.WaitGroup is enough.      *)
(***************************************************************************)
THEOREM OperationsEndClean == Spec => []NothingOutlives
<1>1. IOInv => NothingOutlives
  BY DEF IOInv, Armed, NothingOutlives
<1>2. QED
  BY <1>1, IOInductive, PTL
=============================================================================

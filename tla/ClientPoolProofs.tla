-------------------------- MODULE ClientPoolProofs --------------------------
(***************************************************************************)
(* What a ClientPool guarantees for any number of callers, connections and *)
(* retries and any size of the pool.                                       *)
(***************************************************************************)
EXTENDS ClientPool, FiniteSetTheorems, TLAPS

-----------------------------------------------------------------------------
(***************************************************************************)
(* The inductive invariant.                                                *)
(***************************************************************************)
Looking == {c \in Callers : pc[c] = "lookup"}

\* A caller holds a connection from Dial or FindIdle to the end of its call,
\* in a state that no other action hands out, and holds it alone.
Holding ==
    /\ \A c \in Callers : held[c] # None => pc[c] \in {"dial", "send", "await"}
    /\ \A c \in Callers :
          /\ pc[c] = "dial" => held[c] \in Conns /\ conn[held[c]] = "dialing"
          /\ pc[c] \in {"send", "await"} => held[c] \in Conns /\ conn[held[c]] = "used"
    /\ \A c, d \in Callers : (held[c] # None /\ held[c] = held[d]) => c = d

\* The tokens, and the room for the connections that need none.
Counted ==
    /\ IsFiniteSet(Looking)
    /\ tokens + Cardinality(Busy) + Cardinality(Looking) = MaxSize
    /\ Cardinality(Busy) + Cardinality(Idle) <= MaxSize

\* What an operation has sent and lost, by where it is.
Budget ==
    \A c \in Callers :
        /\ pc[c] # "done" => tries[c] < Attempts /\ result[c] = "none"
        /\ pc[c] \notin {"await", "done"} => sends[c] = tries[c]
        /\ pc[c] = "await" => sends[c] = tries[c] + 1
        /\ pc[c] = "done" => sends[c] \in {tries[c] - 1, tries[c], tries[c] + 1}
        /\ result[c] = "ok" => sends[c] = tries[c] + 1
        /\ result[c] = "exceeded" => sends[c] = Attempts /\ tries[c] = Attempts

\* How far Close is, and that it shuts the reaper out.
Shut ==
    /\ closed <=> closing # "open"
    /\ poolClosed <=> closing \in {"draining", "returned"}
    /\ mu <=> timer = "reaping"
    /\ closed => timer \in {"fired", "off"}
    /\ closing = "returned" => Live = {}

PoolInv ==
    /\ TypeOK
    /\ Holding
    /\ Counted
    /\ Budget
    /\ Shut
    /\ FailedNeverReused
    /\ ResetCondemns

-----------------------------------------------------------------------------
(***************************************************************************)
(* Counting.                                                               *)
(***************************************************************************)
ConnStates == {"none", "dialing", "used", "reaped", "idle", "destroying", "dropped"}
BusyStates == {"dialing", "used", "reaped", "destroying"}

\* The connections of the pool are finitely many.
LEMMA Finite ==
    /\ IsFiniteSet(Busy) /\ Cardinality(Busy) \in Nat
    /\ IsFiniteSet(Idle) /\ Cardinality(Idle) \in Nat
<1>1. Busy \in SUBSET Conns /\ Idle \in SUBSET Conns
  BY DEF Busy, Idle
<1>2. IsFiniteSet(Busy) /\ IsFiniteSet(Idle)
  BY <1>1, ConnsAssumption, FS_Subset
<1> QED
  BY <1>2, FS_CardinalityType

\* What a set of elements with some property counts when one element changes.
LEMMA CountOne ==
    ASSUME NEW S, NEW T, NEW x, IsFiniteSet(S), Cardinality(S) \in Nat,
           T = S \cup {x} \/ T = S \ {x}
    PROVE  /\ IsFiniteSet(T)
           /\ Cardinality(T) \in Nat
           /\ Cardinality(T) = IF x \in T
                                 THEN IF x \in S THEN Cardinality(S) ELSE Cardinality(S) + 1
                                 ELSE IF x \in S THEN Cardinality(S) - 1 ELSE Cardinality(S)
<1>1. CASE T = S \cup {x}
  <2>1. x \in T
    BY <1>1
  <2>2. IsFiniteSet(T) /\ Cardinality(T) = IF x \in S THEN Cardinality(S)
                                                      ELSE Cardinality(S) + 1
    BY <1>1, FS_AddElement
  <2> QED
    BY <2>1, <2>2
<1>2. CASE T = S \ {x}
  <2>1. x \notin T
    BY <1>2
  <2>2. IsFiniteSet(T) /\ Cardinality(T) = IF x \in S THEN Cardinality(S) - 1
                                                      ELSE Cardinality(S)
    BY <1>2, FS_RemoveElement
  <2>3. Cardinality(T) \in Nat
    BY <2>2, FS_CardinalityType
  <2> QED
    BY <2>1, <2>2, <2>3
<1> QED
  BY <1>1, <1>2

\* One connection changes its state.
LEMMA ConnMoves ==
    ASSUME TypeOK, NEW k \in Conns, NEW s \in ConnStates, conn' = [conn EXCEPT ![k] = s]
    PROVE  /\ Cardinality(Busy') \in Nat /\ Cardinality(Idle') \in Nat
           /\ Cardinality(Busy') =
                IF s \in BusyStates
                  THEN IF conn[k] \in BusyStates THEN Cardinality(Busy)
                                                 ELSE Cardinality(Busy) + 1
                  ELSE IF conn[k] \in BusyStates THEN Cardinality(Busy) - 1
                                                 ELSE Cardinality(Busy)
           /\ Cardinality(Idle') =
                IF s = "idle"
                  THEN IF conn[k] = "idle" THEN Cardinality(Idle) ELSE Cardinality(Idle) + 1
                  ELSE IF conn[k] = "idle" THEN Cardinality(Idle) - 1 ELSE Cardinality(Idle)
<1>1. /\ Busy' = Busy \cup {k} \/ Busy' = Busy \ {k}
      /\ k \in Busy' <=> s \in BusyStates
      /\ k \in Busy <=> conn[k] \in BusyStates
  BY DEF TypeOK, Busy, BusyStates
<1>2. /\ Idle' = Idle \cup {k} \/ Idle' = Idle \ {k}
      /\ k \in Idle' <=> s = "idle"
      /\ k \in Idle <=> conn[k] = "idle"
  BY DEF TypeOK, Idle
<1>3. /\ Cardinality(Busy') \in Nat
      /\ Cardinality(Busy') =
            IF k \in Busy'
              THEN IF k \in Busy THEN Cardinality(Busy) ELSE Cardinality(Busy) + 1
              ELSE IF k \in Busy THEN Cardinality(Busy) - 1 ELSE Cardinality(Busy)
  BY <1>1, Finite, CountOne
<1>4. /\ Cardinality(Idle') \in Nat
      /\ Cardinality(Idle') =
            IF k \in Idle'
              THEN IF k \in Idle THEN Cardinality(Idle) ELSE Cardinality(Idle) + 1
              ELSE IF k \in Idle THEN Cardinality(Idle) - 1 ELSE Cardinality(Idle)
  BY <1>2, Finite, CountOne
<1> QED
  BY <1>1, <1>2, <1>3, <1>4

\* One caller goes on.
LEMMA CallerMoves ==
    ASSUME TypeOK, IsFiniteSet(Looking), NEW c \in Callers, NEW p, pc' = [pc EXCEPT ![c] = p]
    PROVE  /\ IsFiniteSet(Looking')
           /\ Cardinality(Looking) \in Nat
           /\ Cardinality(Looking') =
                IF p = "lookup"
                  THEN IF pc[c] = "lookup" THEN Cardinality(Looking)
                                           ELSE Cardinality(Looking) + 1
                  ELSE IF pc[c] = "lookup" THEN Cardinality(Looking) - 1
                                           ELSE Cardinality(Looking)
<1>1. /\ Looking' = Looking \cup {c} \/ Looking' = Looking \ {c}
      /\ c \in Looking' <=> p = "lookup"
      /\ c \in Looking <=> pc[c] = "lookup"
  BY DEF TypeOK, Looking
<1>2. Cardinality(Looking) \in Nat
  BY FS_CardinalityType
<1>3. /\ IsFiniteSet(Looking')
      /\ Cardinality(Looking') =
            IF c \in Looking'
              THEN IF c \in Looking THEN Cardinality(Looking) ELSE Cardinality(Looking) + 1
              ELSE IF c \in Looking THEN Cardinality(Looking) - 1 ELSE Cardinality(Looking)
  BY <1>1, <1>2, CountOne
<1> QED
  BY <1>1, <1>2, <1>3

-----------------------------------------------------------------------------
(***************************************************************************)
(* What the steps have in common.                                          *)
(***************************************************************************)
\* An operation fails on its connection: releaseMaybeRetry.
Failing(c) ==
    \/ CallCancelled(c) \/ CallRejected(c)
    \/ \E error \in {"eof", "reset"} : CallBroken(c, error)

\* Whatever the error, the connection is destroyed and given up, and the
\* operation is over or begins its next attempt.
LEMMA FailShape ==
    ASSUME TypeOK, NEW c \in Callers, Failing(c)
    PROVE  /\ pc[c] \in {"send", "await"}
           /\ conn' = [conn EXCEPT ![held[c]] = "destroying"]
           /\ failed' = failed \cup {held[c]}
           /\ held' = [held EXCEPT ![c] = None]
           /\ \E p \in {"check", "done"} : pc' = [pc EXCEPT ![c] = p]
           /\ UNCHANGED <<ctx, sends, stale, marked, tokens, closeVars, idleVars>>
<1> USE DEF Fail, Destroy, Retry, Return
<1>1. CASE CallCancelled(c)
  BY <1>1 DEF CallCancelled
<1>2. CASE CallRejected(c)
  BY <1>2 DEF CallRejected
<1>3. ASSUME NEW error \in {"eof", "reset"}, CallBroken(c, error)
      PROVE  /\ pc[c] \in {"send", "await"}
             /\ conn' = [conn EXCEPT ![held[c]] = "destroying"]
             /\ failed' = failed \cup {held[c]}
             /\ held' = [held EXCEPT ![c] = None]
             /\ \E p \in {"check", "done"} : pc' = [pc EXCEPT ![c] = p]
             /\ UNCHANGED <<ctx, sends, stale, marked, tokens, closeVars, idleVars>>
  BY <1>3 DEF CallBroken
<1> QED
  BY <1>1, <1>2, <1>3 DEF Failing

\* Where the request of a failed operation was, by the error.
LEMMA FailBudget ==
    ASSUME TypeOK, NEW c \in Callers, Failing(c)
    PROVE  /\ tries' = [tries EXCEPT ![c] = @ + 1]
           /\ \/ /\ pc[c] = "await"
                 /\ pc' = [pc EXCEPT ![c] = "check"]
                 /\ tries[c] + 1 # Attempts
                 /\ UNCHANGED result
              \/ /\ pc[c] = "await"
                 /\ pc' = [pc EXCEPT ![c] = "done"]
                 /\ tries[c] + 1 = Attempts
                 /\ result' = [result EXCEPT ![c] = "exceeded"]
              \/ /\ pc' = [pc EXCEPT ![c] = "done"]
                 /\ \E r \in {"cancelled", "reset", "rejected"} :
                       result' = [result EXCEPT ![c] = r]
<1> USE DEF Fail, Retry, Return
<1>1. CASE CallCancelled(c)
  BY <1>1 DEF CallCancelled
<1>2. CASE CallRejected(c)
  BY <1>2 DEF CallRejected
<1>3. CASE CallBroken(c, "eof")
  BY <1>3 DEF CallBroken
<1>4. CASE CallBroken(c, "reset")
  BY <1>4 DEF CallBroken
<1> QED
  BY <1>1, <1>2, <1>3, <1>4 DEF Failing

-----------------------------------------------------------------------------
\* The initial states satisfy the invariant.
LEMMA InitPoolInv == Init => PoolInv
<1> SUFFICES ASSUME Init PROVE PoolInv
  OBVIOUS
<1>0. Attempts \in Nat /\ Attempts > 0
  BY RetryAssumption DEF Attempts
<1>1. conn \in [Conns -> {"none", "idle"}] /\ \E x : Idle \subseteq {x}
  BY DEF Init, Idle
<1>2. TypeOK
  <2>1. /\ pc \in [Callers -> {"check", "acquire", "lookup", "dial", "send", "await", "done"}]
        /\ held \in [Callers -> Conns \cup {None}]
        /\ result \in [Callers -> {"none", "ok", "cancelled", "closed", "dial",
                                   "exceeded", "reset", "rejected"}]
    BY DEF Init
  <2>2. tries \in [Callers -> 0 .. Attempts] /\ sends \in [Callers -> 0 .. Attempts]
    BY <1>0 DEF Init
  <2>3. tokens \in 0 .. MaxSize
    BY SizeAssumption DEF Init
  <2>4. conn \in [Conns -> {"none", "dialing", "used", "reaped", "idle",
                            "destroying", "dropped"}]
    BY <1>1
  <2> QED
    BY <2>1, <2>2, <2>3, <2>4, Zenon DEF Init, TypeOK
<1>3. Holding
  BY DEF Init, Holding
<1>4. Counted
  <2>1. Busy = {} /\ Looking = {}
    BY <1>1 DEF Init, Busy, Looking
  <2>2. Cardinality(Idle) <= 1
    <3> PICK x : Idle \subseteq {x}
      BY <1>1
    <3>1. IsFiniteSet({x}) /\ Cardinality({x}) = 1
      BY FS_Singleton
    <3> QED
      BY <3>1, FS_Subset
  <2>3. tokens = MaxSize /\ MaxSize \in Nat /\ MaxSize > 0
    BY SizeAssumption DEF Init
  <2> QED
    BY <2>1, <2>2, <2>3, Finite, FS_EmptySet DEF Counted
<1>5. Budget
  BY <1>0 DEF Init, Budget
<1>6. Shut /\ FailedNeverReused /\ ResetCondemns
  BY DEF Init, Shut, FailedNeverReused, ResetCondemns
<1> QED
  BY <1>2, <1>3, <1>4, <1>5, <1>6 DEF PoolInv

-----------------------------------------------------------------------------
(***************************************************************************)
(* Every step preserves each part of the invariant.                        *)
(***************************************************************************)
\* Who holds what.
LEMMA HoldingStep ==
    ASSUME TypeOK, Holding, [Next]_vars
    PROVE  Holding'
<1> USE DEF TypeOK, Holding
<1> USE ConnsAssumption
\* Steps that touch neither callers nor the connections they hold.
<1>1. ASSUME UNCHANGED <<pc, held>>,
             \A k \in Conns : conn[k] \in {"dialing", "used"} => conn'[k] = conn[k]
      PROVE  Holding'
  BY <1>1
<1>2. CASE \/ TimerFires \/ Reaping \/ Reset \/ Closing \/ Terminated \/ UNCHANGED vars
           \/ \E c \in Callers : CtxDone(c)
           \/ \E k \in Conns : PeerCloses(k) \/ Destroyed(k) \/ Dropped(k)
  <2>1. UNCHANGED <<pc, held>>
    BY <1>2 DEF TimerFires, Reaping, ReapClosed, ReapEnd, ReapStart, ReapExpired, ReapFresh,
       Reset, Closing, CloseMark, ClosePool, CloseReturns, Terminated, vars, callVars,
       CtxDone, PeerCloses, Destroyed, Dropped
  <2>2. \A k \in Conns : conn[k] \in {"dialing", "used"} => conn'[k] = conn[k]
    <3>1. CASE \/ TimerFires \/ ReapClosed \/ ReapEnd \/ CloseMark \/ CloseReturns
               \/ Terminated \/ UNCHANGED vars
               \/ \E c \in Callers : CtxDone(c)
               \/ \E k \in Conns : PeerCloses(k)
      BY <3>1 DEF TimerFires, ReapClosed, ReapEnd, CloseMark, CloseReturns, Terminated,
         vars, connVars, CtxDone, PeerCloses
    <3>2. CASE Reset \/ ClosePool
      BY <3>2 DEF Reset, ClosePool, Idle
    <3>3. ASSUME NEW taken \in SUBSET Conns, ReapStart(taken)
          PROVE  \A j \in Conns : conn[j] \in {"dialing", "used"} => conn'[j] = conn[j]
      <4>1. /\ taken \subseteq Idle
            /\ conn' = [j \in Conns |-> IF j \in taken THEN "reaped" ELSE conn[j]]
        BY <3>3 DEF ReapStart
      <4> QED
        BY <4>1 DEF Idle
    <3>4. ASSUME NEW k \in Conns, ReapExpired(k) \/ ReapFresh(k) \/ Destroyed(k) \/ Dropped(k)
          PROVE  \A j \in Conns : conn[j] \in {"dialing", "used"} => conn'[j] = conn[j]
      BY <3>4 DEF ReapExpired, ReapFresh, Destroyed, Dropped, Release, Destroy, Forget
    <3> QED
      BY <1>2, <3>1, <3>2, <3>4, <3>3 DEF Reaping, Closing
  <2> QED
    BY <1>1, <2>1, <2>2
\* A caller that holds nothing goes on without a connection.
<1>3. ASSUME NEW c \in Callers, Check(c) \/ WaitCancelled(c) \/ TakeToken(c) \/ FindClosed(c)
      PROVE  Holding'
  BY <1>3 DEF Check, WaitCancelled, TakeToken, FindClosed, Return, connVars
<1>4. ASSUME NEW c \in Callers, NEW k \in Conns, FindIdle(c, k) PROVE Holding'
  BY <1>4 DEF FindIdle, Idle
<1>5. ASSUME NEW c \in Callers, NEW k \in Conns, Dial(c, k) PROVE Holding'
  BY <1>5 DEF Dial
<1>6. ASSUME NEW c \in Callers, DialAbandoned(c) PROVE Holding'
  BY <1>6 DEF DialAbandoned, Return, connVars
<1>7. ASSUME NEW k \in Conns, DialOK(k) PROVE Holding'
  <2>1. CASE Waiters(k) # {}
    BY <1>7, <2>1 DEF DialOK, Waiters
  <2>2. CASE Waiters(k) = {}
    BY <1>7, <2>2 DEF DialOK, Waiters, Release
  <2> QED
    BY <2>1, <2>2
<1>8. ASSUME NEW k \in Conns, DialFails(k) PROVE Holding'
  <2>0. conn' = [conn EXCEPT ![k] = "none"] /\ conn[k] = "dialing"
    BY <1>8 DEF DialFails, Forget
  <2>1. CASE Waiters(k) # {}
    <3> PICK c \in Waiters(k) : Return(c, "dial")
      BY <1>8, <2>1 DEF DialFails
    <3> QED
      BY <2>0 DEF Waiters, Return
  <2>2. CASE Waiters(k) = {}
    BY <1>8, <2>0, <2>2 DEF DialFails, Waiters
  <2> QED
    BY <2>1, <2>2
<1>9. ASSUME NEW c \in Callers, Send(c) PROVE Holding'
  BY <1>9 DEF Send, connVars
<1>10. ASSUME NEW c \in Callers, Answered(c) PROVE Holding'
  BY <1>10 DEF Answered, Release, Return
<1>11. ASSUME NEW c \in Callers, Failing(c) PROVE Holding'
  <2> PICK p \in {"check", "done"} : pc' = [pc EXCEPT ![c] = p]
    BY <1>11, FailShape
  <2>1. /\ pc[c] \in {"send", "await"}
        /\ conn' = [conn EXCEPT ![held[c]] = "destroying"]
        /\ held' = [held EXCEPT ![c] = None]
    BY <1>11, FailShape
  <2> QED
    BY <2>1
<1> QED
  BY <1>2, <1>3, <1>4, <1>5, <1>6, <1>7, <1>8, <1>9, <1>10, <1>11
  DEF Next, Acquiring, Calling, Background, Failing

\* Tokens and room.
LEMMA CountStep ==
    ASSUME TypeOK, Holding, Counted, [Next]_vars
    PROVE  Counted' /\ tokens' \in 0 .. MaxSize
<1> DEFINE Goal == Counted' /\ tokens' \in 0 .. MaxSize
<1>0. /\ tokens \in Nat /\ MaxSize \in Nat
      /\ IsFiniteSet(Looking) /\ Cardinality(Looking) \in Nat
      /\ Cardinality(Busy) \in Nat /\ Cardinality(Idle) \in Nat
      /\ tokens + Cardinality(Busy) + Cardinality(Looking) = MaxSize
      /\ Cardinality(Busy) + Cardinality(Idle) <= MaxSize
  BY SizeAssumption, Finite, FS_CardinalityType DEF TypeOK, Counted
\* A step is shown right by its sums.
<1>a. ASSUME IsFiniteSet(Looking'), tokens' \in Nat,
             tokens' + Cardinality(Busy') + Cardinality(Looking') = MaxSize,
             Cardinality(Busy') + Cardinality(Idle') <= MaxSize,
             Cardinality(Busy') \in Nat, Cardinality(Looking') \in Nat
      PROVE  Goal
  BY <1>0, <1>a DEF Counted
<1>b. ASSUME pc' = pc PROVE IsFiniteSet(Looking') /\ Cardinality(Looking') = Cardinality(Looking)
  <2>1. Looking' = Looking
    BY <1>b DEF Looking
  <2> QED
    BY <1>0, <2>1
<1>c. ASSUME conn' = conn PROVE /\ Cardinality(Busy') = Cardinality(Busy)
                                /\ Cardinality(Idle') = Cardinality(Idle)
  <2>1. Busy' = Busy /\ Idle' = Idle
    BY <1>c DEF Busy, Idle
  <2> QED
    BY <2>1
\* Nothing that counts.
<1>1. CASE \/ TimerFires \/ ReapClosed \/ ReapEnd \/ CloseMark \/ CloseReturns
           \/ Terminated \/ UNCHANGED vars
           \/ \E c \in Callers : CtxDone(c)
           \/ \E k \in Conns : PeerCloses(k)
  <2>1. UNCHANGED <<pc, conn, tokens>>
    BY <1>1 DEF TimerFires, ReapClosed, ReapEnd, CloseMark, CloseReturns, Terminated,
       vars, callVars, connVars, CtxDone, PeerCloses
  <2> QED
    BY <1>0, <1>a, <1>b, <1>c, <2>1
\* Idle connections are dropped.
<1>2. CASE Reset \/ ClosePool
  <2>1. UNCHANGED <<pc, tokens>>
    BY <1>2 DEF Reset, ClosePool, callVars
  <2>2. Busy' = Busy /\ Idle' = {}
    BY <1>2 DEF Reset, ClosePool, Busy, Idle, TypeOK
  <2>3. Cardinality(Busy') = Cardinality(Busy) /\ Cardinality(Idle') = 0
    BY <2>2, FS_EmptySet
  <2> QED
    BY <1>0, <1>a, <1>b, <2>1, <2>3
\* The reaper takes tokens with the connections.
<1>3. ASSUME NEW taken \in SUBSET Conns, ReapStart(taken) PROVE Goal
  <2>1. /\ UNCHANGED pc
        /\ taken \subseteq Idle
        /\ conn' = [j \in Conns |-> IF j \in taken THEN "reaped" ELSE conn[j]]
        /\ Cardinality(taken) = IF Cardinality(Idle) < tokens THEN Cardinality(Idle) ELSE tokens
        /\ tokens' = tokens - Cardinality(taken)
    BY <1>3 DEF ReapStart, callVars
  <2>2. /\ Busy' = Busy \cup taken
        /\ Busy \cap taken = {}
        /\ Idle' = Idle \ taken
        /\ Idle \cap taken = taken
    BY <2>1 DEF Busy, Idle, TypeOK
  <2>3. IsFiniteSet(taken) /\ Cardinality(taken) \in Nat
    BY <2>1, Finite, FS_Subset, FS_CardinalityType
  <2>4. Cardinality(Busy') = Cardinality(Busy) + Cardinality(taken)
    <3>1. Cardinality(Busy') = Cardinality(Busy) + Cardinality(taken) - Cardinality({})
      BY <2>2, <2>3, Finite, FS_Union
    <3> QED
      BY <1>0, <2>3, <3>1, FS_EmptySet
  <2>5. Cardinality(Idle') = Cardinality(Idle) - Cardinality(taken)
    BY <2>2, Finite, FS_Difference
  <2> QED
    BY <1>0, <1>a, <1>b, <2>1, <2>3, <2>4, <2>5
\* A connection changes hands or state.
<1>4. ASSUME NEW k \in Conns, NEW s \in ConnStates, conn' = [conn EXCEPT ![k] = s], UNCHANGED pc,
             \/ conn[k] \in BusyStates /\ s \in BusyStates /\ tokens' = tokens
             \/ /\ conn[k] \in BusyStates /\ s \in {"idle", "dropped", "none"}
                /\ tokens' = tokens + 1
             \/ conn[k] = "dropped" /\ s = "none" /\ tokens' = tokens
      PROVE  Goal
  <2>0. Cardinality(Busy') \in Nat /\ Cardinality(Idle') \in Nat /\ tokens' \in Nat
    <3>1. tokens' \in Nat
      BY <1>0, <1>4
    <3>2. Cardinality(Busy') \in Nat /\ Cardinality(Idle') \in Nat
      BY <1>4, ConnMoves
    <3> QED
      BY <3>1, <3>2
  <2>1. CASE s \in BusyStates /\ conn[k] \in BusyStates /\ tokens' = tokens
    <3>1. Cardinality(Busy') = Cardinality(Busy) /\ Cardinality(Idle') = Cardinality(Idle)
      BY <1>4, <2>1, ConnMoves DEF BusyStates
    <3> QED
      BY <1>0, <1>a, <1>b, <1>4, <2>0, <2>1, <3>1
  <2>2. CASE /\ conn[k] \in BusyStates /\ s \in {"idle", "dropped", "none"}
             /\ tokens' = tokens + 1
    <3>1. /\ Cardinality(Busy') = Cardinality(Busy) - 1
          /\ Cardinality(Idle') \in {Cardinality(Idle), Cardinality(Idle) + 1}
      BY <1>4, <2>2, ConnMoves DEF BusyStates
    <3> QED
      BY <1>0, <1>a, <1>b, <1>4, <2>0, <2>2, <3>1
  <2>3. CASE conn[k] = "dropped" /\ s = "none" /\ tokens' = tokens
    <3>1. Cardinality(Busy') = Cardinality(Busy) /\ Cardinality(Idle') = Cardinality(Idle)
      BY <1>4, <2>3, ConnMoves DEF BusyStates
    <3> QED
      BY <1>0, <1>a, <1>b, <1>4, <2>0, <2>3, <3>1
  <2> QED
    BY <1>4, <2>1, <2>2, <2>3
<1>5. ASSUME NEW k \in Conns, ReapExpired(k) \/ ReapFresh(k) \/ Destroyed(k) \/ Dropped(k)
      PROVE  Goal
  <2>1. UNCHANGED pc
    BY <1>5 DEF ReapExpired, ReapFresh, Destroyed, Dropped, callVars
  <2>2. CASE ReapExpired(k)
    BY <1>4, <2>1, <2>2 DEF ReapExpired, Destroy, ConnStates, BusyStates
  <2>3. CASE ReapFresh(k)
    BY <1>4, <2>1, <2>3 DEF ReapFresh, Release, ConnStates, BusyStates
  <2>4. CASE Destroyed(k)
    BY <1>4, <2>1, <2>4 DEF Destroyed, Forget, ConnStates, BusyStates
  <2>5. CASE Dropped(k)
    BY <1>4, <2>1, <2>5 DEF Dropped, Forget, ConnStates, BusyStates
  <2> QED
    BY <1>5, <2>2, <2>3, <2>4, <2>5
\* A caller goes on without a change to the connections.
<1>6. ASSUME NEW c \in Callers, Check(c) \/ WaitCancelled(c) \/ DialAbandoned(c) \/ Send(c)
      PROVE  Goal
  <2>1. /\ UNCHANGED <<conn, tokens>>
        /\ pc[c] # "lookup"
        /\ \E p \in {"acquire", "await", "done"} : pc' = [pc EXCEPT ![c] = p]
    BY <1>6 DEF Check, WaitCancelled, DialAbandoned, Send, Return, connVars
  <2>2. IsFiniteSet(Looking') /\ Cardinality(Looking') = Cardinality(Looking)
    BY <1>0, <2>1, CallerMoves
  <2> QED
    BY <1>0, <1>a, <1>c, <2>1, <2>2
<1>7. ASSUME NEW c \in Callers, TakeToken(c) PROVE Goal
  <2>1. /\ UNCHANGED conn
        /\ pc[c] = "acquire" /\ pc' = [pc EXCEPT ![c] = "lookup"]
        /\ tokens > 0 /\ tokens' = tokens - 1
    BY <1>7 DEF TakeToken
  <2>2. IsFiniteSet(Looking') /\ Cardinality(Looking') = Cardinality(Looking) + 1
    BY <1>0, <2>1, CallerMoves
  <2> QED
    BY <1>0, <1>a, <1>c, <2>1, <2>2
<1>8. ASSUME NEW c \in Callers, FindClosed(c) PROVE Goal
  <2>1. /\ UNCHANGED conn
        /\ pc[c] = "lookup" /\ pc' = [pc EXCEPT ![c] = "done"]
        /\ tokens' = tokens + 1
    BY <1>8 DEF FindClosed, Return
  <2>2. /\ IsFiniteSet(Looking') /\ Cardinality(Looking') = Cardinality(Looking) - 1
        /\ Cardinality(Looking') \in Nat
    BY <1>0, <2>1, CallerMoves, FS_CardinalityType
  <2> QED
    BY <1>0, <1>a, <1>c, <2>1, <2>2
\* The token goes from the caller to the connection.
<1>9. ASSUME NEW c \in Callers, NEW k \in Conns, FindIdle(c, k) \/ Dial(c, k) PROVE Goal
  <2>1. /\ UNCHANGED tokens
        /\ pc[c] = "lookup"
        /\ \E p \in {"send", "dial"} : pc' = [pc EXCEPT ![c] = p]
    BY <1>9 DEF FindIdle, Dial
  <2>2. /\ IsFiniteSet(Looking') /\ Cardinality(Looking') = Cardinality(Looking) - 1
        /\ Cardinality(Looking') \in Nat
    BY <1>0, <2>1, CallerMoves, FS_CardinalityType
  <2>3. CASE FindIdle(c, k)
    <3>1. conn[k] = "idle" /\ conn' = [conn EXCEPT ![k] = "used"]
      BY <2>3 DEF FindIdle, Idle
    <3>2. /\ Cardinality(Busy') = Cardinality(Busy) + 1
          /\ Cardinality(Idle') = Cardinality(Idle) - 1
      BY <3>1, ConnMoves DEF ConnStates, BusyStates
    <3> QED
      BY <1>0, <1>a, <2>1, <2>2, <3>2
  <2>4. CASE Dial(c, k)
    <3>1. conn[k] = "none" /\ conn' = [conn EXCEPT ![k] = "dialing"] /\ Idle = {}
      BY <2>4 DEF Dial
    <3>2. /\ Cardinality(Busy') = Cardinality(Busy) + 1
          /\ Cardinality(Idle') = Cardinality(Idle)
      BY <3>1, ConnMoves DEF ConnStates, BusyStates
    <3>3. Cardinality(Idle) = 0
      BY <3>1, FS_EmptySet
    <3> QED
      BY <1>0, <1>a, <2>1, <2>2, <3>2, <3>3
  <2> QED
    BY <1>9, <2>3, <2>4
\* The end of a dial.
<1>10. ASSUME NEW k \in Conns, DialOK(k) PROVE Goal
  <2>1. CASE Waiters(k) = {}
    BY <1>4, <1>10, <2>1 DEF DialOK, Release, ConnStates, BusyStates
  <2>2. CASE Waiters(k) # {}
    <3>1. /\ conn[k] = "dialing" /\ conn' = [conn EXCEPT ![k] = "used"] /\ UNCHANGED tokens
          /\ pc' = [c \in Callers |-> IF c \in Waiters(k) THEN "send" ELSE pc[c]]
      BY <1>10, <2>2 DEF DialOK
    <3>2. Looking' = Looking
      BY <3>1 DEF Looking, Waiters, TypeOK
    <3>3. /\ Cardinality(Busy') = Cardinality(Busy)
          /\ Cardinality(Idle') = Cardinality(Idle)
      BY <3>1, ConnMoves DEF ConnStates, BusyStates
    <3> QED
      BY <1>0, <1>a, <3>1, <3>2, <3>3
  <2> QED
    BY <2>1, <2>2
<1>11. ASSUME NEW k \in Conns, DialFails(k) PROVE Goal
  <2>1. conn[k] = "dialing" /\ conn' = [conn EXCEPT ![k] = "none"] /\ tokens' = tokens + 1
    BY <1>11 DEF DialFails, Forget
  <2>2. CASE Waiters(k) = {}
    BY <1>4, <1>11, <2>1, <2>2 DEF DialFails, ConnStates, BusyStates
  <2>3. CASE Waiters(k) # {}
    <3> PICK c \in Callers : c \in Waiters(k) /\ Return(c, "dial")
      BY <1>11, <2>3 DEF DialFails, Waiters
    <3>1. pc[c] = "dial" /\ pc' = [pc EXCEPT ![c] = "done"]
      BY DEF Return, Waiters
    <3>2. Looking' = Looking
      BY <3>1 DEF Looking, TypeOK
    <3>3. /\ Cardinality(Busy') = Cardinality(Busy) - 1 /\ Cardinality(Busy') \in Nat
          /\ Cardinality(Idle') = Cardinality(Idle)
      BY <2>1, ConnMoves DEF ConnStates, BusyStates
    <3> QED
      BY <1>0, <1>a, <2>1, <3>2, <3>3
  <2> QED
    BY <2>2, <2>3
\* The end of a call.
<1>12. ASSUME NEW c \in Callers, Answered(c) \/ Failing(c) PROVE Goal
  <2>1. /\ pc[c] \in {"send", "await"}
        /\ \E p \in {"check", "done"} : pc' = [pc EXCEPT ![c] = p]
    BY <1>12, FailShape DEF Answered, Return
  <2>2. held[c] \in Conns /\ conn[held[c]] = "used"
    BY <2>1 DEF Holding
  <2>3. IsFiniteSet(Looking') /\ Cardinality(Looking') = Cardinality(Looking)
    BY <1>0, <2>1, CallerMoves
  <2>4. CASE Answered(c)
    <3>1. /\ \E s \in {"idle", "dropped"} : conn' = [conn EXCEPT ![held[c]] = s]
          /\ tokens' = tokens + 1
      BY <2>4 DEF Answered, Release
    <3>2. /\ Cardinality(Busy') = Cardinality(Busy) - 1 /\ Cardinality(Busy') \in Nat
          /\ Cardinality(Idle') \in {Cardinality(Idle), Cardinality(Idle) + 1}
      BY <2>2, <3>1, ConnMoves DEF ConnStates, BusyStates
    <3> QED
      BY <1>0, <1>a, <2>3, <3>1, <3>2
  <2>5. CASE Failing(c)
    <3>1. conn' = [conn EXCEPT ![held[c]] = "destroying"] /\ UNCHANGED tokens
      BY <2>5, FailShape
    <3>2. /\ Cardinality(Busy') = Cardinality(Busy)
          /\ Cardinality(Idle') = Cardinality(Idle)
      BY <2>2, <3>1, ConnMoves DEF ConnStates, BusyStates
    <3> QED
      BY <1>0, <1>a, <2>3, <3>1, <3>2
  <2> QED
    BY <1>12, <2>4, <2>5
<1> QED
  BY <1>1, <1>2, <1>3, <1>5, <1>6, <1>7, <1>8, <1>9, <1>10, <1>11, <1>12
  DEF Next, Acquiring, Calling, Background, Reaping, Closing, Failing

\* Attempts and sends.
LEMMA BudgetStep ==
    ASSUME TypeOK, Budget, [Next]_vars
    PROVE  /\ Budget'
           /\ tries' \in [Callers -> 0 .. Attempts]
           /\ sends' \in [Callers -> 0 .. Attempts]
<1> DEFINE Goal == /\ Budget'
                   /\ tries' \in [Callers -> 0 .. Attempts]
                   /\ sends' \in [Callers -> 0 .. Attempts]
<1>0. Attempts \in Nat
  BY RetryAssumption DEF Attempts
<1> USE <1>0 DEF TypeOK, Budget
<1>1. CASE \/ TimerFires \/ Reaping \/ Reset \/ Closing \/ Terminated \/ UNCHANGED vars
           \/ \E c \in Callers : CtxDone(c)
           \/ \E k \in Conns : PeerCloses(k) \/ Destroyed(k) \/ Dropped(k)
  <2>1. UNCHANGED <<pc, tries, sends, result>>
    BY <1>1 DEF TimerFires, Reaping, ReapClosed, ReapEnd, ReapStart, ReapExpired, ReapFresh,
       Reset, Closing, CloseMark, ClosePool, CloseReturns, Terminated, vars, callVars,
       CtxDone, PeerCloses, Destroyed, Dropped
  <2> QED
    BY <2>1
\* The caller goes on with nothing sent or lost.
<1>2. ASSUME NEW c \in Callers, UNCHANGED <<tries, sends>>, pc[c] \notin {"await", "done"},
             \/ /\ UNCHANGED result
                /\ \E p \in {"acquire", "lookup", "send", "dial"} : pc' = [pc EXCEPT ![c] = p]
             \/ /\ pc' = [pc EXCEPT ![c] = "done"]
                /\ \E r \in {"cancelled", "closed", "dial"} : result' = [result EXCEPT ![c] = r]
      PROVE  Goal
  BY <1>2
<1>3. ASSUME NEW c \in Callers, Acquiring(c) \/ Check(c) PROVE Goal
  <2>1. UNCHANGED <<tries, sends>> /\ pc[c] \notin {"await", "done"}
    BY <1>3 DEF Acquiring, WaitCancelled, TakeToken, FindClosed, DialAbandoned, FindIdle,
       Dial, Check
  <2>2. \/ /\ UNCHANGED result
           /\ \E p \in {"acquire", "lookup", "send", "dial"} : pc' = [pc EXCEPT ![c] = p]
        \/ /\ pc' = [pc EXCEPT ![c] = "done"]
           /\ \E r \in {"cancelled", "closed", "dial"} : result' = [result EXCEPT ![c] = r]
    <3>1. CASE WaitCancelled(c) \/ FindClosed(c) \/ DialAbandoned(c)
      BY <3>1 DEF WaitCancelled, FindClosed, DialAbandoned, Return
    <3>2. CASE TakeToken(c) \/ \E k \in Conns : FindIdle(c, k) \/ Dial(c, k)
      BY <3>2 DEF TakeToken, FindIdle, Dial
    <3>3. CASE Check(c)
      BY <3>3 DEF Check, Return
    <3> QED
      BY <1>3, <3>1, <3>2, <3>3 DEF Acquiring
  <2> QED
    BY <1>2, <2>1, <2>2
<1>4. ASSUME NEW k \in Conns, DialOK(k) PROVE Goal
  <2>1. UNCHANGED <<tries, sends, result>>
    BY <1>4 DEF DialOK
  <2>2. \A c \in Callers : pc'[c] = pc[c] \/ (pc[c] = "dial" /\ pc'[c] = "send")
    <3>1. \/ UNCHANGED pc
          \/ pc' = [c \in Callers |-> IF c \in Waiters(k) THEN "send" ELSE pc[c]]
      BY <1>4 DEF DialOK
    <3> QED
      BY <3>1 DEF Waiters
  <2> QED
    BY <2>1, <2>2
<1>5. ASSUME NEW k \in Conns, DialFails(k) PROVE Goal
  <2>1. CASE Waiters(k) = {}
    BY <1>5, <2>1 DEF DialFails
  <2>2. CASE Waiters(k) # {}
    <3> PICK c \in Callers : c \in Waiters(k) /\ Return(c, "dial")
      BY <1>5, <2>2 DEF DialFails, Waiters
    <3> QED
      BY <1>2, <1>5 DEF DialFails, Waiters, Return
  <2> QED
    BY <2>1, <2>2
<1>6. ASSUME NEW c \in Callers, Send(c) PROVE Goal
  BY <1>6 DEF Send
<1>7. ASSUME NEW c \in Callers, Answered(c) PROVE Goal
  BY <1>7 DEF Answered, Return
<1>8. ASSUME NEW c \in Callers, Failing(c) PROVE Goal
  <2>1. pc[c] \in {"send", "await"} /\ UNCHANGED sends /\ tries' = [tries EXCEPT ![c] = @ + 1]
    BY <1>8, FailShape, FailBudget
  <2>2. CASE /\ pc[c] = "await"
             /\ pc' = [pc EXCEPT ![c] = "check"]
             /\ tries[c] + 1 # Attempts
             /\ UNCHANGED result
    BY <2>1, <2>2
  <2>3. CASE /\ pc[c] = "await"
             /\ pc' = [pc EXCEPT ![c] = "done"]
             /\ tries[c] + 1 = Attempts
             /\ result' = [result EXCEPT ![c] = "exceeded"]
    BY <2>1, <2>3
  <2>4. CASE /\ pc' = [pc EXCEPT ![c] = "done"]
             /\ \E r \in {"cancelled", "reset", "rejected"} : result' = [result EXCEPT ![c] = r]
    BY <2>1, <2>4
  <2> QED
    BY <1>8, <2>2, <2>3, <2>4, FailBudget
<1> QED
  BY <1>1, <1>3, <1>4, <1>5, <1>6, <1>7, <1>8 DEF Next, Calling, Background, Failing

\* Close and the reaper.
LEMMA ShutStep ==
    ASSUME TypeOK, Holding, Shut, [Next]_vars
    PROVE  Shut'
<1> USE DEF TypeOK, Shut
<1>1. CASE TimerFires \/ ReapClosed \/ ReapEnd \/ CloseMark
  BY <1>1 DEF TimerFires, ReapClosed, ReapEnd, CloseMark, connVars, closeVars, Live
<1>2. ASSUME NEW taken \in SUBSET Conns, ReapStart(taken) PROVE Shut'
  BY <1>2 DEF ReapStart, closeVars
<1>3. CASE ClosePool \/ CloseReturns
  BY <1>3 DEF ClosePool, CloseReturns, connVars, idleVars, Live
\* Other steps leave Close and the reaper alone, and start no connection in a
\* closed pool.
<1>4. ASSUME UNCHANGED <<closeVars, idleVars>>,
             \A k \in Conns : (conn[k] = "none" /\ conn'[k] # "none") => ~poolClosed
      PROVE  Shut'
  BY <1>4 DEF closeVars, idleVars, Live
<1>5. CASE Reset \/ Terminated \/ UNCHANGED vars
  BY <1>4, <1>5 DEF Reset, Terminated, vars, connVars, Idle
<1>6. ASSUME NEW k \in Conns,
             \/ ReapExpired(k) \/ ReapFresh(k) \/ PeerCloses(k) \/ Background(k)
      PROVE  Shut'
  <2>1. UNCHANGED <<closeVars, idleVars>>
    BY <1>6 DEF ReapExpired, ReapFresh, PeerCloses, Background, DialOK, DialFails, Destroyed,
       Dropped
  <2>2. \A j \in Conns : conn[j] = "none" => conn'[j] = "none"
    BY <1>6 DEF ReapExpired, ReapFresh, PeerCloses, Background, DialOK, DialFails, Destroyed,
       Dropped, Release, Destroy, Forget
  <2> QED
    BY <1>4, <2>1, <2>2
<1>7. ASSUME NEW c \in Callers, NEW k \in Conns, FindIdle(c, k) \/ Dial(c, k) PROVE Shut'
  BY <1>4, <1>7 DEF FindIdle, Dial
<1>8. ASSUME NEW c \in Callers,
             \/ CtxDone(c) \/ Check(c) \/ Send(c)
             \/ WaitCancelled(c) \/ TakeToken(c) \/ FindClosed(c) \/ DialAbandoned(c)
      PROVE  Shut'
  BY <1>4, <1>8 DEF CtxDone, Check, Send, WaitCancelled, TakeToken, FindClosed,
     DialAbandoned, connVars
<1>9. ASSUME NEW c \in Callers, Answered(c) \/ Failing(c) PROVE Shut'
  <2>1. held[c] \in Conns /\ conn[held[c]] = "used"
    BY <1>9, FailShape DEF Answered, Holding
  <2>2. UNCHANGED <<closeVars, idleVars>>
    BY <1>9, FailShape DEF Answered
  <2>3. \E s : conn' = [conn EXCEPT ![held[c]] = s]
    BY <1>9, FailShape DEF Answered, Release
  <2> QED
    BY <1>4, <2>1, <2>2, <2>3
<1> QED
  BY <1>1, <1>2, <1>3, <1>5, <1>6, <1>7, <1>8, <1>9
  DEF Next, Acquiring, Calling, Reaping, Closing, Failing

\* Failed and condemned connections.
LEMMA CondemnedStep ==
    ASSUME TypeOK, Holding, FailedNeverReused, ResetCondemns, [Next]_vars
    PROVE  FailedNeverReused' /\ ResetCondemns'
<1> DEFINE Goal == FailedNeverReused' /\ ResetCondemns'
<1> USE DEF TypeOK, FailedNeverReused, ResetCondemns, Idle
\* Steps that make no connection idle and move none that is being destroyed.
<1>1. ASSUME UNCHANGED <<failed, marked>>,
             \A k \in Conns : /\ conn[k] = "destroying" => conn'[k] = "destroying"
                              /\ conn'[k] = "idle" => conn[k] = "idle" \/ k \notin marked
      PROVE  Goal
  BY <1>1
<1>2. CASE \/ TimerFires \/ ReapClosed \/ ReapEnd \/ CloseMark \/ CloseReturns
           \/ Terminated \/ UNCHANGED vars
           \/ \E c \in Callers : CtxDone(c)
           \/ \E k \in Conns : PeerCloses(k)
  <2>1. UNCHANGED <<conn, failed, marked>>
    BY <1>2 DEF TimerFires, ReapClosed, ReapEnd, CloseMark, CloseReturns, Terminated,
       vars, connVars, CtxDone, PeerCloses
  <2> QED
    BY <1>1, <2>1
<1>3. CASE ClosePool
  BY <1>1, <1>3 DEF ClosePool
<1>4. CASE Reset
  BY <1>4 DEF Reset, Busy
<1>5. ASSUME NEW taken \in SUBSET Conns, ReapStart(taken) PROVE Goal
  <2>1. /\ UNCHANGED <<failed, marked>>
        /\ taken \subseteq Idle
        /\ conn' = [j \in Conns |-> IF j \in taken THEN "reaped" ELSE conn[j]]
    BY <1>5 DEF ReapStart
  <2> QED
    BY <1>1, <2>1
<1>6. ASSUME NEW k \in Conns, ReapExpired(k) \/ ReapFresh(k) PROVE Goal
  BY <1>1, <1>6 DEF ReapExpired, ReapFresh, Destroy, Release
<1>7. ASSUME NEW k \in Conns, Destroyed(k) \/ Dropped(k) \/ DialFails(k) PROVE Goal
  BY <1>7 DEF Destroyed, Dropped, DialFails, Forget
<1>8. ASSUME NEW k \in Conns, DialOK(k) PROVE Goal
  BY <1>1, <1>8 DEF DialOK, Release
<1>9. ASSUME NEW c \in Callers,
             \/ Check(c) \/ Send(c)
             \/ WaitCancelled(c) \/ TakeToken(c) \/ FindClosed(c) \/ DialAbandoned(c)
      PROVE  Goal
  BY <1>1, <1>9 DEF Check, Send, WaitCancelled, TakeToken, FindClosed, DialAbandoned, connVars
<1>10. ASSUME NEW c \in Callers, NEW k \in Conns, FindIdle(c, k) \/ Dial(c, k) PROVE Goal
  BY <1>1, <1>10 DEF FindIdle, Dial
<1>11. ASSUME NEW c \in Callers, Answered(c) PROVE Goal
  <2>1. held[c] \in Conns /\ conn[held[c]] = "used"
    BY <1>11 DEF Answered, Holding
  <2> QED
    BY <1>1, <1>11, <2>1 DEF Answered, Release
<1>12. ASSUME NEW c \in Callers, Failing(c) PROVE Goal
  <2>1. /\ conn' = [conn EXCEPT ![held[c]] = "destroying"]
        /\ failed' = failed \cup {held[c]}
        /\ UNCHANGED marked
        /\ pc[c] \in {"send", "await"}
    BY <1>12, FailShape
  <2>2. held[c] \in Conns
    BY <2>1 DEF Holding
  <2> QED
    BY <2>1, <2>2
<1> QED
  BY <1>2, <1>3, <1>4, <1>5, <1>6, <1>7, <1>8, <1>9, <1>10, <1>11, <1>12
  DEF Next, Acquiring, Calling, Background, Reaping, Closing, Failing

\* Types, but for the counters, whose bounds the other parts give.
LEMMA TypeStep ==
    ASSUME TypeOK, Holding, [Next]_vars, tokens' \in 0 .. MaxSize,
           tries' \in [Callers -> 0 .. Attempts], sends' \in [Callers -> 0 .. Attempts]
    PROVE  TypeOK'
<1> DEFINE PCs == {"check", "acquire", "lookup", "dial", "send", "await", "done"}
           Results == {"none", "ok", "cancelled", "closed", "dial", "exceeded", "reset",
                       "rejected"}
           CallTypes == /\ ctx' \subseteq Callers
                        /\ pc' \in [Callers -> PCs]
                        /\ held' \in [Callers -> Conns \cup {None}]
                        /\ result' \in [Callers -> Results]
           ConnTypes == /\ conn' \in [Conns -> ConnStates]
                        /\ stale' \subseteq Conns /\ failed' \subseteq Conns
                        /\ marked' \subseteq Conns
           CloseTypes == /\ closed' \in BOOLEAN /\ poolClosed' \in BOOLEAN
                         /\ closing' \in {"open", "marked", "draining", "returned"}
                         /\ timer' \in {"armed", "fired", "reaping", "off"}
                         /\ mu' \in BOOLEAN
<1>0. /\ UNCHANGED callVars => CallTypes
      /\ UNCHANGED connVars => ConnTypes
      /\ UNCHANGED <<closeVars, idleVars>> => CloseTypes
  BY Zenon DEF TypeOK, callVars, connVars, closeVars, idleVars, ConnStates
<1>1. CallTypes
  <2> USE DEF TypeOK
  <2>1. CASE \/ TimerFires \/ Reaping \/ Reset \/ Closing \/ Terminated \/ UNCHANGED vars
             \/ \E k \in Conns : PeerCloses(k) \/ Destroyed(k) \/ Dropped(k)
    <3>1. UNCHANGED callVars
      BY <2>1 DEF TimerFires, Reaping, ReapClosed, ReapEnd, ReapStart, ReapExpired, ReapFresh,
         Reset, Closing, CloseMark, ClosePool, CloseReturns, Terminated, vars,
         PeerCloses, Destroyed, Dropped
    <3> QED
      BY <1>0, <3>1
  <2>2. ASSUME NEW c \in Callers, CtxDone(c) PROVE CallTypes
    BY <2>2 DEF CtxDone
  <2>3. ASSUME NEW c \in Callers, WaitCancelled(c) \/ FindClosed(c) \/ DialAbandoned(c) \/ Check(c)
        PROVE  CallTypes
    BY <2>3 DEF WaitCancelled, FindClosed, DialAbandoned, Check, Return
  <2>4. ASSUME NEW c \in Callers, TakeToken(c) \/ Send(c) PROVE CallTypes
    BY <2>4 DEF TakeToken, Send
  <2>5. ASSUME NEW c \in Callers, NEW k \in Conns, FindIdle(c, k) \/ Dial(c, k)
        PROVE  CallTypes
    BY <2>5 DEF FindIdle, Dial
  <2>6. ASSUME NEW k \in Conns, DialOK(k) PROVE CallTypes
    BY <2>6 DEF DialOK
  <2>7. ASSUME NEW k \in Conns, DialFails(k) PROVE CallTypes
    BY <2>7 DEF DialFails, Return, Waiters
  <2>8. ASSUME NEW c \in Callers, Answered(c) PROVE CallTypes
    BY <2>8 DEF Answered, Return
  <2>9. ASSUME NEW c \in Callers, Failing(c) PROVE CallTypes
    <3>1. /\ UNCHANGED ctx
          /\ held' = [held EXCEPT ![c] = None]
          /\ \E p \in {"check", "done"} : pc' = [pc EXCEPT ![c] = p]
      BY <2>9, FailShape
    <3>2. \/ UNCHANGED result
          \/ \E r \in {"exceeded", "cancelled", "reset", "rejected"} :
                result' = [result EXCEPT ![c] = r]
      BY <2>9, FailBudget
    <3> QED
      BY <3>1, <3>2
  <2> QED
    BY <2>1, <2>2, <2>3, <2>4, <2>5, <2>6, <2>7, <2>8, <2>9
    DEF Next, Acquiring, Calling, Background, Failing
<1>2. ConnTypes
  <2> USE DEF TypeOK, ConnStates
  <2>1. CASE \/ TimerFires \/ ReapClosed \/ ReapEnd \/ CloseMark \/ CloseReturns
             \/ Terminated \/ UNCHANGED vars
             \/ \E c \in Callers : \/ CtxDone(c) \/ Check(c) \/ Send(c)
                                   \/ WaitCancelled(c) \/ DialAbandoned(c)
    <3>1. UNCHANGED connVars
      BY <2>1 DEF TimerFires, ReapClosed, ReapEnd, CloseMark, CloseReturns, Terminated, vars,
         CtxDone, Check, Send, WaitCancelled, DialAbandoned
    <3> QED
      BY <1>0, <3>1
  <2>2. ASSUME NEW c \in Callers, TakeToken(c) \/ FindClosed(c) PROVE ConnTypes
    BY <2>2 DEF TakeToken, FindClosed
  <2>3. ASSUME NEW c \in Callers, NEW k \in Conns, FindIdle(c, k) \/ Dial(c, k) PROVE ConnTypes
    BY <2>3 DEF FindIdle, Dial
  <2>4. ASSUME NEW k \in Conns, PeerCloses(k) PROVE ConnTypes
    BY <2>4 DEF PeerCloses
  <2>5. ASSUME NEW k \in Conns, Destroyed(k) \/ Dropped(k) \/ DialFails(k) PROVE ConnTypes
    BY <2>5 DEF Destroyed, Dropped, DialFails, Forget
  <2>6. ASSUME NEW k \in Conns, DialOK(k) \/ ReapExpired(k) \/ ReapFresh(k) PROVE ConnTypes
    BY <2>6 DEF DialOK, ReapExpired, ReapFresh, Release, Destroy
  <2>7. CASE Reset \/ ClosePool
    BY <2>7 DEF Reset, ClosePool, Busy
  <2>8. ASSUME NEW taken \in SUBSET Conns, ReapStart(taken) PROVE ConnTypes
    <3>1. /\ UNCHANGED <<stale, failed, marked>>
          /\ conn' = [j \in Conns |-> IF j \in taken THEN "reaped" ELSE conn[j]]
      BY <2>8 DEF ReapStart
    <3> QED
      BY <3>1
  <2>9. ASSUME NEW c \in Callers, Answered(c) PROVE ConnTypes
    BY <2>9 DEF Answered, Release
  <2>10. ASSUME NEW c \in Callers, Failing(c) PROVE ConnTypes
    <3>1. held[c] \in Conns
      BY <2>10, FailShape DEF Holding
    <3> QED
      BY <2>10, <3>1, FailShape
  <2> QED
    BY <2>1, <2>2, <2>3, <2>4, <2>5, <2>6, <2>7, <2>8, <2>9, <2>10
    DEF Next, Acquiring, Calling, Background, Reaping, Closing, Failing
<1>3. CloseTypes
  <2>1. CASE TimerFires \/ ReapClosed \/ ReapEnd
    BY <2>1, Zenon DEF TypeOK, TimerFires, ReapClosed, ReapEnd, closeVars
  <2>2. ASSUME NEW taken \in SUBSET Conns, ReapStart(taken) PROVE CloseTypes
    BY <2>2, Zenon DEF TypeOK, ReapStart, closeVars
  <2>3. CASE CloseMark
    <3>1. timer' \in {"armed", "fired", "reaping", "off"}
      BY <2>3 DEF TypeOK, CloseMark
    <3> QED
      BY <2>3, <3>1, Zenon DEF TypeOK, CloseMark
  <2>4. CASE ClosePool \/ CloseReturns
    BY <2>4, Zenon DEF TypeOK, ClosePool, CloseReturns, idleVars
  <2>5. CASE ~(TimerFires \/ ReapClosed \/ ReapEnd \/ CloseMark \/ ClosePool \/ CloseReturns
               \/ \E taken \in SUBSET Conns : ReapStart(taken))
    <3>1. CASE \/ Reset \/ Terminated \/ UNCHANGED vars
               \/ \E k \in Conns : \/ ReapExpired(k) \/ ReapFresh(k) \/ PeerCloses(k)
                                   \/ DialOK(k) \/ DialFails(k) \/ Destroyed(k) \/ Dropped(k)
      <4>1. UNCHANGED <<closeVars, idleVars>>
        BY <3>1 DEF Reset, Terminated, vars, ReapExpired, ReapFresh, PeerCloses, DialOK,
           DialFails, Destroyed, Dropped
      <4> QED
        BY <1>0, <4>1
    <3>2. ASSUME NEW c \in Callers,
                 \/ CtxDone(c) \/ Check(c) \/ Send(c) \/ Answered(c) \/ Failing(c)
                 \/ WaitCancelled(c) \/ TakeToken(c) \/ FindClosed(c) \/ DialAbandoned(c)
                 \/ \E k \in Conns : FindIdle(c, k) \/ Dial(c, k)
          PROVE  CloseTypes
      <4>1. UNCHANGED <<closeVars, idleVars>>
        BY <3>2, FailShape DEF CtxDone, Check, Send, Answered, WaitCancelled, TakeToken,
           FindClosed, DialAbandoned, FindIdle, Dial
      <4> QED
        BY <1>0, <4>1
    <3> QED
      BY <2>5, <3>1, <3>2
      DEF Next, Acquiring, Calling, Background, Reaping, Closing, Failing
  <2> QED
    BY <2>1, <2>2, <2>3, <2>4, <2>5
<1> QED
  BY <1>1, <1>2, <1>3, Zenon DEF TypeOK, ConnStates

\* Every step preserves the invariant.
LEMMA NextPoolInv == PoolInv /\ [Next]_vars => PoolInv'
<1> SUFFICES ASSUME PoolInv, [Next]_vars PROVE PoolInv'
  OBVIOUS
<1>0. /\ TypeOK /\ Holding /\ Counted /\ Budget /\ Shut
      /\ FailedNeverReused /\ ResetCondemns
  BY DEF PoolInv
<1>1. Counted' /\ tokens' \in 0 .. MaxSize
  BY <1>0, CountStep
<1>2. /\ Budget'
      /\ tries' \in [Callers -> 0 .. Attempts]
      /\ sends' \in [Callers -> 0 .. Attempts]
  BY <1>0, BudgetStep
<1>3. TypeOK'
  BY <1>0, <1>1, <1>2, TypeStep
<1>4. Holding' /\ Shut'
  BY <1>0, HoldingStep, ShutStep
<1>5. FailedNeverReused' /\ ResetCondemns'
  BY <1>0, CondemnedStep
<1> QED
  BY <1>1, <1>2, <1>3, <1>4, <1>5 DEF PoolInv

-----------------------------------------------------------------------------
(***************************************************************************)
(* The invariant of the pool, from which everything below follows.         *)
(***************************************************************************)
THEOREM PoolInductive == Spec => []PoolInv
<1> QED
  BY InitPoolInv, NextPoolInv, PTL DEF Spec

(***************************************************************************)
(* Whatever callers, the reaper, Reset and Close do, a connection is used  *)
(* by one caller at a time and by nobody once it has been given up: the    *)
(* retry loop and releaseMaybeRetry of any number of goroutines.           *)
(***************************************************************************)
THEOREM ConnectionsAreExclusive == Spec => []ExclusiveUse
<1>1. PoolInv => ExclusiveUse
  BY DEF PoolInv, Holding, ExclusiveUse
<1> QED
  BY <1>1, PoolInductive, PTL

(***************************************************************************)
(* A connection on which an operation failed is destroyed, never released, *)
(* whichever of its errors releaseMaybeRetry was given.                    *)
(***************************************************************************)
THEOREM FailedAreDestroyed == Spec => []FailedNeverReused
<1>1. PoolInv => FailedNeverReused
  BY DEF PoolInv
<1> QED
  BY <1>1, PoolInductive, PTL

(***************************************************************************)
(* Abandoned dials, retries, the reaper and Close neither lose a token of  *)
(* puddle's semaphore nor make one, and the pool stays within MaxSize.     *)
(***************************************************************************)
THEOREM TokensAreConserved == Spec => []TokensConserved
<1>1. ASSUME PoolInv PROVE TokensConserved
  <2>1. /\ tokens + Cardinality(Busy) + Cardinality(Looking) = MaxSize
        /\ Cardinality(Busy) + Cardinality(Idle) <= MaxSize
    BY <1>1 DEF PoolInv, Counted
  <2>2. Busy \cap Idle = {}
    BY DEF Busy, Idle
  <2>3. Cardinality(InPool) = Cardinality(Busy) + Cardinality(Idle) - Cardinality({})
    BY <2>2, Finite, FS_Union DEF InPool
  <2>4. Cardinality(InPool) = Cardinality(Busy) + Cardinality(Idle)
    BY <2>3, Finite, FS_EmptySet
  <2> QED
    BY <2>1, <2>4 DEF TokensConserved, Looking
<1> QED
  BY <1>1, PoolInductive, PTL

(***************************************************************************)
(* When Close returns nothing is left of the pool, and no callback of the  *)
(* idle timer that Stop came too late for arms it again.                   *)
(***************************************************************************)
THEOREM ClosingIsFinal == Spec => []CloseIsFinal
<1>1. PoolInv => CloseIsFinal
  BY DEF PoolInv, Holding, Shut, Live, CloseIsFinal
<1> QED
  BY <1>1, PoolInductive, PTL

(***************************************************************************)
(* For every value of Retries an operation is sent at most once more than  *)
(* it has failed, and ErrRetriesExceeded means that every attempt was made *)
(* and lost.                                                               *)
(***************************************************************************)
THEOREM RetriesAreBounded == Spec => []RetryBudget
<1>1. ASSUME PoolInv PROVE RetryBudget
  <2>0. Attempts \in Nat
    BY RetryAssumption DEF Attempts
  <2>1. TypeOK /\ Budget
    BY <1>1 DEF PoolInv
  <2> QED
    BY <2>0, <2>1 DEF TypeOK, Budget, RetryBudget
<1> QED
  BY <1>1, PoolInductive, PTL

(***************************************************************************)
(* No connection that existed when Reset was called is idle afterwards, in *)
(* whatever state Reset found it.                                          *)
(***************************************************************************)
THEOREM ResetReachesAll == Spec => []ResetCondemns
<1>1. PoolInv => ResetCondemns
  BY DEF PoolInv
<1> QED
  BY <1>1, PoolInductive, PTL
=============================================================================

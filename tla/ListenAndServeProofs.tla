------------------------ MODULE ListenAndServeProofs ------------------------
(***************************************************************************)
(* What Serve, ServePacket and listenAndServeHTTP guarantee for any number *)
(* of connections, routines and requests: each by itself, and started by   *)
(* ListenAndServe with the context it shares with its caller.              *)
(***************************************************************************)
EXTENDS ListenAndServe, FiniteSetTheorems, TLAPS

-----------------------------------------------------------------------------
(***************************************************************************)
(* Serve, for any finite number of connections.                            *)
(***************************************************************************)
\* The initial states satisfy the invariant.
LEMMA InitServeInv == Init => ServeInv
<1> SUFFICES ASSUME Init PROVE ServeInv
  OBVIOUS
<1>1. LiveConns = {}
  BY DEF Init, LiveConns, Live
<1>2. Counted
  BY <1>1, FS_EmptySet DEF Init, Counted
<1>3. TypeOK
  <2>1. /\ conn \in [Conns -> {"none", "backlog", "closed"} \cup Live]
        /\ req \in [Conns -> {"none", "handling", "answered", "lost"}]
    BY DEF Init
  <2>2. wg \in Int
    BY DEF Init
  <2>3. QED
    BY <2>1, <2>2, Zenon DEF Init, TypeOK
<1>4. Handling /\ Untouched /\ NothingLeft /\ ConnectionsAreIsolated
  BY DEF Init, Handling, Untouched, NothingLeft, ConnectionsAreIsolated
<1>5. QED
  BY <1>2, <1>3, <1>4 DEF ServeInv

\* There are finitely many connections with a goroutine.
LEMMA LiveFinite == IsFiniteSet(LiveConns) /\ Cardinality(LiveConns) \in Nat
<1>1. LiveConns \in SUBSET Conns
  BY DEF LiveConns
<1>2. IsFiniteSet(LiveConns)
  BY <1>1, ConnsAssumption, FS_Subset
<1>3. QED
  BY <1>2, FS_CardinalityType

(***************************************************************************)
(* Every step keeps the count: Accept adds one, ConnDone takes one away,   *)
(* and no other step starts or ends a goroutine.                           *)
(***************************************************************************)
LEMMA CountStep ==
    ASSUME TypeOK, Counted, [Next]_vars
    PROVE  Counted'
<1> USE DEF TypeOK, Counted
<1>1. ASSUME UNCHANGED wg, LiveConns' = LiveConns PROVE Counted'
  BY <1>1
<1>2. CASE \/ Cancel \/ CloseListener \/ AcceptFails \/ Return \/ Terminated
           \/ UNCHANGED vars
  BY <1>1, <1>2 DEF Cancel, CloseListener, AcceptFails, Return, Terminated,
     vars, LiveConns
<1>3. ASSUME NEW c \in Conns,
             \/ PeerLeaves(c) \/ BinderStops(c) \/ Request(c)
             \/ Answer(c) \/ Lose(c) \/ EncodeFails(c)
      PROVE  Counted'
  BY <1>1, <1>3 DEF PeerLeaves, BinderStops, Request, Answer, Lose, EncodeFails,
     LiveConns
<1>4. ASSUME NEW c \in Conns,
             \/ Connect(c) \/ LeaveLoop(c) \/ DecodeFails(c)
             \/ \E wait \in BOOLEAN : Bind(c, wait)
      PROVE  Counted'
  <2>1. LiveConns' = LiveConns /\ UNCHANGED wg
    BY <1>4 DEF Connect, LeaveLoop, DecodeFails, Bind, LiveConns, Live
  <2>2. QED
    BY <1>1, <2>1
<1>5. ASSUME NEW c \in Conns, Accept(c) PROVE Counted'
  <2>1. LiveConns' = LiveConns \cup {c} /\ c \notin LiveConns /\ wg' = wg + 1
    BY <1>5 DEF Accept, LiveConns, Live
  <2>2. Cardinality(LiveConns \cup {c}) = Cardinality(LiveConns) + 1
    BY <2>1, LiveFinite, FS_AddElement
  <2>3. QED
    BY <2>1, <2>2
<1>6. ASSUME NEW c \in Conns, ConnDone(c) PROVE Counted'
  <2>1. LiveConns' = LiveConns \ {c} /\ c \in LiveConns /\ wg' = wg - 1
    BY <1>6 DEF ConnDone, LiveConns, Live
  <2>2. Cardinality(LiveConns \ {c}) = Cardinality(LiveConns) - 1
    BY <2>1, LiveFinite, FS_RemoveElement
  <2>3. QED
    BY <2>1, <2>2
<1>7. QED
  BY <1>2, <1>3, <1>4, <1>5, <1>6 DEF Next, Goroutine

\* Every step keeps the invariant.
LEMMA ServeStep == ServeInv /\ [Next]_vars => ServeInv'
<1> SUFFICES ASSUME ServeInv, [Next]_vars PROVE ServeInv'
  OBVIOUS
<1>0. Counted'
  BY CountStep DEF ServeInv
<1> DEFINE P == /\ TypeOK /\ Handling /\ Untouched
                /\ NothingLeft /\ ConnectionsAreIsolated
<1> SUFFICES P'
  BY <1>0 DEF ServeInv
<1> USE DEF ServeInv, TypeOK, Handling, Untouched, NothingLeft,
        ConnectionsAreIsolated, OwnReason, SctxDone, CctxDone, Live
<1>1. CASE Cancel
  BY <1>1 DEF Cancel
<1>2. CASE CloseListener
  BY <1>2 DEF CloseListener
<1>3. CASE AcceptFails
  BY <1>3 DEF AcceptFails
<1>4. CASE Terminated \/ UNCHANGED vars
  BY <1>4 DEF Terminated, vars
<1>5. CASE Return
  <2>1. LiveConns = {}
    BY <1>5, LiveFinite, FS_EmptySet DEF Return, Counted
  <2>2. \A c \in Conns : conn[c] \notin Live
    BY <2>1 DEF LiveConns
  <2>3. QED
    BY <1>5, <2>2 DEF Return
<1>6. ASSUME NEW c \in Conns, Connect(c) PROVE P'
  BY <1>6 DEF Connect
<1>7. ASSUME NEW c \in Conns, PeerLeaves(c) PROVE P'
  BY <1>7 DEF PeerLeaves
<1>8. ASSUME NEW c \in Conns, Accept(c) PROVE P'
  BY <1>8 DEF Accept
<1>9. ASSUME NEW c \in Conns, \E wait \in BOOLEAN : Bind(c, wait) PROVE P'
  BY <1>9 DEF Bind
<1>10. ASSUME NEW c \in Conns, BinderStops(c) PROVE P'
  BY <1>10 DEF BinderStops
<1>11. ASSUME NEW c \in Conns, Request(c) PROVE P'
  BY <1>11 DEF Request
<1>12. ASSUME NEW c \in Conns, Answer(c) PROVE P'
  BY <1>12 DEF Answer
<1>13. ASSUME NEW c \in Conns, Lose(c) PROVE P'
  BY <1>13 DEF Lose
<1>14. ASSUME NEW c \in Conns, LeaveLoop(c) PROVE P'
  BY <1>14 DEF LeaveLoop
<1>15. ASSUME NEW c \in Conns, ConnDone(c) PROVE P'
  BY <1>15 DEF ConnDone
<1>16. ASSUME NEW c \in Conns, DecodeFails(c) PROVE P'
  BY <1>16 DEF DecodeFails
<1>17. ASSUME NEW c \in Conns, EncodeFails(c) PROVE P'
  BY <1>17 DEF EncodeFails
<1>18. QED
  BY <1>1, <1>5, <1>6, <1>7, <1>8, <1>9, <1>10, <1>11, <1>12, <1>13, <1>14,
     <1>15, <1>16, <1>17, <1>2, <1>3, <1>4 DEF Next, Goroutine

\* For any number of connections, every reachable state satisfies the invariant.
THEOREM ServeInductive == Spec => []ServeInv
<1>1. QED
  BY InitServeInv, ServeStep, PTL DEF Spec

(***************************************************************************)
(* Serve returns only when no goroutine of a connection is left and no     *)
(* handler runs, also if it accepted connections after the cancellation.   *)
(***************************************************************************)
THEOREM ServeLeavesNothing == Spec => []NothingLeft
<1>1. ServeInv => NothingLeft
  BY DEF ServeInv
<1>2. QED
  BY <1>1, ServeInductive, PTL

(***************************************************************************)
(* While Serve accepts and its context is live, the listener is open and a *)
(* request is lost only to its own peer or its own Binder.                 *)
(***************************************************************************)
THEOREM ServeIsolates == Spec => []ConnectionsAreIsolated
<1>1. ServeInv => ConnectionsAreIsolated
  BY DEF ServeInv
<1>2. QED
  BY <1>1, ServeInductive, PTL

-----------------------------------------------------------------------------
(***************************************************************************)
(* ServePacket, for any number of routines.                                *)
(***************************************************************************)
\* The initial states satisfy the invariant.
LEMMA InitPacketInv == PacketInit => PacketInv
<1> SUFFICES ASSUME PacketInit PROVE PacketInv
  OBVIOUS
<1>1. Done = {}
  BY DEF PacketInit, Done
<1>2. Collected
  BY <1>1, FS_EmptySet DEF PacketInit, Collected
<1>3. PacketTypeOK
  <2>1. /\ routine \in [Routines -> {"start", "run", "left", "ran", "done"}]
        /\ packetReq \in [Routines -> {"none", "handling", "answered", "lost"}]
    BY DEF PacketInit
  <2>2. errs \in Nat
    BY DEF PacketInit
  <2>3. QED
    BY <2>1, <2>2, Zenon DEF PacketInit, PacketTypeOK
<1>4. PacketHandling /\ PacketNothingLeft
  BY DEF PacketInit, PacketHandling, PacketNothingLeft
<1>5. QED
  BY <1>2, <1>3, <1>4 DEF PacketInv

\* The routines that are done are finitely many, and not all if one is not.
LEMMA DoneFinite ==
    /\ IsFiniteSet(Done)
    /\ Cardinality(Done) \in Nat
    /\ Capacity \in Nat
    /\ \A r \in Routines : r \notin Done => Cardinality(Done) < Capacity
<1>1. Done \in SUBSET Routines
  BY DEF Done
<1>2. /\ IsFiniteSet(Done)
      /\ Cardinality(Done) <= Cardinality(Routines)
      /\ Cardinality(Routines) = Cardinality(Done) => Routines = Done
  BY <1>1, RoutinesAssumption, FS_Subset
<1>3. Cardinality(Done) \in Nat /\ Cardinality(Routines) \in Nat
  BY <1>2, RoutinesAssumption, FS_CardinalityType
<1>4. QED
  BY <1>2, <1>3 DEF Capacity

(***************************************************************************)
(* Every step keeps the channel at one error for each routine that is done *)
(* until ServePacket empties it.                                           *)
(***************************************************************************)
LEMMA CollectStep ==
    ASSUME PacketTypeOK, Collected, [PacketNext]_packetVars
    PROVE  Collected'
<1> USE DEF PacketTypeOK, Collected
<1>1. CASE PacketCancel \/ PacketReturn \/ PacketTerminated \/ UNCHANGED packetVars
  BY <1>1 DEF PacketCancel, PacketReturn, PacketTerminated, packetVars, Done
<1>2. ASSUME NEW r \in Routines,
             PacketBinderStops(r) \/ Receive(r) \/ PacketAnswer(r) \/ PacketLose(r)
      PROVE  Collected'
  BY <1>2 DEF PacketBinderStops, Receive, PacketAnswer, PacketLose, Done
<1>3. ASSUME NEW r \in Routines,
             \/ ReadFails(r) \/ PacketLeaveLoop(r) \/ RunReturns(r)
             \/ \E wait \in BOOLEAN : PacketBind(r, wait)
      PROVE  Collected'
  <2>1. Done' = Done /\ UNCHANGED <<errs, packetServe>>
    BY <1>3 DEF ReadFails, PacketLeaveLoop, RunReturns, PacketBind, Done
  <2>2. QED
    BY <2>1
<1>4. ASSUME NEW r \in Routines, Finish(r) PROVE Collected'
  <2>1. /\ Done' = Done \cup {r} /\ r \notin Done
        /\ errs' = errs + 1 /\ packetServe' = packetServe
    BY <1>4 DEF Finish, Done
  <2>2. Cardinality(Done \cup {r}) = Cardinality(Done) + 1
    BY <2>1, DoneFinite, FS_AddElement
  <2>3. QED
    BY <2>1, <2>2
<1>5. QED
  BY <1>1, <1>2, <1>3, <1>4 DEF PacketNext, PacketGoroutine

\* Every step keeps the invariant.
LEMMA PacketStep == PacketInv /\ [PacketNext]_packetVars => PacketInv'
<1> SUFFICES ASSUME PacketInv, [PacketNext]_packetVars PROVE PacketInv'
  OBVIOUS
<1>0. Collected'
  BY CollectStep DEF PacketInv
<1> DEFINE P == PacketTypeOK /\ PacketHandling /\ PacketNothingLeft
<1> SUFFICES P'
  BY <1>0 DEF PacketInv
<1> USE DEF PacketInv, PacketTypeOK, PacketHandling, PacketNothingLeft
<1>1. CASE PacketCancel
  BY <1>1 DEF PacketCancel
<1>2. CASE PacketReturn
  BY <1>2, RoutinesAssumption DEF PacketReturn
<1>3. CASE PacketTerminated \/ UNCHANGED packetVars
  BY <1>3 DEF PacketTerminated, packetVars
<1>4. ASSUME NEW r \in Routines, \E wait \in BOOLEAN : PacketBind(r, wait) PROVE P'
  BY <1>4 DEF PacketBind
<1>5. ASSUME NEW r \in Routines, PacketBinderStops(r) PROVE P'
  BY <1>5 DEF PacketBinderStops
<1>6. ASSUME NEW r \in Routines, Receive(r) PROVE P'
  BY <1>6 DEF Receive
<1>7. ASSUME NEW r \in Routines, PacketAnswer(r) PROVE P'
  BY <1>7 DEF PacketAnswer
<1>8. ASSUME NEW r \in Routines, PacketLose(r) PROVE P'
  BY <1>8 DEF PacketLose
<1>9. ASSUME NEW r \in Routines, ReadFails(r) \/ PacketLeaveLoop(r) PROVE P'
  BY <1>9 DEF ReadFails, PacketLeaveLoop
<1>10. ASSUME NEW r \in Routines, RunReturns(r) PROVE P'
  BY <1>10 DEF RunReturns
<1>11. ASSUME NEW r \in Routines, Finish(r) PROVE P'
  BY <1>11 DEF Finish
<1>12. QED
  BY <1>1, <1>2, <1>3, <1>4, <1>5, <1>6, <1>7, <1>8, <1>9, <1>10, <1>11
     DEF PacketNext, PacketGoroutine

\* For any number of routines, every reachable state satisfies the invariant.
THEOREM PacketInductive == PacketSpec => []PacketInv
<1>1. QED
  BY InitPacketInv, PacketStep, PTL DEF PacketSpec

(***************************************************************************)
(* ServePacket returns only when every routine is done, no handler runs    *)
(* and the connection is closed.                                           *)
(***************************************************************************)
THEOREM PacketLeavesNothing == PacketSpec => []PacketNothingLeft
<1>1. PacketInv => PacketNothingLeft
  BY DEF PacketInv
<1>2. QED
  BY <1>1, PacketInductive, PTL

\* Where the invariant holds, the channel has room.
LEMMA PacketInvFits == PacketInv => ChannelFits
<1> SUFFICES ASSUME PacketInv, NEW r \in Routines, routine[r] = "ran"
             PROVE  errs < Capacity
  BY DEF ChannelFits
<1>1. r \notin Done /\ packetServe = "wait"
  BY DEF Done, PacketInv, PacketTypeOK, PacketNothingLeft
<1>2. QED
  BY <1>1, DoneFinite DEF PacketInv, Collected

(***************************************************************************)
(* No routine ever blocks on the channel of errors, for any number of them.*)
(***************************************************************************)
THEOREM ErrorsNeverBlock == PacketSpec => []ChannelFits
<1>1. QED
  BY PacketInvFits, PacketInductive, PTL

-----------------------------------------------------------------------------
(***************************************************************************)
(* listenAndServeHTTP, for any number of requests.  The context given to   *)
(* Shutdown has no other end than its time.                                *)
(***************************************************************************)
CutInv ==
    /\ DOMAIN httpReq = Requests
    /\ sctxDone => elapsed
    /\ CutOnlyAfterTimeout

LEMMA HTTPStep == CutInv /\ [HTTPNext]_httpVars => CutInv'
<1> SUFFICES ASSUME CutInv, [HTTPNext]_httpVars PROVE CutInv'
  OBVIOUS
<1> USE DEF CutInv, CutOnlyAfterTimeout
<1>1. CASE HTTPCancel \/ HTTPReturn \/ Shutdown \/ ShutdownCompletes
  BY <1>1 DEF HTTPCancel, HTTPReturn, Shutdown, ShutdownCompletes
<1>2. CASE TimeoutElapses
  BY <1>2 DEF TimeoutElapses
<1>3. CASE ForceClose
  BY <1>3 DEF ForceClose
<1>4. ASSUME NEW r \in Requests, HTTPRequest(r) \/ Respond(r) PROVE CutInv'
  BY <1>4 DEF HTTPRequest, Respond
<1>5. CASE HTTPTerminated \/ UNCHANGED httpVars
  BY <1>5 DEF HTTPTerminated, httpVars
<1>6. QED
  BY <1>1, <1>2, <1>3, <1>4, <1>5 DEF HTTPNext

(***************************************************************************)
(* Shutdown cuts a request off only when HTTPShutdownTimeout has passed,   *)
(* though the context that triggers it is done from the start.             *)
(***************************************************************************)
THEOREM CutsWaitForTimeout == HTTPSpec => []CutOnlyAfterTimeout
<1>1. HTTPInit => CutInv
  BY DEF HTTPInit, CutInv, CutOnlyAfterTimeout
<1>2. CutInv => CutOnlyAfterTimeout
  BY DEF CutInv
<1>3. QED
  BY <1>1, <1>2, HTTPStep, PTL DEF HTTPSpec

-----------------------------------------------------------------------------
(***************************************************************************)
(* The three under ListenAndServe.  A server that has not been started is  *)
(* as ListenInit has it, and no action of it but the cancellation of the   *)
(* shared context is enabled; one that has been started keeps the          *)
(* invariant it has by itself, since all that the others do to it is to    *)
(* cancel the context.                                                     *)
(***************************************************************************)
StreamIdle ==
    /\ serve = "none" /\ ~listening /\ stopped = FALSE /\ wg = 0
    /\ conn = [c \in Conns |-> "none"] /\ connStop = {} /\ waits = {}
    /\ peer = Conns /\ broken = {} /\ req = [c \in Conns |-> "none"]

PacketIdle ==
    /\ packetServe = "none" /\ open = FALSE /\ packetStopped = FALSE
    /\ routine = [r \in Routines |-> "none"] /\ packetWaits = {}
    /\ packetReq = [r \in Routines |-> "none"] /\ errs = 0

ListenInv ==
    /\ ctxDone \in BOOLEAN
    /\ listen = "parsed" => StreamIdle /\ PacketIdle
    /\ StreamIdle \/ ServeInv
    /\ PacketIdle \/ PacketInv
    /\ CutInv

\* The context is only ever cancelled.
Cancels == UNCHANGED ctxDone \/ (ctxDone = FALSE /\ ctxDone' = TRUE)

LEMMA OnlyCancelled ==
    ASSUME ctxDone \in BOOLEAN, Next \/ PacketNext \/ HTTPNext
    PROVE  Cancels /\ ctxDone' \in BOOLEAN
<1>1. CASE Next
  BY <1>1 DEF Next, Cancels, Cancel, CloseListener, AcceptFails, Return, Terminated, vars,
     Connect, PeerLeaves, Accept, BinderStops, Request, Goroutine, Bind, Answer, Lose,
     LeaveLoop, DecodeFails, EncodeFails, ConnDone
<1>2. CASE PacketNext
  BY <1>2 DEF PacketNext, Cancels, PacketCancel, PacketReturn, PacketTerminated, packetVars,
     PacketBinderStops, Receive, ReadFails, PacketGoroutine, PacketBind, PacketAnswer,
     PacketLose, PacketLeaveLoop, RunReturns, Finish
<1>3. CASE HTTPNext
  BY <1>3 DEF HTTPNext, Cancels, HTTPCancel, HTTPReturn, Shutdown, TimeoutElapses,
     ShutdownCompletes, ForceClose, HTTPTerminated, httpVars, HTTPRequest, Respond
<1>4. QED
  BY <1>1, <1>2, <1>3

\* A server that has not been started does nothing.
LEMMA StreamStaysIdle ==
    ASSUME StreamIdle, Next
    PROVE  UNCHANGED ownVars
  BY DEF StreamIdle, ownVars, Next, Cancel, CloseListener, SctxDone, AcceptFails, Return,
     Terminated, Connect, PeerLeaves, Accept, BinderStops, Live, Request, Goroutine, Bind,
     Answer, Lose, LeaveLoop, DecodeFails, EncodeFails, ConnDone

LEMMA PacketStaysIdle ==
    ASSUME PacketIdle, PacketNext
    PROVE  UNCHANGED ownPacketVars
  BY DEF PacketIdle, ownPacketVars, PacketNext, PacketCancel, PacketReturn,
     PacketTerminated, PacketBinderStops, Receive, ReadFails, PacketGoroutine, PacketBind,
     PacketAnswer, PacketLose, PacketLeaveLoop, RunReturns, Finish

\* What the other servers do is to each a cancellation or nothing.
LEMMA OthersCancel ==
    ASSUME Cancels
    PROVE  /\ UNCHANGED ownVars => [Next]_vars
           /\ UNCHANGED ownPacketVars => [PacketNext]_packetVars
           /\ UNCHANGED ownHTTPVars => [HTTPNext]_httpVars
<1>1. ASSUME UNCHANGED ownVars PROVE [Next]_vars
  BY <1>1 DEF Cancels, ownVars, vars, Next, Cancel
<1>2. ASSUME UNCHANGED ownPacketVars PROVE [PacketNext]_packetVars
  BY <1>2 DEF Cancels, ownPacketVars, packetVars, PacketNext, PacketCancel
<1>3. ASSUME UNCHANGED ownHTTPVars PROVE [HTTPNext]_httpVars
  BY <1>3 DEF Cancels, ownHTTPVars, httpVars, HTTPNext, HTTPCancel
<1>4. QED
  BY <1>1, <1>2, <1>3

\* A server that has just been started satisfies its own invariant, also if the
\* context is done by then.
LEMMA StreamStarts ==
    ASSUME ListenInv, ListenStream
    PROVE  ServeInv'
<1>1. StreamIdle
  BY DEF ListenInv, ListenStream
<1>2. LiveConns' = {}
  BY <1>1 DEF ListenStream, StreamIdle, LiveConns, Live
<1>3. Counted'
  BY <1>1, <1>2, FS_EmptySet DEF ListenStream, StreamIdle, Counted
<1>4. TypeOK'
  <2>1. /\ conn' \in [Conns -> {"none", "backlog", "closed"} \cup Live]
        /\ req' \in [Conns -> {"none", "handling", "answered", "lost"}]
    BY <1>1 DEF ListenStream, StreamIdle
  <2>2. wg' = 0 /\ stopped' = FALSE /\ ctxDone' = ctxDone
    BY <1>1 DEF ListenStream, StreamIdle
  <2>3. /\ listening' = TRUE /\ serve' = "accept" /\ connStop' = {} /\ waits' = {}
        /\ peer' = Conns /\ broken' = {}
    BY <1>1 DEF ListenStream, StreamIdle
  <2>4. wg' \in Int
    BY <2>2
  <2>5. ctxDone \in BOOLEAN
    BY DEF ListenInv
  <2>6. QED
    BY <2>1, <2>2, <2>3, <2>4, <2>5, Zenon DEF TypeOK
<1>5. (Handling /\ Untouched /\ NothingLeft /\ ConnectionsAreIsolated)'
  BY <1>1 DEF ListenStream, StreamIdle, Handling, Untouched, NothingLeft,
     ConnectionsAreIsolated
<1>6. QED
  BY <1>3, <1>4, <1>5 DEF ServeInv

LEMMA PacketStarts ==
    ASSUME ListenInv, ListenPacket
    PROVE  PacketInv'
<1>1. PacketIdle
  BY DEF ListenInv, ListenPacket
<1>2. Done' = {}
  BY DEF ListenPacket, Done
<1>3. Collected'
  BY <1>1, <1>2, FS_EmptySet DEF ListenPacket, PacketIdle, Collected
<1>4. PacketTypeOK'
  <2>1. /\ routine' \in [Routines -> {"start", "run", "left", "ran", "done"}]
        /\ packetReq' \in [Routines -> {"none", "handling", "answered", "lost"}]
    BY <1>1 DEF ListenPacket, PacketIdle
  <2>2. errs' = 0 /\ packetStopped' = FALSE /\ ctxDone' = ctxDone
    BY <1>1 DEF ListenPacket, PacketIdle
  <2>3. open' = TRUE /\ packetServe' = "wait" /\ packetWaits' = {}
    BY <1>1 DEF ListenPacket, PacketIdle
  <2>4. errs' \in Nat
    BY <2>2
  <2>5. ctxDone \in BOOLEAN
    BY DEF ListenInv
  <2>6. QED
    BY <2>1, <2>2, <2>3, <2>4, <2>5, Zenon DEF PacketTypeOK
<1>5. (PacketHandling /\ PacketNothingLeft)'
  BY <1>1 DEF ListenPacket, PacketIdle, PacketHandling, PacketNothingLeft
<1>6. QED
  BY <1>3, <1>4, <1>5 DEF PacketInv

LEMMA ListenStep == ListenInv /\ [ListenNext]_allVars => ListenInv'
<1> SUFFICES ASSUME ListenInv, [ListenNext]_allVars PROVE ListenInv'
  OBVIOUS
<1> DEFINE Stream == StreamIdle \/ ServeInv
           Packet == PacketIdle \/ PacketInv
<1>0. ctxDone \in BOOLEAN /\ Stream /\ Packet /\ CutInv
  BY DEF ListenInv
<1>a. ASSUME UNCHANGED ownVars, Cancels
      PROVE  Stream' /\ (StreamIdle => StreamIdle')
  <2>1. StreamIdle => StreamIdle'
    BY <1>a DEF ownVars, StreamIdle
  <2>2. ServeInv => ServeInv'
    BY <1>a, OthersCancel, ServeStep
  <2>3. QED
    BY <1>0, <2>1, <2>2
<1>b. ASSUME UNCHANGED ownPacketVars, Cancels
      PROVE  Packet' /\ (PacketIdle => PacketIdle')
  <2>1. PacketIdle => PacketIdle'
    BY <1>b DEF ownPacketVars, PacketIdle
  <2>2. PacketInv => PacketInv'
    BY <1>b, OthersCancel, PacketStep
  <2>3. QED
    BY <1>0, <2>1, <2>2
<1>c. ASSUME UNCHANGED ownHTTPVars, Cancels PROVE CutInv'
  BY <1>0, <1>c, OthersCancel, HTTPStep
<1>1. CASE ListenStream
  <2>1. /\ UNCHANGED ownPacketVars /\ UNCHANGED ownHTTPVars /\ Cancels
        /\ listen' # "parsed" /\ ctxDone' = ctxDone
    BY <1>1 DEF ListenStream, Cancels
  <2>2. QED
    BY <1>0, <1>1, <1>b, <1>c, <2>1, StreamStarts DEF ListenInv
<1>2. CASE ListenPacket
  <2>1. /\ UNCHANGED ownVars /\ UNCHANGED ownHTTPVars /\ Cancels
        /\ listen' # "parsed" /\ ctxDone' = ctxDone
    BY <1>2 DEF ListenPacket, Cancels
  <2>2. QED
    BY <1>0, <1>2, <1>a, <1>c, <2>1, PacketStarts DEF ListenInv
<1>3. CASE ListenHTTP
  <2>1. /\ UNCHANGED ownVars /\ UNCHANGED ownPacketVars /\ Cancels
        /\ listen' # "parsed" /\ ctxDone' = ctxDone
    BY <1>3 DEF ListenHTTP, Cancels
  <2>2. CutInv'
    BY <1>0, <1>3 DEF ListenHTTP, CutInv, CutOnlyAfterTimeout
  <2>3. QED
    BY <1>0, <1>a, <1>b, <2>1, <2>2 DEF ListenInv
<1>4. CASE ListenFails \/ Failed \/ UNCHANGED allVars
  <2>1. /\ UNCHANGED ownVars /\ UNCHANGED ownPacketVars /\ UNCHANGED ownHTTPVars
        /\ Cancels /\ ctxDone' = ctxDone
        /\ listen' = "parsed" => listen = "parsed"
    BY <1>4 DEF ListenFails, Failed, allVars, vars, packetVars, httpVars, ownVars,
       ownPacketVars, ownHTTPVars, Cancels
  <2>2. QED
    BY <1>0, <1>a, <1>b, <1>c, <2>1 DEF ListenInv
<1>5. CASE Next /\ UNCHANGED <<ownPacketVars, ownHTTPVars, scheme, listen>>
  <2>1. /\ Cancels /\ ctxDone' \in BOOLEAN
        /\ UNCHANGED ownPacketVars /\ UNCHANGED ownHTTPVars /\ listen' = listen
    BY <1>0, <1>5, OnlyCancelled
  <2>2. StreamIdle => StreamIdle'
    BY <1>5, <1>a, <2>1, StreamStaysIdle
  <2>3. ServeInv => ServeInv'
    BY <1>5, ServeStep
  <2>4. QED
    BY <1>0, <1>b, <1>c, <2>1, <2>2, <2>3 DEF ListenInv
<1>6. CASE PacketNext /\ UNCHANGED <<ownVars, ownHTTPVars, scheme, listen>>
  <2>1. /\ Cancels /\ ctxDone' \in BOOLEAN
        /\ UNCHANGED ownVars /\ UNCHANGED ownHTTPVars /\ listen' = listen
    BY <1>0, <1>6, OnlyCancelled
  <2>2. PacketIdle => PacketIdle'
    BY <1>6, <1>b, <2>1, PacketStaysIdle
  <2>3. PacketInv => PacketInv'
    BY <1>6, PacketStep
  <2>4. QED
    BY <1>0, <1>a, <1>c, <2>1, <2>2, <2>3 DEF ListenInv
<1>7. CASE HTTPNext /\ UNCHANGED <<ownVars, ownPacketVars, scheme, listen>>
  <2>1. /\ Cancels /\ ctxDone' \in BOOLEAN
        /\ UNCHANGED ownVars /\ UNCHANGED ownPacketVars /\ listen' = listen
    BY <1>0, <1>7, OnlyCancelled
  <2>2. CutInv'
    BY <1>0, <1>7, HTTPStep
  <2>3. QED
    BY <1>0, <1>a, <1>b, <2>1, <2>2 DEF ListenInv
<1>8. QED
  BY <1>1, <1>2, <1>3, <1>4, <1>5, <1>6, <1>7 DEF ListenNext

(***************************************************************************)
(* Every reachable state of ListenAndServe, for any scheme, satisfies the  *)
(* invariant.                                                              *)
(***************************************************************************)
THEOREM ListenInductive == ListenFairSpec => []ListenInv
<1>1. ListenInit => ListenInv
  BY DEF ListenInit, ListenInv, StreamIdle, PacketIdle, CutInv, CutOnlyAfterTimeout
<1>2. QED
  BY <1>1, ListenStep, PTL DEF ListenFairSpec

(***************************************************************************)
(* The three servers keep what they promise when ListenAndServe starts     *)
(* them, also with a context that is done before the network listens:      *)
(* Serve and ServePacket leave no goroutine and no handler behind, no      *)
(* connection costs another its request, no routine blocks on the channel  *)
(* of errors, and no HTTP request is cut off before its time.              *)
(***************************************************************************)
THEOREM ListenKeepsPromises ==
    ListenFairSpec => [](/\ NothingLeft /\ ConnectionsAreIsolated
                         /\ PacketNothingLeft /\ ChannelFits
                         /\ CutOnlyAfterTimeout)
<1>1. StreamIdle \/ ServeInv => NothingLeft /\ ConnectionsAreIsolated
  BY DEF StreamIdle, ServeInv, NothingLeft, ConnectionsAreIsolated
<1>2. PacketIdle \/ PacketInv => PacketNothingLeft /\ ChannelFits
  BY PacketInvFits DEF PacketIdle, PacketInv, PacketNothingLeft, ChannelFits
<1>3. ListenInv => /\ NothingLeft /\ ConnectionsAreIsolated
                   /\ PacketNothingLeft /\ ChannelFits
                   /\ CutOnlyAfterTimeout
  BY <1>1, <1>2 DEF ListenInv, CutInv
<1>4. QED
  BY <1>3, ListenInductive, PTL
=============================================================================

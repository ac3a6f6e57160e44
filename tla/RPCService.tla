----------------------------- MODULE RPCService -----------------------------
(***************************************************************************)
(* What RPCServer.Run promises its caller and its peer, without loops,     *)
(* goroutines, contexts or transports: messages are received while it is   *)
(* serving, each is settled once and for good, a message that is due a     *)
(* response is never settled in silence, and the service closes only when  *)
(* nothing is pending.                                                     *)
(***************************************************************************)
CONSTANT Requests       \* the messages that may arrive

VARIABLES
    phase,      \* "serving", "draining", "closed"
    status,     \* "none", "pending", "answered", "lost" or "quiet"
    due         \* the messages that are owed a response

svars == <<phase, status, due>>

Init ==
    /\ phase = "serving"
    /\ status = [r \in Requests |-> "none"]
    /\ due = {}

Receive(r, owed) ==
    /\ phase = "serving"
    /\ status[r] = "none"
    /\ status' = [status EXCEPT ![r] = "pending"]
    /\ due' = IF owed THEN due \cup {r} ELSE due
    /\ UNCHANGED phase

\* Answered on the wire, lost (to a dead peer, a cancelled context or an
\* unencodable result), or nothing to say.  Settling a message that cannot be
\* parsed may also be what ends the service.
Settle(r, s) ==
    /\ status[r] = "pending"
    /\ s = "quiet" => r \notin due
    /\ status' = [status EXCEPT ![r] = s]
    /\ phase' \in {phase} \cup {p \in {"draining"} : phase = "serving"}
    /\ UNCHANGED due

Drain ==
    /\ phase = "serving"
    /\ phase' = "draining"
    /\ UNCHANGED <<status, due>>

Close ==
    /\ phase = "draining"
    /\ \A r \in Requests : status[r] # "pending"
    /\ phase' = "closed"
    /\ UNCHANGED <<status, due>>

Next ==
    \/ \E r \in Requests, owed \in BOOLEAN : Receive(r, owed)
    \/ \E r \in Requests, s \in {"answered", "lost", "quiet"} : Settle(r, s)
    \/ Drain
    \/ Close

Spec == Init /\ [][Next]_svars
=============================================================================

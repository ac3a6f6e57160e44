----------------------------- MODULE ClientPool -----------------------------
(***************************************************************************)
(* A ClientPool (src/clientpool.go) shared by goroutines: the retry loop   *)
(* of its Call and Notify methods, releaseMaybeRetry, Reset, Close and the *)
(* idle timer, over the puddle pool it is built on.  Puddle is external:   *)
(* it is modelled by a semaphore of MaxSize tokens, the state of each      *)
(* connection, and the asynchronous destruction of connections.            *)
(*                                                                         *)
(* Each caller performs one operation.  A connection that is gone may be   *)
(* dialled again under the same name.                                      *)
(***************************************************************************)
EXTENDS Integers, FiniteSets

CONSTANTS
    Callers,            \* goroutines; also the bound on operations
    Notifiers,          \* those whose operation is a notification
    Patient,            \* those whose context has no end: context.Background()
    Conns,              \* names for connections
    MaxSize,            \* ClientPoolConfig.MaxSize
    Retries,            \* ClientPoolConfig.Retries
    AcquireOnCreate,    \* ClientPoolConfig.AcquireOnCreate
    None                \* not a connection

ASSUME CallersAssumption == Notifiers \subseteq Callers /\ Patient \subseteq Callers
ASSUME SizeAssumption  == MaxSize \in Nat \ {0}
ASSUME RetryAssumption == Retries \in Int
ASSUME ConnsAssumption == IsFiniteSet(Conns) /\ None \notin Conns
ASSUME CreateAssumption == AcquireOnCreate \in BOOLEAN

\* cp.retries: the attempts of one operation.
Attempts == (IF Retries > 1 THEN Retries ELSE 1) + 1

VARIABLES
    ctx,        \* the callers whose context is done
    pc,         \* where each caller is
    held,       \* the connection a caller has acquired or is dialling
    tries,      \* connections on which a caller's operation has failed
    sends,      \* times a caller has put its request on a wire
    result,     \* how the operation of each caller ended
    conn,       \* the state of each connection
    stale,      \* connections the server has closed
    failed,     \* connections an operation has failed on
    marked,     \* connections Reset has condemned
    tokens,     \* puddle's semaphore
    closed,     \* cp.closed
    poolClosed, \* puddle's closed flag
    closing,    \* progress of the goroutine in Close
    timer,      \* "armed", "fired" (waiting for cp.mu), "reaping", "off"
    mu          \* whether the reaper holds cp.mu

callVars == <<ctx, pc, held, tries, sends, result>>
connVars == <<conn, stale, failed, marked, tokens>>
closeVars == <<closed, poolClosed, closing>>
idleVars == <<timer, mu>>
vars == <<callVars, connVars, closeVars, idleVars>>

(***************************************************************************)
(* A connection in the pool is being dialled, used by a caller, held by    *)
(* the reaper, idle, or being destroyed; a dropped one has left the pool   *)
(* and is being closed.                                                    *)
(***************************************************************************)
Busy   == {k \in Conns : conn[k] \in {"dialing", "used", "reaped", "destroying"}}
Idle   == {k \in Conns : conn[k] = "idle"}
InPool == Busy \cup Idle
Live   == {k \in Conns : conn[k] # "none"}

Init ==
    /\ ctx = {}
    /\ pc = [c \in Callers |-> "check"]
    /\ held = [c \in Callers |-> None]
    /\ tries = [c \in Callers |-> 0]
    /\ sends = [c \in Callers |-> 0]
    /\ result = [c \in Callers |-> "none"]
    /\ IF AcquireOnCreate
         THEN \E first \in Conns :
                conn = [k \in Conns |-> IF k = first THEN "idle" ELSE "none"]
         ELSE conn = [k \in Conns |-> "none"]
    /\ stale = {}
    /\ failed = {}
    /\ marked = {}
    /\ tokens = MaxSize
    /\ closed = FALSE
    /\ poolClosed = FALSE
    /\ closing = "open"
    /\ timer = "armed"
    /\ mu = FALSE

Return(c, r) ==
    /\ pc' = [pc EXCEPT ![c] = "done"]
    /\ result' = [result EXCEPT ![c] = r]
    /\ held' = [held EXCEPT ![c] = None]

(***************************************************************************)
(* The environment: contexts and the server.                               *)
(***************************************************************************)
CtxDone(c) ==
    /\ c \notin Patient
    /\ pc[c] # "done"
    /\ c \notin ctx
    /\ ctx' = ctx \cup {c}
    /\ UNCHANGED <<pc, held, tries, sends, result, connVars,
                   closeVars, idleVars>>

PeerCloses(k) ==
    /\ conn[k] \in {"used", "reaped", "idle"}
    /\ k \notin stale
    /\ stale' = stale \cup {k}
    /\ UNCHANGED <<callVars, conn, failed, marked, tokens, closeVars, idleVars>>

\* Mutant: a connection Reset has condemned is released like any other.
ReleaseToIdle(k) ==
    /\ conn' = [conn EXCEPT ![k] = IF poolClosed THEN "dropped" ELSE "idle"]
    /\ tokens' = tokens + 1
    /\ UNCHANGED <<stale, failed, marked>>

(***************************************************************************)
(* puddle: what becomes of a connection.                                   *)
(***************************************************************************)
\* Resource.Release and ReleaseUnused.
Release(k) ==
    /\ conn' = [conn EXCEPT
                  ![k] = IF poolClosed \/ k \in marked THEN "dropped" ELSE "idle"]
    /\ tokens' = tokens + 1
    /\ UNCHANGED <<stale, failed, marked>>

\* Resource.Destroy: a goroutine closes the connection, then gives the token
\* back.
Destroy(k) ==
    /\ conn' = [conn EXCEPT ![k] = "destroying"]
    /\ UNCHANGED <<stale, marked, tokens>>

\* The connection is closed and forgotten.
Forget(k) ==
    /\ conn' = [conn EXCEPT ![k] = "none"]
    /\ stale' = stale \ {k}
    /\ failed' = failed \ {k}
    /\ marked' = marked \ {k}

Destroyed(k) ==
    /\ conn[k] = "destroying"
    /\ Forget(k)
    /\ tokens' = tokens + 1
    /\ UNCHANGED <<callVars, closeVars, idleVars>>

Dropped(k) ==
    /\ conn[k] = "dropped"
    /\ Forget(k)
    /\ UNCHANGED <<callVars, tokens, closeVars, idleVars>>

(***************************************************************************)
(* One attempt of Call: the check of the context, Acquire, the call on the *)
(* connection, releaseMaybeRetry.                                          *)
(***************************************************************************)
Check(c) ==
    /\ pc[c] = "check"
    /\ IF c \in ctx
         THEN Return(c, "cancelled")
         ELSE pc' = [pc EXCEPT ![c] = "acquire"] /\ UNCHANGED <<held, result>>
    /\ UNCHANGED <<ctx, tries, sends, connVars, closeVars, idleVars>>

WaitCancelled(c) ==
    /\ pc[c] = "acquire"
    /\ tokens = 0
    /\ c \in ctx
    /\ Return(c, "cancelled")
    /\ UNCHANGED <<ctx, tries, sends, connVars, closeVars, idleVars>>

TakeToken(c) ==
    /\ pc[c] = "acquire"
    /\ tokens > 0
    /\ tokens' = tokens - 1
    /\ pc' = [pc EXCEPT ![c] = "lookup"]
    /\ UNCHANGED <<ctx, held, tries, sends, result, conn, stale,
                   failed, marked, closeVars, idleVars>>

FindClosed(c) ==
    /\ pc[c] = "lookup"
    /\ poolClosed
    /\ tokens' = tokens + 1
    /\ Return(c, "closed")
    /\ UNCHANGED <<ctx, tries, sends, conn, stale, failed, marked,
                   closeVars, idleVars>>

FindIdle(c, k) ==
    /\ pc[c] = "lookup"
    /\ ~poolClosed
    /\ k \in Idle
    /\ conn' = [conn EXCEPT ![k] = "used"]
    /\ held' = [held EXCEPT ![c] = k]
    /\ pc' = [pc EXCEPT ![c] = "send"]
    /\ UNCHANGED <<ctx, tries, sends, result, stale, failed, marked, tokens,
                   closeVars, idleVars>>

Dial(c, k) ==
    /\ pc[c] = "lookup"
    /\ ~poolClosed
    /\ Idle = {}
    /\ conn[k] = "none"
    /\ conn' = [conn EXCEPT ![k] = "dialing"]
    /\ held' = [held EXCEPT ![c] = k]
    /\ pc' = [pc EXCEPT ![c] = "dial"]
    /\ UNCHANGED <<ctx, tries, sends, result, stale, failed, marked, tokens,
                   closeVars, idleVars>>

\* The goroutine that dials goes on without the caller.
DialAbandoned(c) ==
    /\ pc[c] = "dial"
    /\ c \in ctx
    /\ Return(c, "cancelled")
    /\ UNCHANGED <<ctx, tries, sends, connVars, closeVars, idleVars>>

Waiters(k) == {c \in Callers : pc[c] = "dial" /\ held[c] = k}

DialOK(k) ==
    /\ conn[k] = "dialing"
    /\ IF Waiters(k) # {}
         THEN /\ conn' = [conn EXCEPT ![k] = "used"]
              /\ pc' = [c \in Callers |-> IF c \in Waiters(k) THEN "send" ELSE pc[c]]
              /\ UNCHANGED <<stale, failed, marked, tokens>>
         ELSE Release(k) /\ UNCHANGED pc
    /\ UNCHANGED <<ctx, held, tries, sends, result, closeVars, idleVars>>

\* Refused, or out of DialTimeout, or the pool was closed meanwhile.
DialFails(k) ==
    /\ conn[k] = "dialing"
    /\ Forget(k)
    /\ tokens' = tokens + 1
    /\ IF Waiters(k) # {}
         THEN \E c \in Waiters(k) : Return(c, "dial")
         ELSE UNCHANGED <<pc, result, held>>
    /\ UNCHANGED <<ctx, tries, sends, closeVars, idleVars>>

\* TransportClient.call looks at the context before it encodes.
Send(c) ==
    /\ pc[c] = "send"
    /\ c \notin ctx
    /\ sends' = [sends EXCEPT ![c] = @ + 1]
    /\ pc' = [pc EXCEPT ![c] = "await"]
    /\ UNCHANGED <<ctx, held, tries, result, connVars, closeVars, idleVars>>

\* A response has come, or the notification is written: a connection
\* the server has closed may still take one.
Answered(c) ==
    /\ pc[c] = "await"
    /\ held[c] \notin stale \/ c \in Notifiers
    /\ Release(held[c])
    /\ Return(c, "ok")
    /\ UNCHANGED <<ctx, tries, sends, closeVars, idleVars>>

\* The operation ends with error, or its next attempt begins: attempt number
\* last is the last one.
Retry(c, error, last) ==
    /\ tries' = [tries EXCEPT ![c] = @ + 1]
    /\ IF error # "eof" THEN Return(c, error)
       ELSE IF tries[c] + 1 = last THEN Return(c, "exceeded")
       ELSE /\ pc' = [pc EXCEPT ![c] = "check"]
            /\ held' = [held EXCEPT ![c] = None]
            /\ UNCHANGED result
    /\ UNCHANGED <<ctx, sends, closeVars, idleVars>>

\* Mutants: one attempt too few; the connection is released, or destroyed and
\* released, or kept by mistake.
FailOnceLess(c, error) ==
    /\ Destroy(held[c])
    /\ failed' = failed \cup {held[c]}
    /\ Retry(c, error, Attempts - 1)

FailReleases(c, error) ==
    /\ conn' = [conn EXCEPT ![held[c]] = "idle"]
    /\ tokens' = tokens + 1
    /\ failed' = failed \cup {held[c]}
    /\ Retry(c, error, Attempts)
    /\ UNCHANGED <<stale, marked>>

FailReleasesTwice(c, error) ==
    /\ conn' = [conn EXCEPT ![held[c]] = "destroying"]
    /\ tokens' = tokens + 1
    /\ failed' = failed \cup {held[c]}
    /\ Retry(c, error, Attempts)
    /\ UNCHANGED <<stale, marked>>

FailLeaks(c, error) ==
    /\ Retry(c, error, Attempts)
    /\ UNCHANGED connVars

(***************************************************************************)
(* releaseMaybeRetry: every error destroys the connection.  A context      *)
(* error, also one joined to another error, and every error but EOF and    *)
(* "closed" ends the operation; the others begin the next attempt, if one  *)
(* is left.                                                                *)
(***************************************************************************)
Fail(c, error) ==
    /\ Destroy(held[c])
    /\ failed' = failed \cup {held[c]}
    /\ Retry(c, error, Attempts)

\* An error of the context, with or without another one.
CallCancelled(c) ==
    /\ pc[c] \in {"send", "await"}
    /\ c \in ctx
    /\ Fail(c, "cancelled")

\* The server has closed it: EOF or net.ErrClosed, or a reset connection.
CallBroken(c, error) ==
    /\ pc[c] = "await"
    /\ held[c] \in stale
    /\ c \notin ctx
    /\ Fail(c, error)

\* The response is not what was expected, or the request cannot be encoded.
CallRejected(c) ==
    /\ pc[c] = "await"
    /\ held[c] \notin stale
    /\ c \notin ctx
    /\ Fail(c, "rejected")

(***************************************************************************)
(* Reset.                                                                  *)
(***************************************************************************)
Reset ==
    /\ conn' = [k \in Conns |-> IF k \in Idle THEN "dropped" ELSE conn[k]]
    /\ marked' = marked \cup Busy
    /\ conn' # conn \/ marked' # marked
    /\ UNCHANGED <<callVars, stale, failed, tokens, closeVars, idleVars>>

(***************************************************************************)
(* The callback of the idle timer.  AcquireAllIdle takes as many idle      *)
(* connections as there are tokens.                                        *)
(***************************************************************************)
TimerFires ==
    /\ timer = "armed"
    /\ timer' = "fired"
    /\ UNCHANGED <<callVars, connVars, closeVars, mu>>

ReapClosed ==
    /\ timer = "fired"
    /\ ~mu
    /\ closed
    /\ timer' = "off"
    /\ UNCHANGED <<callVars, connVars, closeVars, mu>>

ReapStart(taken) ==
    /\ timer = "fired"
    /\ ~mu
    /\ ~closed
    /\ taken \subseteq Idle
    /\ Cardinality(taken) =
          IF Cardinality(Idle) < tokens THEN Cardinality(Idle) ELSE tokens
    /\ conn' = [k \in Conns |-> IF k \in taken THEN "reaped" ELSE conn[k]]
    /\ tokens' = tokens - Cardinality(taken)
    /\ timer' = "reaping"
    /\ mu' = TRUE
    /\ UNCHANGED <<callVars, stale, failed, marked, closeVars>>

\* Mutant: the reaper takes connections it has not acquired.
ReapInUse(k) ==
    /\ timer = "reaping"
    /\ conn[k] \in {"reaped", "used"}
    /\ Destroy(k)
    /\ UNCHANGED <<callVars, failed, closeVars, idleVars>>

ReapExpired(k) ==
    /\ conn[k] = "reaped"
    /\ Destroy(k)
    /\ UNCHANGED <<callVars, failed, closeVars, idleVars>>

ReapFresh(k) ==
    /\ conn[k] = "reaped"
    /\ Release(k)
    /\ UNCHANGED <<callVars, closeVars, idleVars>>

\* Mutant: the timer is not set again.
ReapOnce ==
    /\ timer = "reaping"
    /\ \A k \in Conns : conn[k] # "reaped"
    /\ timer' = "off"
    /\ mu' = FALSE
    /\ UNCHANGED <<callVars, connVars, closeVars>>

ReapEnd ==
    /\ timer = "reaping"
    /\ \A k \in Conns : conn[k] # "reaped"
    /\ timer' = "armed"
    /\ mu' = FALSE
    /\ UNCHANGED <<callVars, connVars, closeVars>>

\* Mutant: Close does not take cp.mu.
CloseMarkUnlocked ==
    /\ closing = "open"
    /\ closed' = TRUE
    /\ timer' = IF timer = "armed" THEN "off" ELSE timer
    /\ closing' = "marked"
    /\ UNCHANGED <<callVars, connVars, poolClosed, mu>>

(***************************************************************************)
(* Close.                                                                  *)
(***************************************************************************)
\* Under cp.mu: Stop does not stop a callback that has begun.
CloseMark ==
    /\ closing = "open"
    /\ ~mu
    /\ closed' = TRUE
    /\ timer' = IF timer = "armed" THEN "off" ELSE timer
    /\ closing' = "marked"
    /\ UNCHANGED <<callVars, connVars, poolClosed, mu>>

ClosePool ==
    /\ closing = "marked"
    /\ poolClosed' = TRUE
    /\ conn' = [k \in Conns |-> IF k \in Idle THEN "dropped" ELSE conn[k]]
    /\ closing' = "draining"
    /\ UNCHANGED <<callVars, stale, failed, marked, tokens, closed, idleVars>>

\* pool.Close has waited for every connection to be destructed.
CloseReturns ==
    /\ closing = "draining"
    /\ Live = {}
    /\ closing' = "returned"
    /\ UNCHANGED <<callVars, connVars, closed, poolClosed, idleVars>>

Terminated ==
    /\ closing = "returned"
    /\ \A c \in Callers : pc[c] = "done"
    /\ UNCHANGED vars

Acquiring(c) ==
    \/ WaitCancelled(c) \/ TakeToken(c) \/ FindClosed(c) \/ DialAbandoned(c)
    \/ \E k \in Conns : FindIdle(c, k) \/ Dial(c, k)

Calling(c) ==
    \/ Check(c) \/ Send(c) \/ Answered(c) \/ CallCancelled(c)
    \/ CallRejected(c) \/ \E error \in {"eof", "reset"} : CallBroken(c, error)

Background(k) == DialOK(k) \/ DialFails(k) \/ Destroyed(k) \/ Dropped(k)

Reaping == \/ ReapClosed \/ ReapEnd
           \/ \E taken \in SUBSET Conns : ReapStart(taken)
           \/ \E k \in Conns : ReapExpired(k) \/ ReapFresh(k)

Closing == CloseMark \/ ClosePool \/ CloseReturns

Next ==
    \/ \E c \in Callers : CtxDone(c) \/ Acquiring(c) \/ Calling(c)
    \/ \E k \in Conns : PeerCloses(k) \/ Background(k)
    \/ TimerFires \/ Reaping \/ Reset \/ Closing
    \/ Terminated

Spec == Init /\ [][Next]_vars

(***************************************************************************)
(* Goroutines run; a connection answers or fails; a dial ends (it has a    *)
(* timeout); the semaphore serves its waiters in order; the timer fires.   *)
(* Closing is the caller's choice, but once begun it goes on.              *)
(***************************************************************************)
Fairness ==
    /\ \A c \in Callers : SF_vars(Acquiring(c)) /\ WF_vars(Calling(c))
    /\ \A k \in Conns : WF_vars(Background(k))
    /\ WF_vars(TimerFires \/ Reaping)
    /\ WF_vars(ClosePool \/ CloseReturns)

FairSpec == Spec /\ Fairness

-----------------------------------------------------------------------------
TypeOK ==
    /\ ctx \subseteq Callers
    /\ pc \in [Callers -> {"check", "acquire", "lookup", "dial", "send", "await", "done"}]
    /\ held \in [Callers -> Conns \cup {None}]
    /\ tries \in [Callers -> 0 .. Attempts]
    /\ sends \in [Callers -> 0 .. Attempts]
    /\ result \in [Callers -> {"none", "ok", "cancelled", "closed", "dial",
                               "exceeded", "reset", "rejected"}]
    /\ conn \in [Conns -> {"none", "dialing", "used", "reaped", "idle",
                           "destroying", "dropped"}]
    /\ stale \subseteq Conns /\ failed \subseteq Conns /\ marked \subseteq Conns
    /\ tokens \in 0 .. MaxSize
    /\ closed \in BOOLEAN /\ poolClosed \in BOOLEAN
    /\ closing \in {"open", "marked", "draining", "returned"}
    /\ timer \in {"armed", "fired", "reaping", "off"}
    /\ mu \in BOOLEAN

(***************************************************************************)
(* A connection is used by one caller at a time, never by a caller and the *)
(* reaper, and by nobody while it is idle or being closed: what lets       *)
(* TransportClient do without matching responses to requests.              *)
(***************************************************************************)
ExclusiveUse ==
    /\ \A c, d \in Callers :
          (held[c] # None /\ held[c] = held[d]) => c = d
    /\ \A c \in Callers : pc[c] \in {"send", "await"} => conn[held[c]] = "used"

(***************************************************************************)
(* A connection on which an operation failed is never handed out again     *)
(* ("This ensures potentially corrupted connections are not reused").      *)
(***************************************************************************)
FailedNeverReused ==
    \A k \in failed : conn[k] = "destroying"

(***************************************************************************)
(* No token is lost or made: every one is free, with a caller looking for  *)
(* a connection, or with a busy connection; so the pool never holds more   *)
(* than MaxSize connections and can always grow back to it.                *)
(***************************************************************************)
TokensConserved ==
    /\ tokens + Cardinality(Busy)
         + Cardinality({c \in Callers : pc[c] = "lookup"}) = MaxSize
    /\ Cardinality(InPool) <= MaxSize

(***************************************************************************)
(* When Close returns no connection is left, no caller is on one, the idle *)
(* timer is not armed and never will be.                                   *)
(***************************************************************************)
CloseIsFinal ==
    /\ closing = "returned" =>
         /\ Live = {}
         /\ \A c \in Callers : pc[c] \notin {"send", "await"}
    /\ closed => timer \in {"fired", "off"}

(***************************************************************************)
(* A request goes on a wire again only after the connection it went on     *)
(* before has failed, and at most Attempts times; ErrRetriesExceeded means *)
(* that every attempt was made and lost.                                   *)
(***************************************************************************)
RetryBudget ==
    \A c \in Callers :
        /\ tries[c] <= Attempts
        /\ sends[c] \in {tries[c] - 1, tries[c], tries[c] + 1}
        /\ pc[c] = "await" => sends[c] = tries[c] + 1
        /\ result[c] = "ok" => sends[c] = tries[c] + 1
        /\ result[c] = "exceeded" => sends[c] = Attempts /\ tries[c] = Attempts

(***************************************************************************)
(* A connection that existed when Reset was called is never idle, so never *)
(* handed out, afterwards: also one the reaper held or was being dialled.  *)
(***************************************************************************)
ResetCondemns == marked \cap Idle = {}

(***************************************************************************)
(* Every operation ends, whatever the server, Reset and Close do, and so   *)
(* does a Close that has begun: neither waits for what the other holds.    *)
(***************************************************************************)
EverythingEnds ==
    /\ <>(\A c \in Callers : pc[c] = "done")
    /\ (closing # "open") ~> (closing = "returned")

(***************************************************************************)
(* Idle connections keep being looked at until the pool is closed.         *)
(***************************************************************************)
ReaperLives == []<>(timer = "armed" \/ closed)
=============================================================================

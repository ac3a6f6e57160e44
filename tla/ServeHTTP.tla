----------------------------- MODULE ServeHTTP -----------------------------
(***************************************************************************)
(* Server.listenAndServeHTTP (src/server.go): the call of                  *)
(* http.Server.ListenAndServe, the goroutine that shuts the server down    *)
(* when the context is done, and the requests in progress.  net/http is    *)
(* external: Shutdown closes the listeners, which makes ListenAndServe     *)
(* return at once, and then waits for the requests; Close ends them.       *)
(***************************************************************************)
EXTENDS ServerContext

CONSTANT Requests       \* the HTTP requests that may come in: the bound

VARIABLES
    httpStopped,    \* the deferred stop() has been called
    httpListening,  \* the http.Server accepts requests
    httpServe,      \* "serving", "returned"
    helper,         \* the goroutine: "waiting", "shutdown", "done"
    sctxDone,       \* the context given to Shutdown is done
    elapsed,        \* HTTPShutdownTimeout has passed since Shutdown began
    httpReq         \* "none", "active", "served" or "cut"

httpVars == <<ctxDone, httpStopped, httpListening, httpServe, helper, sctxDone,
              elapsed, httpReq>>

ShutdownCtxDone == ctxDone \/ httpStopped

Active == {r \in Requests : httpReq[r] = "active"}

HTTPInit ==
    /\ ctxDone = FALSE
    /\ httpStopped = FALSE
    /\ httpListening = TRUE
    /\ httpServe = "serving"
    /\ helper = "waiting"
    /\ sctxDone = FALSE
    /\ elapsed = FALSE
    /\ httpReq = [r \in Requests |-> "none"]

HTTPCancel ==
    /\ ~ctxDone
    /\ ctxDone' = TRUE
    /\ UNCHANGED <<httpStopped, httpListening, httpServe, helper, sctxDone, elapsed, httpReq>>

HTTPRequest(r) ==
    /\ httpListening
    /\ httpServe = "serving"
    /\ httpReq[r] = "none"
    /\ httpReq' = [httpReq EXCEPT ![r] = "active"]
    /\ UNCHANGED <<ctxDone, httpStopped, httpListening, httpServe, helper, sctxDone, elapsed>>

Respond(r) ==
    /\ httpReq[r] = "active"
    /\ httpReq' = [httpReq EXCEPT ![r] = "served"]
    /\ UNCHANGED <<ctxDone, httpStopped, httpListening, httpServe, helper, sctxDone, elapsed>>

\* ListenAndServe returns: the listener was closed by Shutdown, or listening or
\* accepting failed.  The deferred stop() follows.
HTTPReturn ==
    /\ httpServe = "serving"
    /\ httpServe' = "returned"
    /\ httpStopped' = TRUE
    /\ UNCHANGED <<ctxDone, httpListening, helper, sctxDone, elapsed, httpReq>>

\* Mutant: the timeout is derived from shutdownCtx, which is already done.
ShutdownCancelled ==
    /\ helper = "waiting"
    /\ ShutdownCtxDone
    /\ helper' = "shutdown"
    /\ httpListening' = FALSE
    /\ sctxDone' = TRUE
    /\ UNCHANGED <<ctxDone, httpStopped, httpServe, elapsed, httpReq>>

\* Mutant: the goroutine waits for ctx instead of shutdownCtx.
ShutdownOnCtx ==
    /\ helper = "waiting"
    /\ ctxDone
    /\ helper' = "shutdown"
    /\ httpListening' = FALSE
    /\ UNCHANGED <<ctxDone, httpStopped, httpServe, sctxDone, elapsed, httpReq>>

\* <-shutdownCtx.Done(), then Shutdown with a context of its own.
Shutdown ==
    /\ helper = "waiting"
    /\ ShutdownCtxDone
    /\ helper' = "shutdown"
    /\ httpListening' = FALSE
    /\ UNCHANGED <<ctxDone, httpStopped, httpServe, sctxDone, elapsed, httpReq>>

TimeoutElapses ==
    /\ helper = "shutdown"
    /\ ~elapsed
    /\ elapsed' = TRUE
    /\ sctxDone' = TRUE
    /\ UNCHANGED <<ctxDone, httpStopped, httpListening, httpServe, helper, httpReq>>

ShutdownCompletes ==
    /\ helper = "shutdown"
    /\ Active = {}
    /\ helper' = "done"
    /\ UNCHANGED <<ctxDone, httpStopped, httpListening, httpServe, sctxDone, elapsed, httpReq>>

\* Shutdown returns the error of its context; Close ends the rest.
ForceClose ==
    /\ helper = "shutdown"
    /\ sctxDone
    /\ helper' = "done"
    /\ httpReq' = [r \in Requests |-> IF r \in Active THEN "cut" ELSE httpReq[r]]
    /\ UNCHANGED <<ctxDone, httpStopped, httpListening, httpServe, sctxDone, elapsed>>

HTTPTerminated == httpServe = "returned" /\ helper = "done" /\ UNCHANGED httpVars

HTTPNext ==
    \/ HTTPCancel \/ HTTPReturn \/ Shutdown \/ TimeoutElapses \/ ShutdownCompletes
    \/ ForceClose \/ HTTPTerminated
    \/ \E r \in Requests : HTTPRequest(r) \/ Respond(r)

HTTPSpec == HTTPInit /\ [][HTTPNext]_httpVars

\* Goroutines run and time passes.  A handler need never return.
HTTPFairness ==
    /\ WF_httpVars(~httpListening /\ HTTPReturn)
    /\ WF_httpVars(Shutdown)
    /\ WF_httpVars(TimeoutElapses)
    /\ WF_httpVars(ShutdownCompletes \/ ForceClose)

-----------------------------------------------------------------------------
(***************************************************************************)
(* "shutdown respects the Server.HTTPShutdownTimeout" (comment of          *)
(* ListenAndServe): a request is cut off only after that time, although    *)
(* the context that triggers the shutdown is done from the start.          *)
(***************************************************************************)
CutOnlyAfterTimeout == \A r \in Requests : httpReq[r] = "cut" => elapsed

(***************************************************************************)
(* The goroutine never outlives the server: it ends after a cancellation   *)
(* and also when ListenAndServe fails with the context live.               *)
(***************************************************************************)
HelperEnds ==
    (helper = "waiting" /\ (ctxDone \/ httpServe = "returned")) ~> helper = "done"
=============================================================================

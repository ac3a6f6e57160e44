--------------------------- MODULE ServerContext ---------------------------
(***************************************************************************)
(* The context that the caller of Server.ListenAndServe, Serve and         *)
(* ServePacket gives them: all that the three kinds of server share.       *)
(***************************************************************************)
VARIABLE ctxDone        \* the caller's context is done
=============================================================================

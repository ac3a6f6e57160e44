---------------------------- MODULE MCHTTPBridge ----------------------------
(***************************************************************************)
(* Two POSTs, of one bridge or of others.                                  *)
(***************************************************************************)
EXTENDS HTTPBridge

CONSTANTS p1, p2

\* A call, and whatever else may go on at the bridge or at the handler.
MCRoles == {[p \in {p1, p2} |-> IF p = p1 THEN "call" ELSE r] :
                r \in {"call", "notify", "close", "other"}}

\* Nothing checks that a call carries a request, or a notification none: a batch
\* may be empty, and the raw operations take any message.
MCPayloads == [o \in {"call", "notify"} |->
                 IF o = "call" THEN {<<"request">>} ELSE {<<"notify">>, << >>}]

Json(messages, end) == [json |-> TRUE, messages |-> messages, end |-> end]

MCOtherBodies ==
    {[json |-> FALSE, messages |-> << <<"request">> >>, end |-> "eof"],
     Json(<< <<"notify", "request">>, << >> >>, "truncated"),
     Json(<< <<"invalid", "notify">> >>, "eof"),
     Json(<< <<"invalid", "notify">> >>, "toolarge"),
     Json(<< <<"notify">> >>, "syntax"),
     Json(<< <<"request">>, <<"notify">> >>, "broken")}
=============================================================================

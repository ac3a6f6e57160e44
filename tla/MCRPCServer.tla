---------------------------- MODULE MCRPCServer ----------------------------
(***************************************************************************)
(* Configurations of RPCServer for TLC.                                    *)
(***************************************************************************)
EXTENDS RPCServer

Server(noRoutines, serial, wait, stream, transport, timeout) ==
    [NoRoutines |-> noRoutines, SerialBatch |-> serial, WaitOnClose |-> wait,
     Stream |-> stream, Transport |-> transport, WriteTimeout |-> timeout]

\* Streams over a net.Conn and packet servers, with every option.
NetConfigs ==
    {Server(n, s, w, st, "deadline", TRUE) : n, s, w, st \in BOOLEAN}

\* Every transport, with and without a timeout on writes, and every option but
\* for SerialBatch, which says nothing about single requests.
IOConfigs == {c \in ConfigType : c.SerialBatch}

\* The zero value of the options over a net.Conn.
DefaultConfig == {Server(FALSE, FALSE, FALSE, TRUE, "deadline", TRUE)}
=============================================================================

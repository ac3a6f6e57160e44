-------------------------- MODULE MCBatchExchange --------------------------
(***************************************************************************)
(* IDs for TLC: every kind of ID, and numbers that meet the counter's.     *)
(***************************************************************************)
EXTENDS BatchExchange

SomeOwnIDs ==
    {NoID, NullID, StringID(0), IntID(0), NumberID(0, "alt"), NumberID(0, "other")}

SomeStrayIDs == {NullID, IntID(0), NumberID(0, "alt")}
=============================================================================

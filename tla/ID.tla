--------------------------------- MODULE ID ---------------------------------
(***************************************************************************)
(* Request IDs (src/id.go): the kinds of ID, their JSON, and ID.Equal.     *)
(*                                                                         *)
(* An ID is a record of its kind, a value and a form.  Strings and numbers *)
(* are named by integers.  The form matters for a json.Number, which keeps *)
(* its spelling: "int" is the decimal spelling of an integer, "alt" one    *)
(* that is parsed to the same integer ("-0"), "other" a number that is no  *)
(* int64 (a fraction, an exponent, a value out of range).                  *)
(***************************************************************************)
EXTENDS Integers

NoID       == [kind |-> "zero", val |-> 0, form |-> "none"]
NullID     == [kind |-> "null", val |-> 0, form |-> "none"]
StringID(s) == [kind |-> "string", val |-> s, form |-> "none"]
IntID(n)    == [kind |-> "int64", val |-> n, form |-> "none"]
NumberID(n, form) == [kind |-> "number", val |-> n, form |-> form]

\* Every ID has this shape.
IDs == [kind : {"zero", "null", "string", "int64", "number"}, val : Int,
        form : {"none", "int", "alt", "other"}]

IsZero(id) == id.kind = "zero"
IsNull(id) == id.kind = "null"

\* Int64 returns no error.
IsInt64(id) == \/ id.kind = "int64"
               \/ id.kind = "number" /\ id.form # "other"

\* Mutant: IDs of different Go types are never equal.
EqualTyped(id, t) == ~IsZero(id) /\ id = t

(***************************************************************************)
(* id.Equal(t): two json.Numbers are equal as they are spelled, an int64   *)
(* and a json.Number as integers, nothing equals a zero ID.                *)
(***************************************************************************)
Equal(id, t) ==
    /\ ~IsZero(id)
    /\ ~IsZero(t)
    /\ \/ IsNull(id) /\ IsNull(t)
       \/ id.kind = "number" /\ t.kind = "number" /\ id = t
       \/ id.kind = "number" /\ t.kind = "int64" /\ IsInt64(id) /\ id.val = t.val
       \/ id.kind = "int64" /\ IsInt64(t) /\ id.val = t.val
       \/ id.kind = "string" /\ id = t

(***************************************************************************)
(* MarshalJSON followed by the UnmarshalJSON of the peer: what a peer      *)
(* decodes where this ID was encoded.  A zero ID is written as null, an    *)
(* int64 comes back as a json.Number.                                      *)
(***************************************************************************)
Decoded(id) ==
    CASE id.kind = "zero"  -> NullID
      [] id.kind = "int64" -> NumberID(id.val, "int")
      [] OTHER             -> id
=============================================================================

------------------------------ MODULE ReadLimit ------------------------------
(***************************************************************************)
(* The read limit of a StreamDecoder (src/decoder.go): an io.LimitedReader *)
(* between the transport and a json.Decoder that buffers what it reads.    *)
(* The limit is counted per Decode call from the transport, while a        *)
(* message may begin in bytes that an earlier call has buffered.           *)
(*                                                                         *)
(* A stream is a sequence of well-formed objects and arrays.  Message i,   *)
(* with the white space before it, ends after ends[i] bytes (ends[0] = 0); *)
(* len bytes come before the end of the stream, which may cut the last     *)
(* message or leave white space after it.                                  *)
(***************************************************************************)
EXTENDS Integers

CONSTANTS
    Streams,    \* the streams a peer may send
    Limits      \* the limits SetLimit is called with; 0 or less is no limit

IsStream(s) ==
    /\ s.count \in Nat
    /\ s.len \in Nat
    /\ s.ends \in [0 .. s.count -> Nat]
    /\ s.ends[0] = 0
    /\ \A i \in 1 .. s.count : s.ends[i - 1] < s.ends[i]

ASSUME StreamAssumption == \A s \in Streams : IsStream(s)
ASSUME LimitAssumption  == Limits \subseteq Int

VARIABLES
    stream,     \* what the peer sends
    n,          \* StreamDecoder.n
    N,          \* LimitedReader.N, where there is a limit
    got,        \* bytes read from the transport
    i,          \* messages decoded; the buffer holds bytes ends[i] to got
    phase,      \* "idle" between Decode calls, "reading" inside of one
    spent,      \* json.Decoder.err is set: it has failed and stays so
    last        \* what the last Decode returned: "none" before the first,
                \* "message", "toolarge", "eof" (EOF or ErrUnexpectedEOF),
                \* "error"

vars == <<stream, n, N, got, i, phase, spent, last>>

Limited == n > 0

Init ==
    /\ stream \in Streams
    /\ n = 0
    /\ N = 0
    /\ got = 0
    /\ i = 0
    /\ phase = "idle"
    /\ spent = FALSE
    /\ last = "none"

\* SetLimit makes a new json.Decoder; it is called before the first Decode.
SetLimit(limit) ==
    /\ last = "none"
    /\ phase = "idle"
    /\ n' = limit
    /\ N' = limit
    /\ UNCHANGED <<stream, got, i, phase, spent, last>>

\* Mutant: Decode does not give the reader a new allowance.
AllowanceKept == N

\* What Decode sets LimitedReader.N to.
Allowance == n

Decode ==
    /\ phase = "idle"
    /\ N' = Allowance
    /\ IF spent
         THEN last' = (IF last = "error" THEN "error" ELSE "eof") /\ UNCHANGED phase
         ELSE phase' = "reading" /\ UNCHANGED last
    /\ UNCHANGED <<stream, n, got, i, spent>>

\* The buffer holds the next message to its end.
Complete == i < stream.count /\ stream.ends[i + 1] <= got

Deliver ==
    /\ phase = "reading"
    /\ Complete
    /\ i' = i + 1
    /\ phase' = "idle"
    /\ last' = "message"
    /\ UNCHANGED <<stream, n, N, got, spent>>

\* Mutant: the allowance is per read.
LeftPerRead(k) == N

\* LimitedReader.Read of k bytes leaves this.
Left(k) == N - k

\* The buffer is scanned before more is read.
Read(k) ==
    /\ phase = "reading"
    /\ ~Complete
    /\ got + k <= stream.len
    /\ Limited => k <= N
    /\ got' = got + k
    /\ N' = IF Limited THEN Left(k) ELSE N
    /\ UNCHANGED <<stream, n, i, phase, spent, last>>

Fail(result) ==
    /\ phase' = "idle"
    /\ spent' = TRUE
    /\ last' = result
    /\ UNCHANGED <<stream, n, N, got, i>>

\* The reader reports EOF; ioErr tells the limit from the end of the stream.
ReadEOF ==
    /\ phase = "reading"
    /\ ~Complete
    /\ \/ Limited /\ N <= 0 /\ Fail("toolarge")
       \/ ~(Limited /\ N <= 0) /\ got = stream.len /\ Fail("eof")

\* Another read error, such as a deadline.
ReadFails ==
    /\ phase = "reading"
    /\ ~Complete
    /\ ~(Limited /\ N <= 0)
    /\ Fail("error")

Next ==
    \/ \E limit \in Limits : SetLimit(limit)
    \/ Decode \/ Deliver \/ ReadEOF \/ ReadFails
    \/ \E k \in 1 .. (stream.len - got) : Read(k)

Spec == Init /\ [][Next]_vars

-----------------------------------------------------------------------------
(***************************************************************************)
(* Types, where the buffer is, and that a spent decoder reads no more.     *)
(***************************************************************************)
TypeOK ==
    /\ stream \in Streams
    /\ n \in Int
    /\ N \in Int
    /\ i \in 0 .. stream.count
    /\ got \in stream.ends[i] .. stream.len
    /\ phase \in {"idle", "reading"}
    /\ spent \in BOOLEAN
    /\ last \in {"none", "message", "toolarge", "eof", "error"}
    /\ spent => phase = "idle"

(***************************************************************************)
(* However reads cut the stream and whatever is buffered, no message of    *)
(* twice the limit is accepted: with the white space before it, a message  *)
(* that Decode returned under limit n has at most 2n - 1 bytes.  (The      *)
(* comment on SetLimit says n.)                                            *)
(***************************************************************************)
ExcessBounded ==
    Limited => \A j \in 1 .. i : stream.ends[j] - stream.ends[j - 1] <= 2 * n - 1

(***************************************************************************)
(* ErrJSONTooLarge is never the answer to a message that fits the limit    *)
(* with the white space before it, however long the stream before it was   *)
(* and however reads cut it.                                               *)
(***************************************************************************)
FittingNeverRefused ==
    last = "toolarge" =>
        \/ i < stream.count /\ stream.ends[i + 1] - stream.ends[i] > n
        \/ i = stream.count /\ stream.len - stream.ends[i] >= n
=============================================================================

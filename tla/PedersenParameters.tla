------------------------- MODULE PedersenParameters -------------------------
(***************************************************************************)
(* PedersenCommitmentParameters: setup, write_le and read_le              *)
(* (src/algorithms/src/commitment/pedersen_parameters.rs).                 *)
(*                                                                         *)
(* The byte stream is a sequence of tokens: a u32 length prefix or one     *)
(* group element.  The group is Z_Order under addition, so               *)
(* double_in_place is x |-> 2x mod Order; a token is a valid element       *)
(* encoding iff it is below Order.  The u32 casts keep their width: a      *)
(* length is written modulo 2^U32Bits.                                     *)
(*                                                                         *)
(* One set of parameters is set up, written, possibly corrupted in         *)
(* transit or storage, and read back; or a stream from an untrusted source *)
(* is read.                                                                *)
(***************************************************************************)
EXTENDS Integers, Sequences, SequencesExt

CONSTANTS
    NumWindows,      \* NUM_WINDOWS
    WindowSize,      \* WINDOW_SIZE
    Order,           \* order of the group G
    U32Bits,         \* width of u32
    MaxToken,        \* largest token a corrupted stream may hold
    MaxCorruptions,  \* bound on the corruptions of the stream
    MaxForeignLen    \* longest stream received from elsewhere

ASSUME Order >= 2 /\ MaxToken >= Order /\ MaxToken < 2^U32Bits

VARIABLES
    params,       \* [bases, random_base] after setup
    bytes,        \* the written (and possibly corrupted) stream
    corruptions,  \* how many corruptions the stream has suffered
    decoded,      \* what read_le returned: [ok, v, rest]
    pc            \* "init" | "setup" | "written" | "read"

vars == <<params, bytes, corruptions, decoded, pc>>

G == 0..(Order - 1)

Double(g) == (2 * g) % Order

U32(n) == n % 2^U32Bits

(***************************************************************************)
(* setup: random_base is a random base and its WINDOW_SIZE - 1 doublings;  *)
(* PedersenCRH::setup draws NUM_WINDOWS windows of WINDOW_SIZE bases.      *)
(***************************************************************************)
RandomBase(g) == [i \in 1..WindowSize |-> FoldLeft(LAMBDA x, y : Double(x), g, [j \in 1..(i - 1) |-> 0])]

Setups == {[bases |-> b, random_base |-> RandomBase(g)] :
              b \in [1..NumWindows -> [1..WindowSize -> G]], g \in G}

(***************************************************************************)
(* write_le.                                                               *)
(***************************************************************************)
WriteBase(base) == <<U32(Len(base))>> \o base

\* Mutant: the length of random_base is left out.
WriteLeNoRandomLen(p) ==
    FlattenSeq([i \in 1..Len(p.bases) |-> WriteBase(p.bases[i])]) \o p.random_base

WriteLe(p) ==
    <<U32(Len(p.bases))>>
        \o FlattenSeq([i \in 1..Len(p.bases) |-> WriteBase(p.bases[i])])
        \o WriteBase(p.random_base)

(***************************************************************************)
(* read_le: a result is [ok, v, rest, cap]: rest the bytes not consumed,   *)
(* cap the largest Vec::with_capacity the read asked for, failed or not.  *)
(***************************************************************************)
Fail(cap) == [ok |-> FALSE, v |-> <<>>, rest |-> <<>>, cap |-> cap]

Err == Fail(0)

Done(v, rest, cap) == [ok |-> TRUE, v |-> v, rest |-> rest, cap |-> cap]

ReadU32(b) == IF b = <<>> THEN Err ELSE Done(Head(b), Tail(b), 0)

\* Mutant: any token is taken as an element.
ReadGUnchecked(b) ==
    IF b = <<>> THEN Err ELSE Done(Head(b), Tail(b), 0)

\* Mutant: an element encoding is reduced instead of validated.
ReadGReduced(b) ==
    IF b = <<>> THEN Err ELSE Done(Head(b) % Order, Tail(b), 0)

\* G::read_le: the next token, if it encodes an element.
ReadG(b) ==
    IF b = <<>> \/ Head(b) \notin G THEN Err ELSE Done(Head(b), Tail(b), 0)

\* Read n elements, in order.
RECURSIVE ReadGs(_, _, _)
ReadGs(b, n, acc) ==
    IF n = 0 THEN Done(acc, b, 0)
    ELSE LET r == ReadG(b)
         IN IF ~r.ok THEN Err ELSE ReadGs(r.rest, n - 1, Append(acc, r.v))

Larger(a, b) == IF a >= b THEN a ELSE b

\* A u32 length, Vec::with_capacity(length), then that many elements.
ReadBase(b) ==
    LET n == ReadU32(b)
        r == ReadGs(n.rest, n.v, <<>>)
    IN IF ~n.ok THEN Err ELSE [r EXCEPT !.cap = n.v]

RECURSIVE ReadBases(_, _, _, _)
ReadBases(b, n, acc, cap) ==
    IF n = 0 THEN Done(acc, b, cap)
    ELSE LET r == ReadBase(b)
             c == Larger(cap, r.cap)
         IN IF ~r.ok THEN Fail(c) ELSE ReadBases(r.rest, n - 1, Append(acc, r.v), c)

ReadLe(b) ==
    LET n  == ReadU32(b)
        bs == IF n.ok THEN ReadBases(n.rest, n.v, <<>>, n.v) ELSE Err
        rb == IF bs.ok THEN ReadBase(bs.rest) ELSE Err
        c  == Larger(bs.cap, rb.cap)
    IN IF ~rb.ok THEN Fail(c)
       ELSE Done([bases |-> bs.v, random_base |-> rb.v], rb.rest, c)

(***************************************************************************)
(* Actions.                                                                *)
(***************************************************************************)
Setup(p) ==
    /\ pc = "init"
    /\ params' = p
    /\ pc' = "setup"
    /\ UNCHANGED <<bytes, corruptions, decoded>>

\* Instead of parameters of its own, the reader is handed a stream from an
\* untrusted source.
Receive(b) ==
    /\ pc = "init"
    /\ bytes' = b
    /\ pc' = "written"
    /\ UNCHANGED <<params, corruptions, decoded>>

Write ==
    /\ pc = "setup"
    /\ bytes' = WriteLe(params)
    /\ pc' = "written"
    /\ UNCHANGED <<params, corruptions, decoded>>

\* The stream loses its last token.
Truncate ==
    /\ pc = "written"
    /\ bytes # <<>>
    /\ corruptions < MaxCorruptions
    /\ bytes' = Front(bytes)
    /\ corruptions' = corruptions + 1
    /\ UNCHANGED <<params, decoded, pc>>

\* One token of the stream is overwritten.
Overwrite(i, v) ==
    /\ pc = "written"
    /\ corruptions < MaxCorruptions
    /\ bytes[i] # v
    /\ bytes' = ReplaceAt(bytes, i, v)
    /\ corruptions' = corruptions + 1
    /\ UNCHANGED <<params, decoded, pc>>

Read ==
    /\ pc = "written"
    /\ decoded' = ReadLe(bytes)
    /\ pc' = "read"
    /\ UNCHANGED <<params, bytes, corruptions>>

NoParams == [bases |-> <<>>, random_base |-> <<>>]

Init ==
    /\ params = NoParams
    /\ bytes = <<>>
    /\ corruptions = 0
    /\ decoded = Err
    /\ pc = "init"

Next ==
    \/ \E p \in Setups : Setup(p)
    \/ \E b \in BoundedSeq(0..MaxToken, MaxForeignLen) : Receive(b)
    \/ Write
    \/ Truncate
    \/ \E i \in 1..Len(bytes), v \in 0..MaxToken : Overwrite(i, v)
    \/ Read

Spec == Init /\ [][Next]_vars

(***************************************************************************)
(* Properties.                                                             *)
(***************************************************************************)
TypeOK ==
    /\ pc \in {"init", "setup", "written", "read"}
    /\ corruptions \in 0..MaxCorruptions
    /\ \A i \in 1..Len(bytes) : bytes[i] \in 0..MaxToken
    /\ decoded.ok \in BOOLEAN
    /\ decoded.cap \in 0..MaxToken
    /\ decoded.ok =>
          \A s \in ToSet(decoded.v.bases) \cup {decoded.v.random_base} : ToSet(s) \subseteq G

\* read_le inverts write_le: the parameters setup produced, written and
\* read back untouched, are the same parameters and the whole stream is
\* consumed (spec: length-prefixed canonical encoding).
RoundTrip ==
    pc = "read" /\ params # NoParams /\ corruptions = 0 =>
        /\ decoded.ok /\ decoded.v = params /\ decoded.rest = <<>>

\* The encoding is canonical: whatever stream read_le accepts, even a
\* corrupted one, is exactly the write_le of what it returned followed by
\* the bytes it left unread; no two streams decode to the same parameters.
AcceptedStreamIsCanonical ==
    pc = "read" /\ decoded.ok => WriteLe(decoded.v) \o decoded.rest = bytes

=============================================================================

----------------------------- MODULE CircuitInfo -----------------------------
(***************************************************************************)
(* CircuitInfo::get_degree_bounds                                          *)
(* (src/algorithms/src/snark/varuna/ahp/indexer/circuit_info.rs).          *)
(*                                                                         *)
(* Each bound is EvaluationDomain::compute_size_of_domain(n).unwrap() - 2  *)
(* in usize arithmetic.  compute_size_of_domain(n) is the next power of    *)
(* two of n (1 for n = 0), or None when that exceeds 2^TWO_ADICITY of the  *)
(* scalar field; unwrap then panics.  The subtraction underflows for a     *)
(* domain of size 1: a build with overflow checks panics, one without      *)
(* wraps modulo 2^usize.                                                   *)
(*                                                                         *)
(* ToBytes::write_le writes the six counters, each cast to u64, as eight *)
(* little-endian bytes, in a fixed order.                                  *)
(*                                                                         *)
(* The state is a CircuitInfo, what get_degree_bounds returns for it, and  *)
(* the bytes write_le writes for it.                                       *)
(***************************************************************************)
EXTENDS Integers, FiniteSets, Sequences

CONSTANTS
    UsizeBits,       \* width of usize
    TwoAdicity,      \* F::FftParameters::TWO_ADICITY
    Counts,          \* the counter values a CircuitInfo may hold
    OverflowChecks   \* whether the build checks arithmetic overflow

ASSUME UsizeBits \in 1..64 /\ TwoAdicity \in Nat
ASSUME Counts \subseteq 0..(2^UsizeBits - 1)
ASSUME OverflowChecks \in BOOLEAN

VARIABLES
    info,     \* the CircuitInfo
    outcome,  \* [status: "none" | "panic" | "ok", bounds: the four bounds]
    encoding  \* the bytes write_le wrote, <<>> before it runs

vars == <<info, outcome, encoding>>

Fields == {"num_public_inputs", "num_variables", "num_constraints",
          "num_non_zero_a", "num_non_zero_b", "num_non_zero_c"}

\* The fields the four bounds are taken from, in order (g_1, g_A, g_B, g_C).
BoundFields == <<"num_variables", "num_non_zero_a", "num_non_zero_b", "num_non_zero_c">>

(***************************************************************************)
(* usize::checked_next_power_of_two and compute_size_of_domain.            *)
(***************************************************************************)
NextPowerOfTwo(n) ==
    LET k == CHOOSE k \in 0..UsizeBits : 2^k >= n /\ (k = 0 \/ 2^(k - 1) < n)
    IN 2^k

TrailingZeros(d) == CHOOSE k \in 0..UsizeBits : 2^k = d

\* None is represented by -1.
ComputeSizeOfDomain(n) ==
    IF n > 2^(UsizeBits - 1) THEN -1
    ELSE LET d == NextPowerOfTwo(n)
         IN IF TrailingZeros(d) > TwoAdicity THEN -1 ELSE d

\* The panic of an overflowing subtraction: a value no usize holds.
OverflowPanic == 2^UsizeBits

\* Mutant: plain subtraction, as if usize were signed.
UsizeSubUnchecked(a, b) == a - b

\* a - b in usize: wraps, or panics when the build checks overflow.
UsizeSub(a, b) ==
    IF a >= b THEN a - b
    ELSE IF OverflowChecks THEN OverflowPanic ELSE (a - b) % 2^UsizeBits

None == [status |-> "none", bounds |-> <<>>]

\* Mutant: one subtracted instead of two.
GetDegreeBoundsMinusOne(ci) ==
    LET sizes  == [k \in 1..4 |-> ComputeSizeOfDomain(ci[BoundFields[k]])]
        bounds == [k \in 1..4 |-> UsizeSub(sizes[k], 1)]
    IN IF \E k \in 1..4 : sizes[k] = -1 \/ bounds[k] = OverflowPanic
       THEN [status |-> "panic", bounds |-> <<>>]
       ELSE [status |-> "ok", bounds |-> bounds]

\* get_degree_bounds: a panic, or the four bounds.
GetDegreeBounds(ci) ==
    LET sizes  == [k \in 1..4 |-> ComputeSizeOfDomain(ci[BoundFields[k]])]
        bounds == [k \in 1..4 |-> UsizeSub(sizes[k], 2)]
    IN IF \E k \in 1..4 : sizes[k] = -1 \/ bounds[k] = OverflowPanic
       THEN [status |-> "panic", bounds |-> <<>>]
       ELSE [status |-> "ok", bounds |-> bounds]

(***************************************************************************)
(* The reference: the smallest power of two at least n (spec section 8),  *)
(* by doubling from 1.                                                     *)
(***************************************************************************)
RECURSIVE SmallestPow2From(_, _)
SmallestPow2From(n, d) == IF d >= n THEN d ELSE SmallestPow2From(n, 2 * d)

RefDomainSize(n) == SmallestPow2From(n, 1)

(***************************************************************************)
(* write_le.  (n as u64).write_le: eight bytes, least significant first. *)
(* usize is at most 64 bits wide, so the cast keeps n, and the bytes       *)
(* above the width of usize are zero.                                      *)
(***************************************************************************)
U64Le(n) ==
    [i \in 1..8 |-> IF 8 * (i - 1) >= UsizeBits THEN 0
                    ELSE (n \div 2^(8 * (i - 1))) % 256]

\* Mutant: num_variables and num_constraints written in each other's place.
WriteLeSwapped(ci) ==
    LET order == <<"num_public_inputs", "num_constraints", "num_variables",
                   "num_non_zero_a", "num_non_zero_b", "num_non_zero_c">>
    IN [j \in 1..48 |-> U64Le(ci[order[((j - 1) \div 8) + 1]])[((j - 1) % 8) + 1]]

WriteLe(ci) ==
    LET order == <<"num_public_inputs", "num_variables", "num_constraints",
                   "num_non_zero_a", "num_non_zero_b", "num_non_zero_c">>
    IN [j \in 1..48 |-> U64Le(ci[order[((j - 1) \div 8) + 1]])[((j - 1) % 8) + 1]]

(***************************************************************************)
(* The reference decoding (spec section 6): six unsigned 64-bit           *)
(* little-endian integers in the field order of spec section 3.            *)
(***************************************************************************)
SpecFieldOrder == <<"num_public_inputs", "num_variables", "num_constraints",
                    "num_non_zero_a", "num_non_zero_b", "num_non_zero_c">>

RECURSIVE LeValue(_)
LeValue(bs) == IF bs = <<>> THEN 0 ELSE Head(bs) + 256 * LeValue(Tail(bs))

DecodeCounter(bs, k) == LeValue(SubSeq(bs, 8 * k - 7, 8 * k))

Init ==
    /\ info \in [Fields -> Counts]
    /\ outcome = None
    /\ encoding = <<>>

Call ==
    /\ outcome = None
    /\ outcome' = GetDegreeBounds(info)
    /\ UNCHANGED <<info, encoding>>

Write ==
    /\ encoding = <<>>
    /\ encoding' = WriteLe(info)
    /\ UNCHANGED <<info, outcome>>

Next == Call \/ Write

Spec == Init /\ [][Next]_vars

(***************************************************************************)
(* Properties.                                                             *)
(***************************************************************************)
TypeOK ==
    /\ info \in [Fields -> Counts]
    /\ outcome.status \in {"none", "panic", "ok"}
    /\ outcome.status = "ok" => outcome.bounds \in [1..4 -> 0..(2^UsizeBits - 1)]
    /\ encoding \in {<<>>} \cup [1..48 -> 0..255]

\* Spec section 6: the bytes write_le writes for a CircuitInfo decode,
\* as six u64 little-endian words in the field order of section 3, to its
\* six counters.  The code writes each counter `as u64` with its own
\* write_le, one after the other (circuit_info.rs:68-76).
EncodingRoundTrips ==
    encoding # <<>> =>
        \A k \in 1..6 : DecodeCounter(encoding, k) = info[SpecFieldOrder[k]]

\* Spec sections 4 and 7: get_degree_bounds returns, for each counter,
\* the reference domain size minus two, or reports DomainTooLarge; it
\* never panics.  The code unwraps compute_size_of_domain and subtracts 2
\* in usize (circuit_info.rs:57-63).
DegreeBoundsTotal ==
    /\ outcome.status # "panic"
    /\ outcome.status = "ok" =>
           \A k \in 1..4 : outcome.bounds[k] = RefDomainSize(info[BoundFields[k]]) - 2

=============================================================================

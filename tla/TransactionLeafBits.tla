------------------------- MODULE TransactionLeafBits -------------------------
(***************************************************************************)
(* TransactionLeaf::write_bits_le and write_bits_be                        *)
(* (src/console/program/src/state_path/transaction_leaf/to_bits.rs).      *)
(*                                                                         *)
(* A leaf of the transaction Merkle tree is (variant: u8, index: u16,      *)
(* id: Field); its bits are the bits of the three fields in that order,    *)
(* each field little-endian (write_bits_le) or big-endian (write_bits_be). *)
(* The widths are constants; a field element is below FieldModulus and is  *)
(* written with FieldBits bits.                                            *)
(*                                                                         *)
(* The state is one leaf and the two bit strings written from it.          *)
(***************************************************************************)
EXTENDS Integers, Sequences, SequencesExt

CONSTANTS
    VariantBits,   \* width of u8
    IndexBits,     \* width of u16
    FieldBits,     \* Field::size_in_bits
    FieldModulus   \* the field's modulus, at most 2^FieldBits

ASSUME FieldModulus <= 2^FieldBits

VARIABLES
    leaf,     \* [variant, index, id]
    bitsLe,   \* what write_bits_le appended
    bitsBe    \* what write_bits_be appended

vars == <<leaf, bitsLe, bitsBe>>

Leaves == [variant : 0..(2^VariantBits - 1), index : 0..(2^IndexBits - 1),
           id : 0..(FieldModulus - 1)]

\* The w bits of n, least significant first.
BitsLe(n, w) == [i \in 1..w |-> (n \div 2^(i - 1)) % 2 = 1]

BitsBe(n, w) == Reverse(BitsLe(n, w))

\* Mutant: the index is left out of the leaf.
WriteBitsLeNoIndex(l) ==
    BitsLe(l.variant, VariantBits) \o BitsLe(l.id, FieldBits)

\* (variant || index || ID), each little-endian.
WriteBitsLe(l) ==
    BitsLe(l.variant, VariantBits) \o BitsLe(l.index, IndexBits) \o BitsLe(l.id, FieldBits)

\* Mutant: the variant written where the index belongs.
WriteBitsBeVariantTwice(l) ==
    BitsBe(l.variant, VariantBits) \o BitsBe(l.variant, IndexBits) \o BitsBe(l.id, FieldBits)

\* (variant || index || ID), each big-endian.
WriteBitsBe(l) ==
    BitsBe(l.variant, VariantBits) \o BitsBe(l.index, IndexBits) \o BitsBe(l.id, FieldBits)

NoBits == <<>>

Init ==
    /\ leaf \in Leaves
    /\ bitsLe = NoBits
    /\ bitsBe = NoBits

\* The leaf is written both ways, as the Merkle tree and the circuits do.
Write ==
    /\ bitsLe = NoBits
    /\ bitsLe' = WriteBitsLe(leaf)
    /\ bitsBe' = WriteBitsBe(leaf)
    /\ UNCHANGED leaf

Next == Write

Spec == Init /\ [][Next]_vars

(***************************************************************************)
(* Properties.                                                             *)
(***************************************************************************)
TypeOK ==
    /\ leaf \in Leaves
    /\ bitsLe # NoBits => Len(bitsLe) = VariantBits + IndexBits + FieldBits
    /\ bitsBe # NoBits => Len(bitsBe) = VariantBits + IndexBits + FieldBits

\* The leaf hashed into the transaction tree identifies the transition:
\* no other leaf is written to the same bits, little- or big-endian.
LeafEncodingInjective ==
    bitsLe # NoBits =>
        \A other \in Leaves \ {leaf} :
            /\ WriteBitsLe(other) # bitsLe
            /\ WriteBitsBe(other) # bitsBe

=============================================================================

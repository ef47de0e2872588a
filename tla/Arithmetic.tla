----------------------------- MODULE Arithmetic -----------------------------
(***************************************************************************)
(* Addresses, offsets and the address bias as the code computes them, in   *)
(* unsigned and signed 64-bit integers: the checked operations of          *)
(* src/analysis/expander.cc and of src/analysis/address_bias.cc.  The      *)
(* width is a parameter, HalfRange stands for 2^63.  Unsigned results wrap *)
(* around; that no result a caller sees ever did is what the theorems of   *)
(* NumberProofs say.                                                       *)
(***************************************************************************)
EXTENDS Integers

CONSTANT HalfRange

ASSUME RangeAssumption == HalfRange \in Nat \ {0}

MaxAddress == 2 * HalfRange - 1      \* numeric_limits<uint64_t>::max()
Unsigned   == 0..MaxAddress          \* std::uint64_t
Signed     == (-HalfRange)..(HalfRange - 1)  \* std::int64_t

\* std::nullopt in place of a result, an address or a size
Absent == -1

\* Unsigned arithmetic is modulo 2^64.
Wrap(n) == n % (2 * HalfRange)

\* static_cast<std::uint64_t>(-(n + 1)) + 1U, of a negative number: negating
\* n itself would overflow for the least of them.
Magnitude(n) == Wrap(-(n + 1) + 1)

\* Mutant: the sum is not checked.
WrappedAdd(base, offset) == Wrap(base + offset)

\* checked_add_unsigned
CheckedAddUnsigned(base, offset) ==
    IF offset > MaxAddress - base THEN Absent ELSE Wrap(base + offset)

\* checked_add_offset
CheckedAddOffset(base, offset) ==
    IF offset >= 0 THEN CheckedAddUnsigned(base, offset)
    ELSE IF Magnitude(offset) > base THEN Absent
    ELSE Wrap(base - Magnitude(offset))

\* checked_multiply
CheckedMultiply(left, right) ==
    IF left # 0 /\ right > MaxAddress \div left THEN Absent
    ELSE Wrap(left * right)

-----------------------------------------------------------------------------
(* The address bias.                                                       *)

\* parse_address_bias, after the sign and the digits have been read: the
\* bias, or Refused where the code throws.
Refused == [refused |-> TRUE]

ParseBias(negative, magnitude) ==
    IF ~negative
    THEN IF magnitude > HalfRange - 1 THEN Refused ELSE magnitude
    ELSE IF magnitude > HalfRange THEN Refused
    ELSE IF magnitude = HalfRange THEN -HalfRange
    ELSE -magnitude

\* apply_bias_to_absolute
ApplyBiasToAbsolute(address, bias) ==
    IF address = Absent THEN Absent
    ELSE IF bias >= 0
         THEN IF address > MaxAddress - bias THEN Absent
              ELSE Wrap(address + bias)
    ELSE IF address < Magnitude(bias) THEN Absent
    ELSE Wrap(address - Magnitude(bias))

\* The condition under which apply_bias_to_relative gives up.  The offset
\* itself may be any signed number, so there is no place for Absent.
RelativeOverflows(offset, bias) ==
    \/ bias > 0 /\ offset > HalfRange - 1 - bias
    \/ bias < 0 /\ offset < -HalfRange - bias
=============================================================================

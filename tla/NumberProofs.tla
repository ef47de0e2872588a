---------------------------- MODULE NumberProofs ----------------------------
(***************************************************************************)
(* Numbers of limited width, for every width.                              *)
(*                                                                         *)
(* The checked operations return the exact result if it can be represented *)
(* and nothing otherwise.  The address bias and the offsets of members are *)
(* computed by different code and agree.                                   *)
(*                                                                         *)
(* The evaluation of member locations is exact, for every file and every   *)
(* expression in it: the stack of limited words is that of an evaluation   *)
(* without limits, the offset it yields is the one that is written, and    *)
(* nothing is refused without a reason.  These theorems are about the      *)
(* whole reader, whose steps move an expression only as ExpressionMoves    *)
(* says.                                                                   *)
(*                                                                         *)
(* So is the decoding of the operations from their bytes.  A number in     *)
(* groups is read by a loop whose invariant, ReadUpTo, says what the       *)
(* groups so far mean (ValueOf) and why a loop that was left has no        *)
(* number; that the bytes of a variable's or a member's location are those *)
(* of the file takes the invariant of the walk (TypeWalkProofs).           *)
(***************************************************************************)
EXTENDS TypeWalkProofs, ListProofs

\* What an operation should return: the exact number, if it is an address.
ExactOrAbsent(n) == IF n \in Unsigned THEN n ELSE Absent

LEMMA WrapOfUnsigned ==
    ASSUME NEW n \in Unsigned
    PROVE  Wrap(n) = n
BY RangeAssumption DEF Wrap, Unsigned, MaxAddress

LEMMA MagnitudeOfNegative ==
    ASSUME NEW n \in Signed, n < 0
    PROVE  Magnitude(n) = -n /\ -n \in Unsigned
<1>1. -(n + 1) + 1 = -n
  BY RangeAssumption DEF Signed
<1>2. -n \in Unsigned
  BY RangeAssumption DEF Signed, Unsigned, MaxAddress
<1> QED
  BY <1>1, <1>2, WrapOfUnsigned DEF Magnitude

\* checked_add_unsigned never returns a wrapped sum and refuses no sum that
\* fits.
THEOREM AddUnsignedIsExact ==
    ASSUME NEW base \in Unsigned, NEW delta \in Unsigned
    PROVE  CheckedAddUnsigned(base, delta) = ExactOrAbsent(base + delta)
<1>1. CASE delta > MaxAddress - base
  BY <1>1, RangeAssumption
  DEF CheckedAddUnsigned, ExactOrAbsent, Unsigned, MaxAddress
<1>2. CASE ~(delta > MaxAddress - base)
  <2>1. base + delta \in Unsigned
    BY <1>2, RangeAssumption DEF Unsigned, MaxAddress
  <2> QED
    BY <1>2, <2>1, WrapOfUnsigned DEF CheckedAddUnsigned, ExactOrAbsent
<1> QED
  BY <1>1, <1>2

\* checked_add_offset is exact for offsets of either sign, the least one
\* included, whose negation does not fit.
THEOREM AddOffsetIsExact ==
    ASSUME NEW base \in Unsigned, NEW delta \in Signed
    PROVE  CheckedAddOffset(base, delta) = ExactOrAbsent(base + delta)
<1>1. CASE delta >= 0
  <2>1. delta \in Unsigned
    BY <1>1, RangeAssumption DEF Signed, Unsigned, MaxAddress
  <2> QED
    BY <1>1, <2>1, AddUnsignedIsExact DEF CheckedAddOffset
<1>2. CASE delta < 0
  <2>1. Magnitude(delta) = -delta
    BY <1>2, MagnitudeOfNegative
  <2>2. ~(delta >= 0)
    BY <1>2, RangeAssumption DEF Signed
  <2>3. CASE -delta > base
    <3>1. base + delta \notin Unsigned
      BY <2>3, RangeAssumption DEF Signed, Unsigned, MaxAddress
    <3> QED
      BY <2>1, <2>2, <2>3, <3>1 DEF CheckedAddOffset, ExactOrAbsent
  <2>4. CASE ~(-delta > base)
    <3>1. /\ base + delta \in Unsigned
          /\ base - (-delta) = base + delta
      BY <1>2, <2>4, RangeAssumption DEF Signed, Unsigned, MaxAddress
    <3> QED
      BY <2>1, <2>2, <2>4, <3>1, WrapOfUnsigned DEF CheckedAddOffset, ExactOrAbsent
  <2> QED
    BY <2>3, <2>4
<1> QED
  BY <1>1, <1>2, RangeAssumption DEF Signed

\* The division by which checked_multiply foresees an overflow is right: it
\* refuses exactly the products that do not fit.
THEOREM MultiplyIsExact ==
    ASSUME NEW left \in Unsigned, NEW right \in Unsigned
    PROVE  CheckedMultiply(left, right) = ExactOrAbsent(left * right)
<1> DEFINE limit == MaxAddress \div left
<1>0. left \in Nat /\ right \in Nat /\ MaxAddress \in Nat
  BY RangeAssumption DEF Unsigned, MaxAddress
<1>1. CASE left = 0
  <2>1. left * right = 0 /\ 0 \in Unsigned
    BY <1>0, <1>1 DEF Unsigned
  <2> QED
    BY <1>1, <2>1, WrapOfUnsigned DEF CheckedMultiply, ExactOrAbsent
<1>2. CASE left # 0
  <2>1. /\ limit \in Nat
        /\ left * limit <= MaxAddress
        /\ MaxAddress < left * limit + left
    BY <1>0, <1>2
  <2> HIDE DEF limit
  <2>2. CASE right > limit
    <3>1. right >= limit + 1
      BY <1>0, <2>1, <2>2
    <3>2. left * right >= left * (limit + 1)
      BY <1>0, <2>1, <3>1
    <3>3. left * (limit + 1) = left * limit + left
      BY <1>0, <2>1
    <3>4. left * right > MaxAddress
      BY <1>0, <2>1, <3>2, <3>3
    <3> QED
      BY <1>0, <1>2, <2>2, <3>4 DEF CheckedMultiply, ExactOrAbsent, Unsigned, limit
  <2>3. CASE ~(right > limit)
    <3>1. left * right <= left * limit
      BY <1>0, <2>1, <2>3
    <3>2. left * right \in Unsigned
      BY <1>0, <2>1, <3>1 DEF Unsigned
    <3> QED
      BY <1>2, <2>3, <3>2, WrapOfUnsigned DEF CheckedMultiply, ExactOrAbsent, limit
  <2> QED
    BY <2>2, <2>3
<1> QED
  BY <1>1, <1>2

\* The address that the panel and the clipboard show under a bias is that of
\* the node plus the bias, or none; it is the one that checked_add_offset, a
\* different piece of code, would give.
THEOREM BiasIsExact ==
    ASSUME NEW address \in Unsigned, NEW bias \in Signed
    PROVE  /\ ApplyBiasToAbsolute(address, bias) = ExactOrAbsent(address + bias)
           /\ ApplyBiasToAbsolute(address, bias)
                = CheckedAddOffset(address, bias)
<1>0. address # Absent
  BY RangeAssumption DEF Unsigned, Absent
<1>1. CASE bias >= 0
  <2>1. CASE address > MaxAddress - bias
    <3>1. address + bias \notin Unsigned
      BY <2>1, RangeAssumption DEF Unsigned, Signed, MaxAddress
    <3> QED
      BY <1>0, <1>1, <2>1, <3>1, AddOffsetIsExact
      DEF ApplyBiasToAbsolute, ExactOrAbsent
  <2>2. CASE ~(address > MaxAddress - bias)
    <3>1. address + bias \in Unsigned
      BY <1>1, <2>2, RangeAssumption DEF Unsigned, Signed, MaxAddress
    <3> QED
      BY <1>0, <1>1, <2>2, <3>1, AddOffsetIsExact, WrapOfUnsigned
      DEF ApplyBiasToAbsolute, ExactOrAbsent
  <2> QED
    BY <2>1, <2>2
<1>2. CASE bias < 0
  <2>1. Magnitude(bias) = -bias /\ ~(bias >= 0)
    BY <1>2, MagnitudeOfNegative, RangeAssumption DEF Signed
  <2>2. CASE address < -bias
    <3>1. address + bias \notin Unsigned
      BY <2>2, RangeAssumption DEF Unsigned, Signed, MaxAddress
    <3> QED
      BY <1>0, <2>1, <2>2, <3>1, AddOffsetIsExact
      DEF ApplyBiasToAbsolute, ExactOrAbsent
  <2>3. CASE ~(address < -bias)
    <3>1. /\ address + bias \in Unsigned
          /\ address - (-bias) = address + bias
      BY <1>2, <2>3, RangeAssumption DEF Unsigned, Signed, MaxAddress
    <3> QED
      BY <1>0, <2>1, <2>3, <3>1, AddOffsetIsExact, WrapOfUnsigned
      DEF ApplyBiasToAbsolute, ExactOrAbsent
  <2> QED
    BY <2>2, <2>3
<1> QED
  BY <1>1, <1>2, RangeAssumption DEF Signed

\* apply_bias_to_relative gives up exactly when the sum would overflow a
\* signed number, which would be undefined behaviour; and neither side of its
\* own comparisons overflows.
THEOREM RelativeBiasIsExact ==
    ASSUME NEW delta \in Signed, NEW bias \in Signed
    PROVE  /\ RelativeOverflows(delta, bias) <=> delta + bias \notin Signed
           /\ bias > 0 => HalfRange - 1 - bias \in Signed
           /\ bias < 0 => -HalfRange - bias \in Signed
BY RangeAssumption DEF RelativeOverflows, Signed

\* parse_address_bias accepts exactly the numbers that fit, the least one
\* included, and does not change them.
THEOREM ParsedBiasIsExact ==
    ASSUME NEW negative \in BOOLEAN, NEW magnitude \in Unsigned
    PROVE  LET value == IF negative THEN -magnitude ELSE magnitude
           IN  ParseBias(negative, magnitude)
                 = IF value \in Signed THEN value ELSE Refused
<1>1. CASE negative
  BY <1>1, RangeAssumption DEF ParseBias, Signed, Unsigned, MaxAddress
<1>2. CASE ~negative
  BY <1>2, RangeAssumption DEF ParseBias, Signed, Unsigned, MaxAddress
<1> QED
  BY <1>1, <1>2

-----------------------------------------------------------------------------
(* The evaluation of member locations.                                     *)

OperationRecords == [atom : AtomNames, operand1 : Unsigned, operand2 : Unsigned,
                     from : Nat, next : Nat]

OperandsFit == operations \in Seq(OperationRecords)

SymbolicValues == [base : BOOLEAN, constant : Signed]
ExactValues    == [base : Int, constant : Int]

\* The steps of the reader, as far as they touch an expression
ExpressionMoves ==
    \/ ExpressionStep
    \/ /\ expression' \in {"none", "decoding"} /\ operations' = <<>>
       /\ \/ expression = "none" /\ UNCHANGED <<stack, position, offset, exact>>
          \/ stack' = <<>> /\ exact' = <<>> /\ position' = 1 /\ offset' = 0
    \/ UNCHANGED expressionVars

-----------------------------------------------------------------------------
(* Arithmetic.                                                             *)

\* static_cast of a word to a signed one yields a signed number.
LEMMA AsSignedIsSigned ==
    ASSUME NEW n \in Unsigned
    PROVE  AsSigned(n) \in Signed
BY RangeAssumption DEF AsSigned, Signed, Unsigned, MaxAddress

\* checked_add gives up exactly when the sum is not a signed number.
THEOREM AddOverflowsIsExact ==
    ASSUME NEW left \in Signed, NEW right \in Signed
    PROVE  AddOverflows(left, right) <=> left + right \notin Signed
BY RangeAssumption DEF AddOverflows, Signed

\* checked_subtract gives up exactly when the difference is none.
THEOREM SubtractOverflowsIsExact ==
    ASSUME NEW left \in Signed, NEW right \in Signed
    PROVE  SubtractOverflows(left, right) <=> left - right \notin Signed
BY RangeAssumption DEF SubtractOverflows, Signed

-----------------------------------------------------------------------------
(* Stacks.                                                                 *)

\* The n values on the top of a stack are replaced by one.
LEMMA ReplaceTop ==
    ASSUME NEW S, NEW s \in Seq(S), NEW n \in Nat, n <= Len(s), NEW e \in S
    PROVE  LET r == Append(SubSeq(s, 1, Len(s) - n), e)
           IN  /\ r \in Seq(S)
               /\ Len(r) = Len(s) - n + 1
               /\ \A i \in 1..(Len(s) - n) : r[i] = s[i]
               /\ r[Len(s) - n + 1] = e
<1> DEFINE below == SubSeq(s, 1, Len(s) - n)
<1>1. Len(s) \in Nat /\ Len(s) - n \in Nat
  BY LenProperties
<1>2. /\ below \in Seq(S)
      /\ Len(below) = Len(s) - n
      /\ \A i \in 1..(Len(s) - n) : below[i] = s[i]
  BY <1>1
<1> HIDE DEF below
<1>3. /\ Append(below, e) \in Seq(S)
      /\ Len(Append(below, e)) = Len(below) + 1
      /\ \A i \in 1..Len(below) : Append(below, e)[i] = below[i]
      /\ Append(below, e)[Len(below) + 1] = e
  BY <1>2, AppendProperties
<1> QED
  BY <1>1, <1>2, <1>3 DEF below

\* A stack of limited values holds those of one without limits.
Holds(s, x) ==
    /\ s \in Seq(SymbolicValues) /\ x \in Seq(ExactValues)
    /\ Len(x) = Len(s)
    /\ \A i \in 1..Len(x) : Representable(x[i]) /\ s[i] = Held(x[i])

\* It still does when the same top is replaced in both.
LEMMA HoldsAfter ==
    ASSUME NEW s, NEW x, Holds(s, x), NEW n \in Nat, n <= Len(s),
           NEW v \in ExactValues, Representable(v)
    PROVE  Holds(Append(SubSeq(s, 1, Len(s) - n), Held(v)),
                 Append(SubSeq(x, 1, Len(x) - n), v))
<1>1. Held(v) \in SymbolicValues
  BY DEF Held, Symbolic, SymbolicValues, ExactValues, Representable
<1>2. Len(s) \in Nat /\ Len(x) = Len(s) /\ n <= Len(x)
  BY DEF Holds
<1> DEFINE s2 == Append(SubSeq(s, 1, Len(s) - n), Held(v))
           x2 == Append(SubSeq(x, 1, Len(x) - n), v)
<1>3. /\ s2 \in Seq(SymbolicValues) /\ Len(s2) = Len(s) - n + 1
      /\ \A i \in 1..(Len(s) - n) : s2[i] = s[i]
      /\ s2[Len(s) - n + 1] = Held(v)
  BY <1>1, <1>2, ReplaceTop DEF Holds
<1>4. /\ x2 \in Seq(ExactValues) /\ Len(x2) = Len(s) - n + 1
      /\ \A i \in 1..(Len(s) - n) : x2[i] = x[i]
      /\ x2[Len(s) - n + 1] = v
  BY <1>2, ReplaceTop DEF Holds
<1> HIDE DEF s2, x2
<1>5. ASSUME NEW i \in 1..Len(x2)
      PROVE  Representable(x2[i]) /\ s2[i] = Held(x2[i])
  <2>1. CASE i \in 1..(Len(s) - n)
    BY <1>2, <1>3, <1>4, <2>1 DEF Holds
  <2>2. CASE i = Len(s) - n + 1
    BY <1>3, <1>4, <2>2
  <2> QED
    BY <1>2, <1>4, <2>1, <2>2
<1>6. Holds(s2, x2)
  BY <1>3, <1>4, <1>5 DEF Holds
<1> QED
  BY <1>6 DEF s2, x2

-----------------------------------------------------------------------------
(* One operation.                                                          *)

\* What the two evaluations make of an operation that is accepted stays
\* together.
LEMMA AcceptedOperation ==
    ASSUME Holds(stack, exact), NEW op \in OperationRecords, Accepts(op),
           op.atom = "lit" => op.operand1 < HalfRange
    PROVE  Holds(StackAfter(op), ExactAfter(op))
<1> DEFINE top    == exact[Len(exact)]
           second == exact[Len(exact) - 1]
<1>0. /\ Len(stack) \in Nat /\ Len(exact) = Len(stack)
      /\ op.operand1 \in Unsigned /\ op.operand1 \in Int
  BY DEF Holds, OperationRecords, Unsigned, MaxAddress
<1>1. ASSUME Len(stack) >= 1
      PROVE  top \in ExactValues /\ Representable(top) /\ Top = Held(top)
  BY <1>0, <1>1 DEF Holds, Top
<1>2. ASSUME Len(stack) >= 2
      PROVE  second \in ExactValues /\ Representable(second) /\ Second = Held(second)
  BY <1>0, <1>2 DEF Holds, Second
<1> HIDE DEF top, second
<1>3. CASE op.atom \in Pushing
  <2> DEFINE constant == IF op.atom \in SignedConstants THEN AsSigned(op.operand1)
                         ELSE op.operand1
             v == Symbolic(0, constant)
  <2>1. /\ constant = AsSigned(op.operand1)
        /\ constant \in Signed /\ constant \in Int
    <3>1. AsSigned(op.operand1) \in Signed
      BY <1>0, AsSignedIsSigned
    <3>2. CASE op.atom \in SignedConstants
      BY <3>1, <3>2, RangeAssumption DEF Signed
    <3>3. CASE op.atom \notin SignedConstants
      <4>1. op.operand1 <= HalfRange - 1
        BY <1>0, <1>3, <3>3, RangeAssumption DEF Accepts, Pushing
      <4>2. AsSigned(op.operand1) = op.operand1
        BY <1>0, <4>1, RangeAssumption DEF AsSigned
      <4> QED
        BY <3>1, <3>3, <4>2, RangeAssumption DEF Signed
    <3> QED
      BY <3>2, <3>3
  <2>2. v \in ExactValues /\ Representable(v) /\ v.base = 0 /\ v.constant = constant
    BY <2>1 DEF Symbolic, ExactValues, Representable
  <2>3. Held(v) = Symbolic(FALSE, AsSigned(op.operand1))
    <3>1. v.constant = AsSigned(op.operand1) /\ v.base # 1
      BY <2>1, <2>2
    <3>2. (v.base = 1) = FALSE
      BY <3>1, Zenon
    <3> QED
      BY <3>1, <3>2 DEF Held
  <2>4. /\ SubSeq(stack, 1, Len(stack) - 0) = stack
        /\ SubSeq(exact, 1, Len(exact) - 0) = exact
    BY <1>0, SubSeqFull DEF Holds
  <2>5. Holds(Append(SubSeq(stack, 1, Len(stack) - 0), Held(v)),
              Append(SubSeq(exact, 1, Len(exact) - 0), v))
    BY <1>0, <2>2, HoldsAfter
  <2>6. StackAfter(op) = Append(stack, Held(v))
    <3>1. op.atom \notin {"plus_uconst", "plus", "minus", "nop"}
      BY <1>3 DEF Pushing, UnsignedConstants, SignedConstants
    <3> QED
      BY <1>3, <2>3, <3>1 DEF StackAfter
  <2>7. ExactAfter(op) = Append(exact, v)
    <3>1. op.atom \notin {"plus_uconst", "plus", "minus", "nop"}
      BY <1>3 DEF Pushing, UnsignedConstants, SignedConstants
    <3> QED
      BY <1>3, <3>1 DEF ExactAfter
  <2> QED
    BY <2>4, <2>5, <2>6, <2>7
<1>4. CASE op.atom = "plus_uconst"
  <2> DEFINE v == Symbolic(top.base, top.constant + op.operand1)
  <2>1. /\ Len(stack) >= 1
        /\ top \in ExactValues /\ Representable(top) /\ Top = Held(top)
        /\ op.operand1 \in Signed
        /\ ~AddOverflows(Top.constant, op.operand1)
    BY <1>0, <1>1, <1>4, RangeAssumption DEF Accepts, Holds, Signed, Unsigned, MaxAddress
  <2>2. Top.constant = top.constant /\ top.constant \in Signed /\ Top.base = (top.base = 1)
    BY <2>1 DEF Held, Symbolic, Representable
  <2>3. top.constant + op.operand1 \in Signed
    BY <2>1, <2>2, AddOverflowsIsExact
  <2>4. v \in ExactValues /\ Representable(v)
    BY <2>1, <2>3 DEF Symbolic, ExactValues, Representable, Signed
  <2>5. Held(v) = Symbolic(Top.base, Top.constant + op.operand1)
    BY <2>2 DEF Held, Symbolic
  <2>6. Holds(Append(SubSeq(stack, 1, Len(stack) - 1), Held(v)),
              Append(SubSeq(exact, 1, Len(exact) - 1), v))
    BY <2>1, <2>4, HoldsAfter
  <2>7. StackAfter(op) = Append(SubSeq(stack, 1, Len(stack) - 1), Held(v))
    BY <1>4, <2>5 DEF StackAfter, Pushing, UnsignedConstants, SignedConstants
  <2>8. ExactAfter(op) = Append(SubSeq(exact, 1, Len(exact) - 1), v)
    BY <1>4 DEF ExactAfter, Pushing, UnsignedConstants, SignedConstants, top
  <2> QED
    BY <2>6, <2>7, <2>8
<1>5. CASE op.atom = "plus"
  <2> DEFINE v == Symbolic(second.base + top.base, second.constant + top.constant)
  <2>1. /\ Len(stack) >= 2
        /\ ~(Second.base /\ Top.base)
        /\ ~AddOverflows(Second.constant, Top.constant)
    BY <1>5 DEF Accepts, Combining
  <2>2. /\ top \in ExactValues /\ Representable(top) /\ Top = Held(top)
        /\ second \in ExactValues /\ Representable(second) /\ Second = Held(second)
    BY <1>0, <1>1, <1>2, <2>1
  <2>3. /\ Top.constant = top.constant /\ top.constant \in Signed /\ Top.base = (top.base = 1)
        /\ Second.constant = second.constant /\ second.constant \in Signed
        /\ Second.base = (second.base = 1)
        /\ top.base \in {0, 1} /\ second.base \in {0, 1}
    BY <2>2 DEF Held, Symbolic, Representable
  <2>4. second.constant + top.constant \in Signed
    BY <2>1, <2>3, AddOverflowsIsExact
  <2>5. ~(second.base = 1 /\ top.base = 1)
    BY <2>1, <2>3, Zenon
  <2>6. v \in ExactValues /\ Representable(v)
    BY <2>3, <2>4, <2>5 DEF Symbolic, ExactValues, Representable, Signed
  <2>7. second.base + top.base = 1 <=> (second.base = 1 \/ top.base = 1)
    BY <2>3, <2>5
  <2>8. (second.base + top.base = 1) = (Second.base \/ Top.base)
    BY <2>3, <2>7, Zenon
  <2>9. Held(v) = Symbolic(Second.base \/ Top.base, Second.constant + Top.constant)
    BY <2>3, <2>8 DEF Held, Symbolic
  <2>10. Holds(Append(SubSeq(stack, 1, Len(stack) - 2), Held(v)),
              Append(SubSeq(exact, 1, Len(exact) - 2), v))
    BY <2>1, <2>6, HoldsAfter
  <2>11. StackAfter(op) = Append(SubSeq(stack, 1, Len(stack) - 2), Held(v))
    BY <1>5, <2>9 DEF StackAfter, Pushing, UnsignedConstants, SignedConstants
  <2>12. ExactAfter(op) = Append(SubSeq(exact, 1, Len(exact) - 2), v)
    BY <1>5 DEF ExactAfter, Pushing, UnsignedConstants, SignedConstants, top, second
  <2> QED
    BY <2>10, <2>11, <2>12
<1>6. CASE op.atom = "minus"
  <2> DEFINE v == Symbolic(second.base - top.base, second.constant - top.constant)
  <2>1. /\ Len(stack) >= 2
        /\ Second.base \/ ~Top.base
        /\ ~SubtractOverflows(Second.constant, Top.constant)
    BY <1>6 DEF Accepts, Combining
  <2>2. /\ top \in ExactValues /\ Representable(top) /\ Top = Held(top)
        /\ second \in ExactValues /\ Representable(second) /\ Second = Held(second)
    BY <1>0, <1>1, <1>2, <2>1
  <2>3. /\ Top.constant = top.constant /\ top.constant \in Signed /\ Top.base = (top.base = 1)
        /\ Second.constant = second.constant /\ second.constant \in Signed
        /\ Second.base = (second.base = 1)
        /\ top.base \in {0, 1} /\ second.base \in {0, 1}
    BY <2>2 DEF Held, Symbolic, Representable
  <2>4. second.constant - top.constant \in Signed
    BY <2>1, <2>3, SubtractOverflowsIsExact
  <2>5. second.base = 1 \/ ~(top.base = 1)
    BY <2>1, <2>3, Zenon
  <2>6. v \in ExactValues /\ Representable(v)
    BY <2>3, <2>4, <2>5 DEF Symbolic, ExactValues, Representable, Signed
  <2>7. second.base - top.base = 1 <=> ((second.base = 1) # (top.base = 1))
    BY <2>3, <2>5
  <2>8. (second.base - top.base = 1) = (Second.base # Top.base)
    BY <2>3, <2>7, Zenon
  <2>9. Held(v) = Symbolic(Second.base # Top.base, Second.constant - Top.constant)
    BY <2>3, <2>8 DEF Held, Symbolic
  <2>10. Holds(Append(SubSeq(stack, 1, Len(stack) - 2), Held(v)),
              Append(SubSeq(exact, 1, Len(exact) - 2), v))
    BY <2>1, <2>6, HoldsAfter
  <2>11. StackAfter(op) = Append(SubSeq(stack, 1, Len(stack) - 2), Held(v))
    BY <1>6, <2>9 DEF StackAfter, Pushing, UnsignedConstants, SignedConstants
  <2>12. ExactAfter(op) = Append(SubSeq(exact, 1, Len(exact) - 2), v)
    BY <1>6 DEF ExactAfter, Pushing, UnsignedConstants, SignedConstants, top, second
  <2> QED
    BY <2>10, <2>11, <2>12
<1>7. CASE op.atom = "nop"
  BY <1>7 DEF StackAfter, ExactAfter, Pushing, UnsignedConstants, SignedConstants
<1> QED
  BY <1>3, <1>4, <1>5, <1>6, <1>7 DEF Accepts, Understood, Combining

\* What is not accepted has one of the reasons.
LEMMA RefusedOperation ==
    ASSUME Holds(stack, exact), NEW op \in OperationRecords, ~Accepts(op),
           Applies(op),
           ~(/\ op.atom \in UnsignedConstants \cup {"plus_uconst"}
             /\ op.operand1 \notin Signed)
    PROVE  ExactAfter(op) # <<>> /\ ~Representable(Last(ExactAfter(op)))
<1> DEFINE top    == exact[Len(exact)]
           second == exact[Len(exact) - 1]
           Ends(n, v) == ExactAfter(op) = Append(SubSeq(exact, 1, Len(exact) - n), v)
<1>0. /\ Len(stack) \in Nat /\ Len(exact) = Len(stack)
      /\ op.operand1 \in Unsigned /\ op.operand1 \in Int
  BY DEF Holds, OperationRecords, Unsigned, MaxAddress
<1>1. ASSUME Len(stack) >= 1
      PROVE  top \in ExactValues /\ Representable(top) /\ Top = Held(top)
  BY <1>0, <1>1 DEF Holds, Top
<1>2. ASSUME Len(stack) >= 2
      PROVE  second \in ExactValues /\ Representable(second) /\ Second = Held(second)
  BY <1>0, <1>2 DEF Holds, Second
<1> HIDE DEF top, second
<1>3. SUFFICES \E n \in {1, 2} : n <= Len(exact) /\
                   \E v \in ExactValues : Ends(n, v) /\ ~Representable(v)
  <2>1. PICK n \in {1, 2}, v \in ExactValues :
            n <= Len(exact) /\ Ends(n, v) /\ ~Representable(v)
    BY <1>3
  <2>2. /\ ExactAfter(op) \in Seq(ExactValues)
        /\ Len(ExactAfter(op)) = Len(exact) - n + 1
        /\ ExactAfter(op)[Len(exact) - n + 1] = v
    BY <2>1, ReplaceTop DEF Holds
  <2>3. Len(ExactAfter(op)) = Len(exact) - n + 1 /\ Len(ExactAfter(op)) >= 1
    BY <1>0, <2>1, <2>2
  <2>4. ExactAfter(op) # <<>>
    BY <2>2, <2>3, EmptySeq
  <2>5. Last(ExactAfter(op)) = v
    BY <2>2, <2>3 DEF Last
  <2> QED
    BY <2>1, <2>4, <2>5
<1>4. op.atom \in UnsignedConstants \cup {"plus_uconst"} => op.operand1 <= HalfRange - 1
  BY <1>0, RangeAssumption DEF Signed, Unsigned, MaxAddress
<1>5. op.atom \in {"plus_uconst", "plus", "minus"}
  BY <1>4 DEF Accepts, Applies, Understood, Combining
<1>6. CASE op.atom = "plus_uconst"
  <2> DEFINE v == Symbolic(top.base, top.constant + op.operand1)
  <2>1. Len(stack) >= 1 /\ op.operand1 \in Signed
    BY <1>0, <1>6 DEF Applies, Holds
  <2>2. AddOverflows(Top.constant, op.operand1)
    BY <1>0, <1>4, <1>6, <2>1 DEF Accepts, Understood, Combining, UnsignedConstants
  <2>3. top \in ExactValues /\ Representable(top) /\ Top.constant = top.constant
    BY <1>1, <2>1 DEF Held, Symbolic
  <2>4. top.constant + op.operand1 \notin Signed
    BY <2>1, <2>2, <2>3, AddOverflowsIsExact DEF Representable
  <2>5. v \in ExactValues /\ ~Representable(v)
    BY <1>0, <2>3, <2>4 DEF Symbolic, Representable, ExactValues
  <2>6. Ends(1, v)
    BY <1>6 DEF ExactAfter, Pushing, UnsignedConstants, SignedConstants, top
  <2> QED
    BY <1>0, <2>1, <2>5, <2>6
<1>7. CASE op.atom = "plus"
  <2> DEFINE v == Symbolic(second.base + top.base, second.constant + top.constant)
  <2>1. Len(stack) >= 2
    BY <1>0, <1>7 DEF Applies, Combining
  <2>2. (Second.base /\ Top.base) \/ AddOverflows(Second.constant, Top.constant)
    BY <1>7, <2>1 DEF Accepts, Understood, Combining, UnsignedConstants
  <2>3. /\ top \in ExactValues /\ Representable(top) /\ Top = Held(top)
        /\ second \in ExactValues /\ Representable(second) /\ Second = Held(second)
    BY <1>0, <1>1, <1>2, <2>1
  <2>4. /\ Top.constant = top.constant /\ Top.base = (top.base = 1)
        /\ Second.constant = second.constant /\ Second.base = (second.base = 1)
    BY <2>3 DEF Held, Symbolic
  <2>5. (second.base = 1 /\ top.base = 1) \/ second.constant + top.constant \notin Signed
    <3>1. CASE Second.base /\ Top.base
      BY <2>4, <3>1, Zenon
    <3>2. CASE AddOverflows(Second.constant, Top.constant)
      BY <2>3, <2>4, <3>2, AddOverflowsIsExact DEF Representable
    <3> QED
      BY <2>2, <3>1, <3>2
  <2>6. v \in ExactValues /\ ~Representable(v)
    BY <2>3, <2>5 DEF Symbolic, Representable, ExactValues
  <2>7. Ends(2, v)
    BY <1>7 DEF ExactAfter, Pushing, UnsignedConstants, SignedConstants, top, second
  <2> QED
    BY <1>0, <2>1, <2>6, <2>7
<1>8. CASE op.atom = "minus"
  <2> DEFINE v == Symbolic(second.base - top.base, second.constant - top.constant)
  <2>1. Len(stack) >= 2
    BY <1>0, <1>8 DEF Applies, Combining
  <2>2. \/ ~Second.base /\ Top.base
        \/ SubtractOverflows(Second.constant, Top.constant)
    BY <1>8, <2>1 DEF Accepts, Understood, Combining, UnsignedConstants
  <2>3. /\ top \in ExactValues /\ Representable(top) /\ Top = Held(top)
        /\ second \in ExactValues /\ Representable(second) /\ Second = Held(second)
    BY <1>0, <1>1, <1>2, <2>1
  <2>4. /\ Top.constant = top.constant /\ Top.base = (top.base = 1)
        /\ Second.constant = second.constant /\ Second.base = (second.base = 1)
    BY <2>3 DEF Held, Symbolic
  <2>5. \/ second.base # 1 /\ top.base = 1
        \/ second.constant - top.constant \notin Signed
    <3>1. CASE ~Second.base /\ Top.base
      BY <2>4, <3>1, Zenon
    <3>2. CASE SubtractOverflows(Second.constant, Top.constant)
      BY <2>3, <2>4, <3>2, SubtractOverflowsIsExact DEF Representable
    <3> QED
      BY <2>2, <3>1, <3>2
  <2>6. v \in ExactValues /\ ~Representable(v)
    BY <2>3, <2>5 DEF Symbolic, Representable, ExactValues
  <2>7. Ends(2, v)
    BY <1>8 DEF ExactAfter, Pushing, UnsignedConstants, SignedConstants, top, second
  <2> QED
    BY <1>0, <2>1, <2>6, <2>7
<1> QED
  BY <1>5, <1>6, <1>7, <1>8

-----------------------------------------------------------------------------
(* The invariant.  What an expression is decoded to is left alone while it *)
(* is evaluated.                                                           *)

\* The number of a DW_OP_lit comes from its opcode.
LitsAreSmall ==
    \A i \in 1..Len(operations) :
        operations[i].atom = "lit" => operations[i].operand1 < HalfRange

EvaluationInv ==
    /\ LitsAreSmall
    /\ expression \in {"evaluating", "evaluated"} => Holds(stack, exact)
    /\ expression = "evaluating" => position \in Nat \ {0}
    /\ OffsetIsExact
    /\ RefusesForAReason

LEMMA ReaderMovesExpressions ==
    ReaderNext => ExpressionMoves
<1> SUFFICES ASSUME ReaderNext PROVE ExpressionMoves
  OBVIOUS
<1>1. CASE NextUnit
  BY <1>1 DEF NextUnit, ExpressionMoves
<1>2. CASE WalkDie
  BY <1>2 DEF WalkDie, ExpressionMoves
<1>3. CASE LeaveScope
  BY <1>3 DEF LeaveScope, ExpressionMoves
<1>4. CASE EnsureType
  BY <1>4 DEF EnsureType, ExpressionMoves
<1>5. CASE TypeEnsured
  BY <1>5 DEF TypeEnsured, ExpressionMoves
<1>6. CASE RecordType
  BY <1>6 DEF RecordType, ExpressionMoves
<1>7. CASE NextChild
  BY <1>7 DEF NextChild, ExpressionMoves
<1>8. CASE RecordedType
  BY <1>8 DEF RecordedType, ExpressionMoves
<1>9. CASE PlaceMember \/ LocateVariable \/ InheritLocation
  <2>1. Close
    BY <1>9 DEF PlaceMember, LocateVariable, InheritLocation
  <2> QED
    BY <2>1 DEF Close, ExpressionMoves
<1>10. CASE MaterializeType \/ FollowReferences \/ RecordUnitType
  BY <1>10 DEF MaterializeType, FollowReferences, RecordUnitType, ExpressionMoves
<1>11. CASE BeginVariable \/ InheritName \/ StoreVariable
  BY <1>11 DEF BeginVariable, InheritName, StoreVariable, ExpressionMoves
<1>12. CASE StartExpression
  <2>1. PICK expr : Begin(expr)
    BY <1>12 DEF StartExpression
  <2> QED
    BY <2>1 DEF Begin, ExpressionMoves
<1>13. CASE StepExpression
  BY <1>13 DEF StepExpression, ExpressionMoves
<1>14. CASE EndWalk
  BY <1>14 DEF EndWalk, ExpressionMoves
<1>15. CASE ApplySymbols \/ Deduplicate \/ PruneLocals \/ PrunePlaceholders
  <2>1. UNCHANGED expressionVars
    BY <1>15 DEF ApplySymbols, Deduplicate, PruneLocals, PrunePlaceholders, Pass
  <2> QED
    BY <2>1 DEF ExpressionMoves
<1> QED
  BY <1>1, <1>2, <1>3, <1>4, <1>5, <1>6, <1>7, <1>8, <1>9, <1>10, <1>11, <1>12,
     <1>13, <1>14, <1>15 DEF ReaderNext

LEMMA NumberOfLit ==
    ASSUME NEW at, OperationAt(at) # Nothing, OperationAt(at).atom = "lit"
    PROVE  OperationAt(at).operand1 < HalfRange
<1>1. /\ bytes[at] \in DOMAIN Opcodes
      /\ OperationAt(at).atom = Opcodes[bytes[at]].atom
      /\ OperationAt(at).operand1 = FirstOperand(at).value
  BY DEF OperationAt
<1>2. FirstOperand(at) = [value |-> Opcodes[bytes[at]].number, next |-> at + 1]
  BY <1>1 DEF FirstOperand, NoOperand, UnsignedWidth, SignedWidth, UlebOperand,
              SlebOperand, BlockOperand
<1> QED
  BY <1>1, <1>2, ExpressionAssumption, RangeAssumption

LEMMA InitiallySound ==
    ExpressionInit => EvaluationInv
BY DEF ExpressionInit, EvaluationInv, LitsAreSmall, OffsetIsExact, RefusesForAReason

LEMMA StepStaysSound ==
    OperandsFit /\ EvaluationInv /\ ExpressionMoves => EvaluationInv'
<1> SUFFICES ASSUME OperandsFit, EvaluationInv, ExpressionMoves
             PROVE  EvaluationInv'
  OBVIOUS
<1> DEFINE op == Operation
<1>0. ASSUME expression = "evaluating", position <= Len(operations)
      PROVE  /\ op \in OperationRecords
             /\ op.atom = "lit" => op.operand1 < HalfRange
             /\ Holds(stack, exact) /\ position \in Nat
  <2>1. position \in 1..Len(operations) /\ Holds(stack, exact)
    BY <1>0 DEF EvaluationInv, OperandsFit
  <2> QED
    BY <2>1 DEF EvaluationInv, OperandsFit, LitsAreSmall, Operation
<1>1. CASE DecodeOperation
  <2> DEFINE read == OperationAt(Cursor)
  <2>1. /\ read # Nothing /\ operations' = Append(operations, read)
        /\ expression = "decoding" /\ expression' = "decoding"
    BY <1>1 DEF DecodeOperation
  <2>2. read.atom = "lit" => read.operand1 < HalfRange
    BY <2>1, NumberOfLit
  <2> HIDE DEF read
  <2>3. LitsAreSmall'
    BY <2>1, <2>2 DEF EvaluationInv, LitsAreSmall, OperandsFit
  <2> QED
    BY <2>1, <2>3 DEF EvaluationInv, OffsetIsExact, RefusesForAReason
<1>2. CASE DecodeFails
  BY <1>2 DEF DecodeFails, EvaluationInv, LitsAreSmall, OffsetIsExact, RefusesForAReason
<1>3. CASE DecodeEnds
  BY <1>3 DEF DecodeEnds, EvaluationInv, LitsAreSmall, OffsetIsExact, RefusesForAReason
<1>4. CASE Evaluate
  <2>1. Symbolic(TRUE, 0) = Held(Symbolic(1, 0))
    BY DEF Held, Symbolic
  <2>2. Holds(<<Symbolic(TRUE, 0)>>, <<Symbolic(1, 0)>>)
    <3>1. 0 \in Signed
      BY RangeAssumption DEF Signed
    <3>2. /\ Symbolic(TRUE, 0) \in SymbolicValues
          /\ Symbolic(1, 0) \in ExactValues /\ Representable(Symbolic(1, 0))
      BY <3>1 DEF Symbolic, SymbolicValues, ExactValues, Representable
    <3>3. ASSUME NEW limited \in SymbolicValues, NEW value \in ExactValues,
                 Representable(value), limited = Held(value)
          PROVE  Holds(<<limited>>, <<value>>)
      BY <3>3 DEF Holds
    <3> QED
      BY <2>1, <3>2, <3>3
  <2> QED
    BY <1>4, <2>2
    DEF Evaluate, EvaluationInv, LitsAreSmall, OffsetIsExact, RefusesForAReason
<1>5. CASE EvaluateOperation
  <2>1. /\ expression = "evaluating" /\ expression' = "evaluating"
        /\ position <= Len(operations) /\ Accepts(op)
        /\ stack' = StackAfter(op) /\ exact' = ExactAfter(op)
        /\ position' = position + 1 /\ operations' = operations
    BY <1>5 DEF EvaluateOperation
  <2>2. Holds(StackAfter(op), ExactAfter(op))
    BY <1>0, <2>1, AcceptedOperation
  <2>3. Holds(stack', exact')
    BY <2>1, <2>2
  <2> QED
    BY <1>0, <2>1, <2>3 DEF EvaluationInv, LitsAreSmall, OffsetIsExact, RefusesForAReason
<1>6. CASE RefuseOperation
  <2>1. /\ expression = "evaluating" /\ expression' = "refused"
        /\ position <= Len(operations) /\ ~Accepts(op)
        /\ exact' = IF Applies(op) THEN ExactAfter(op) ELSE exact
        /\ position' = position /\ operations' = operations
    BY <1>6 DEF RefuseOperation
  <2>2. op' = op
    BY <2>1 DEF Operation
  <2>3. RefusesForAReason'
    <3>1. CASE ~Applies(op)
      <4>1. ~Applies(op)'
        BY <2>1, <2>2, <3>1 DEF Applies
      <4> QED
        BY <2>1, <4>1 DEF RefusesForAReason
    <3>2. CASE /\ op.atom \in UnsignedConstants \cup {"plus_uconst"}
               /\ op.operand1 \notin Signed
      BY <2>1, <2>2, <3>2 DEF RefusesForAReason
    <3>3. CASE /\ Applies(op)
               /\ ~(/\ op.atom \in UnsignedConstants \cup {"plus_uconst"}
                    /\ op.operand1 \notin Signed)
      <4>1. ExactAfter(op) # <<>> /\ ~Representable(Last(ExactAfter(op)))
        BY <1>0, <2>1, <3>3, RefusedOperation
      <4>2. exact' # <<>> /\ ~Representable(Last(exact'))
        BY <2>1, <3>3, <4>1
      <4> QED
        BY <4>2 DEF RefusesForAReason
    <3> QED
      BY <3>1, <3>2, <3>3
  <2> QED
    BY <2>1, <2>3 DEF EvaluationInv, LitsAreSmall, OffsetIsExact
<1>7. CASE EvaluationEnds
  <2>1. /\ expression = "evaluating" /\ position > Len(operations)
        /\ stack' = stack /\ exact' = exact /\ position' = position
        /\ operations' = operations
        /\ Holds(stack, exact) /\ Len(exact) = Len(stack)
    BY <1>7 DEF EvaluationEnds, EvaluationInv, Holds
  <2>2. CASE Len(stack) = 1 /\ stack[1].base
    <3>1. expression' = "evaluated" /\ offset' = stack[1].constant
      BY <1>7, <2>2 DEF EvaluationEnds
    <3>2. /\ exact[1] \in ExactValues /\ Representable(exact[1])
          /\ stack[1] = Held(exact[1])
      BY <2>1, <2>2 DEF Holds
    <3>3. /\ stack[1].base = (exact[1].base = 1)
          /\ stack[1].constant = exact[1].constant
      BY <3>2 DEF Held, Symbolic
    <3>4. exact[1].base = 1
      BY <2>2, <3>3, Zenon
    <3>5. exact[1] = Symbolic(1, offset')
      BY <3>1, <3>2, <3>3, <3>4 DEF ExactValues, Symbolic
    <3>6. exact = <<exact[1]>>
      BY <2>1, <2>2 DEF Holds
    <3>7. OffsetIsExact'
      BY <2>1, <3>5, <3>6 DEF OffsetIsExact, Symbolic
    <3> QED
      BY <2>1, <3>1, <3>7 DEF EvaluationInv, LitsAreSmall, RefusesForAReason
  <2>3. CASE ~(Len(stack) = 1 /\ stack[1].base)
    <3>1. expression' = "refused"
      BY <1>7, <2>3 DEF EvaluationEnds
    <3>2. ~(Len(exact) = 1 /\ exact[1].base = 1)
      <4> SUFFICES ASSUME Len(exact) = 1, exact[1].base = 1
                   PROVE  FALSE
        OBVIOUS
      <4>1. stack[1] = Held(exact[1]) /\ Len(stack) = 1
        <5>1. 1 \in 1..Len(exact)
          OBVIOUS
        <5> QED
          BY <2>1, <5>1 DEF Holds
      <4>2. stack[1].base = (exact[1].base = 1)
        BY <4>1 DEF Held, Symbolic
      <4>3. stack[1].base
        BY <4>2, Zenon
      <4> QED
        BY <2>3, <4>1, <4>3
    <3>3. RefusesForAReason'
      BY <2>1, <3>1, <3>2 DEF RefusesForAReason
    <3> QED
      BY <2>1, <3>1, <3>3 DEF EvaluationInv, LitsAreSmall, OffsetIsExact
  <2> QED
    BY <2>2, <2>3
<1>8. CASE expression' \in {"none", "decoding"} /\ operations' = <<>>
  BY <1>8 DEF EvaluationInv, LitsAreSmall, OffsetIsExact, RefusesForAReason
<1>9. CASE UNCHANGED expressionVars
  BY <1>9 DEF expressionVars, EvaluationInv, LitsAreSmall, OffsetIsExact,
              RefusesForAReason, Operation, Applies
<1> QED
  BY <1>1, <1>2, <1>3, <1>4, <1>5, <1>6, <1>7, <1>8, <1>9
  DEF ExpressionMoves, ExpressionStep

-----------------------------------------------------------------------------
(* Weights and numbers.                                                    *)

\* What parts of a number weigh, each base times as much as the one below
Weights(w, base) ==
    /\ w \in [Nat -> Nat \ {0}]
    /\ w[0] = 1
    /\ \A n \in Nat : w[n + 1] = base * w[n]

\* A recursive function that multiplies by the base has them,
LEMMA WeightsOf ==
    ASSUME NEW base \in Nat \ {0},
           NEW w, w = CHOOSE f : f = [n \in Nat |-> IF n = 0 THEN 1 ELSE base * f[n - 1]]
    PROVE  Weights(w, base)
<1> DEFINE A == Nat \ {0}
           G == [x \in Nat \X A |-> base * x[2]]
<1>1. G \in [Nat \X A -> A]
  <2>1. \A a \in A : base * a \in A
    OBVIOUS
  <2> QED
    BY <2>1
<1>2. \A n \in Nat, a \in A : G[<<n, a>>] = base * a
  OBVIOUS
<1> HIDE DEF G, A
<1>3. PICK f : IsNatTable(f, A, 1, G)
  <2>1. 1 \in A
    BY DEF A
  <2> QED
    BY <1>1, <2>1, NatTable
<1>4. f = [n \in Nat |-> IF n = 0 THEN 1 ELSE base * f[n - 1]]
  <2>1. ASSUME NEW n \in Nat, n # 0 PROVE G[<<n, f[n - 1]>>] = base * f[n - 1]
    BY <1>2, <1>3, <2>1 DEF IsNatTable
  <2> QED
    BY <1>3, <2>1 DEF IsNatTable
<1>5. w = [n \in Nat |-> IF n = 0 THEN 1 ELSE base * w[n - 1]]
  BY <1>4
<1>6. w[0] = 1 /\ \A n \in Nat : w[n + 1] = base * w[n]
  <2>1. \A n \in Nat : w[n] = IF n = 0 THEN 1 ELSE base * w[n - 1]
    BY <1>5
  <2>2. ASSUME NEW n \in Nat PROVE w[n + 1] = base * w[n]
    <3>1. n + 1 \in Nat /\ n + 1 # 0 /\ (n + 1) - 1 = n
      OBVIOUS
    <3> QED
      BY <2>1, <3>1
  <2> QED
    BY <2>1, <2>2
<1>7. \A n \in Nat : w[n] \in Nat \ {0}
  <2> DEFINE S == {n \in Nat : w[n] \in Nat \ {0}}
  <2>1. 0 \in S
    BY <1>6
  <2>2. ASSUME NEW n \in Nat, n \in S PROVE n + 1 \in S
    <3>1. w[n + 1] = base * w[n] /\ w[n] \in Nat \ {0}
      BY <1>6, <2>2
    <3>2. base * w[n] \in Nat \ {0}
      BY <3>1
    <3> QED
      BY <3>1, <3>2
  <2> HIDE DEF S
  <2>3. \A n \in Nat : n \in S
    BY <2>1, <2>2, NatInd
  <2> QED
    BY <2>3 DEF S
<1>8. w \in [Nat -> Nat \ {0}]
  BY <1>5, <1>7
<1> QED
  BY <1>6, <1>8 DEF Weights

\* ... as groups have, ...
LEMMA GroupWeights == Weights(GroupWeight, Payloads)
<1>1. Payloads \in Nat \ {0}
  BY ExpressionAssumption DEF Payloads
<1> QED
  BY <1>1, WeightsOf DEF GroupWeight

\* ... and bytes.
LEMMA ByteWeights == Weights(ByteWeight, ByteRange)
<1>1. ByteRange \in Nat \ {0}
  BY ExpressionAssumption DEF Payloads, ByteRange
<1> QED
  BY <1>1, WeightsOf DEF ByteWeight

\* From one weight to the next
LEMMA WeightStep ==
    ASSUME NEW base \in Nat, NEW w, Weights(w, base), NEW n \in Nat
    PROVE  w[n] \in Nat \ {0} /\ w[n + 1] = base * w[n]
BY DEF Weights

\* Heavier parts weigh at least base times as much.
LEMMA WeightGrows ==
    ASSUME NEW base \in Nat, base >= 2, NEW w, Weights(w, base),
           NEW n \in Nat, NEW m \in Nat, n < m
    PROVE  base * w[n] <= w[m]
<1> DEFINE S == {k \in Nat : base * w[n] <= w[n + 1 + k]}
<1>1. 0 \in S
  <2>1. n + 1 + 0 = n + 1
    OBVIOUS
  <2>2. base * w[n] \in Nat
    BY WeightStep
  <2> QED
    BY <2>1, <2>2, WeightStep
<1>2. ASSUME NEW k \in Nat, k \in S PROVE k + 1 \in S
  <2> DEFINE a == w[n + 1 + k]
  <2>1. /\ n + 1 + (k + 1) = (n + 1 + k) + 1 /\ n + 1 + k \in Nat
        /\ base * w[n] \in Nat
    BY WeightStep
  <2>2. a \in Nat \ {0} /\ w[(n + 1 + k) + 1] = base * a
    BY <2>1, WeightStep
  <2>3. base * w[n] <= a
    BY <1>2
  <2> HIDE DEF a
  <2>4. base * a >= a
    BY <2>2
  <2>5. base * w[n] <= base * a
    BY <2>1, <2>2, <2>3, <2>4
  <2> QED
    BY <2>1, <2>2, <2>5
<1> HIDE DEF S
<1>3. \A k \in Nat : k \in S
  BY <1>1, <1>2, NatInd
<1>4. m - n - 1 \in Nat /\ n + 1 + (m - n - 1) = m
  OBVIOUS
<1> QED
  BY <1>3, <1>4 DEF S

\* What the parts from each on mean
PartsTable(f, parts, base, n) ==
    /\ f \in [1..(n + 1) -> Nat]
    /\ f[n + 1] = 0
    /\ \A i \in 1..n : f[i] = parts[i] + base * f[i + 1]

\* NumberOf goes through the parts from the highest to the lowest.
LEMMA NumberTable ==
    ASSUME NEW base \in Nat, NEW parts \in Seq(Nat), NEW n, n = Len(parts)
    PROVE  \E f : PartsTable(f, parts, base, n) /\ NumberOf(parts, base) = f[1]
<1> DEFINE S    == 1..(n + 1)
           rank == [q \in S |-> n + 1 - q]
           next == [q \in S |-> IF q > n THEN q ELSE q + 1]
           H    == [p \in S \X Nat |-> IF p[1] > n THEN 0 ELSE parts[p[1]] + base * p[2]]
           from == CHOOSE f : f = [i \in 1..(Len(parts) + 1) |->
                       IF i > Len(parts) THEN 0 ELSE parts[i] + base * f[i + 1]]
<1>1. n \in Nat /\ \A i \in 1..n : parts[i] \in Nat
  OBVIOUS
<1>2. rank \in [S -> 0..n] /\ next \in [S -> S]
  BY <1>1
<1>3. H \in [S \X Nat -> Nat]
  <2>1. ASSUME NEW q \in S, NEW a \in Nat PROVE (IF q > n THEN 0 ELSE parts[q] + base * a) \in Nat
    <3>1. q <= n => q \in 1..n
      BY <1>1
    <3> QED
      BY <1>1, <3>1
  <2> QED
    BY <2>1
<1>4. \A q \in S : rank[q] # 0 => rank[next[q]] < rank[q]
  BY <1>1
<1>5. \A q \in S : rank[q] = n + 1 - q /\ (q <= n => next[q] = q + 1 /\ q + 1 \in S)
  BY <1>1
<1>6. \A q \in 1..n, a \in Nat : H[<<q, a>>] = parts[q] + base * a
  <2>1. ASSUME NEW q \in 1..n, NEW a \in Nat PROVE H[<<q, a>>] = parts[q] + base * a
    <3>1. q \in S /\ ~(q > n) /\ <<q, a>> \in S \X Nat
      BY <1>1
    <3> QED
      BY <3>1
  <2> QED
    BY <2>1
<1> HIDE DEF rank, next, H
<1>7. PICK g : IsRankTable(g, S, rank, next, Nat, 0, H)
  <2> HIDE DEF S
  <2> QED
    BY <1>1, <1>2, <1>3, <1>4, RankTable
<1>8. g \in [S -> Nat]
  BY <1>7 DEF IsRankTable
<1>9. ASSUME NEW i \in S PROVE g[i] = IF i > n THEN 0 ELSE parts[i] + base * g[i + 1]
  <2>1. CASE i > n
    <3>1. rank[i] = 0
      BY <1>1, <1>5, <2>1
    <3> QED
      BY <1>7, <2>1, <3>1 DEF IsRankTable
  <2>2. CASE ~(i > n)
    <3>1. rank[i] # 0 /\ next[i] = i + 1 /\ i + 1 \in S /\ i \in 1..n
      BY <1>1, <1>5, <2>2
    <3>2. g[i] = H[<<i, g[i + 1]>>] /\ g[i + 1] \in Nat
      BY <1>7, <1>8, <3>1 DEF IsRankTable
    <3> QED
      BY <1>6, <2>2, <3>1, <3>2
  <2> QED
    BY <2>1, <2>2
<1>10. g = [i \in 1..(Len(parts) + 1) |-> IF i > Len(parts) THEN 0 ELSE parts[i] + base * g[i + 1]]
  <2>1. g = [i \in S |-> g[i]]
    BY <1>8
  <2> QED
    BY <1>9, <2>1
<1>11. from = [i \in 1..(Len(parts) + 1) |->
                 IF i > Len(parts) THEN 0 ELSE parts[i] + base * from[i + 1]]
  BY <1>10
<1>12. NumberOf(parts, base) = from[1]
  BY DEF NumberOf
<1> HIDE DEF from
<1>13. \A i \in S : from[i] = IF i > n THEN 0 ELSE parts[i] + base * from[i + 1]
  BY <1>11
<1> DEFINE T == {k \in 0..n : from[n + 1 - k] = g[n + 1 - k]}
<1>14. 0 \in T
  <2>1. n + 1 - 0 \in S /\ n + 1 - 0 > n
    BY <1>1
  <2>2. from[n + 1 - 0] = 0 /\ g[n + 1 - 0] = 0
    BY <1>9, <1>13, <2>1
  <2> QED
    BY <1>1, <2>2
<1>15. ASSUME NEW k \in 0..(n - 1), k \in T PROVE k + 1 \in T
  <2> DEFINE i == n + 1 - (k + 1)
  <2>1. i \in S /\ ~(i > n) /\ i + 1 = n + 1 - k
    BY <1>1
  <2>2. from[i + 1] = g[i + 1]
    BY <1>15, <2>1
  <2> HIDE DEF i
  <2>3. from[i] = g[i]
    BY <1>9, <1>13, <2>1, <2>2
  <2> QED
    BY <1>1, <2>3 DEF i
<1> HIDE DEF T
<1>16. \A k \in 0..n : k \in T
  BY <1>1, <1>14, <1>15, UpTo
<1>17. from[1] = g[1]
  <2>1. n \in T /\ n + 1 - n = 1
    BY <1>1, <1>16
  <2> QED
    BY <2>1 DEF T
<1>18. PartsTable(g, parts, base, n)
  <2>1. n + 1 \in S /\ n + 1 > n
    BY <1>1
  <2>2. g[n + 1] = 0
    BY <1>9, <2>1
  <2>3. ASSUME NEW i \in 1..n
        PROVE  g[i] = parts[i] + base * g[i + 1]
    <3>1. i \in S /\ ~(i > n)
      BY <1>1
    <3> QED
      BY <1>9, <3>1
  <2> QED
    BY <1>8, <2>2, <2>3 DEF PartsTable
<1> QED
  BY <1>12, <1>17, <1>18

\* Three facts about products that the prover is told as they are needed
LEMMA Distribute ==
    ASSUME NEW a \in Int, NEW b \in Int, NEW c \in Int
    PROVE  a * (b + c) = a * b + a * c
OBVIOUS

LEMMA ProductOfNats ==
    ASSUME NEW a \in Nat, NEW b \in Nat
    PROVE  a * b \in Nat
OBVIOUS

LEMMA Regroup ==
    ASSUME NEW a \in Int, NEW b \in Int, NEW c \in Int
    PROVE  a * (b * c) = b * (a * c)
OBVIOUS

\* One more part on top adds its weight.
LEMMA NumberAppended ==
    ASSUME NEW base \in Nat, NEW w, Weights(w, base),
           NEW parts \in Seq(Nat), NEW p \in Nat
    PROVE  NumberOf(Append(parts, p), base) = NumberOf(parts, base) + p * w[Len(parts)]
<1> DEFINE n    == Len(parts)
           more == Append(parts, p)
<1>1. n \in Nat /\ more \in Seq(Nat) /\ Len(more) = n + 1
  OBVIOUS
<1>2. more[n + 1] = p /\ \A i \in 1..n : more[i] = parts[i] /\ parts[i] \in Nat
  OBVIOUS
<1> HIDE DEF n, more
<1>3. PICK f : PartsTable(f, parts, base, n) /\ NumberOf(parts, base) = f[1]
  BY NumberTable DEF n
<1>4. PICK g : PartsTable(g, more, base, n + 1) /\ NumberOf(more, base) = g[1]
  BY <1>1, NumberTable
<1> DEFINE T == {k \in 0..n : g[n + 1 - k] = f[n + 1 - k] + p * w[k]}
<1>5. 0 \in T
  <2>1. /\ g[n + 1] = more[n + 1] + base * g[(n + 1) + 1] /\ g[(n + 1) + 1] = 0
        /\ f[n + 1] = 0
    BY <1>1, <1>3, <1>4 DEF PartsTable
  <2>2. w[0] = 1
    BY DEF Weights
  <2>3. g[n + 1] = p
    BY <1>2, <2>1
  <2> QED
    BY <1>1, <2>1, <2>2, <2>3
<1>6. ASSUME NEW k \in 0..(n - 1), k \in T PROVE k + 1 \in T
  <2> DEFINE i == n + 1 - (k + 1)
  <2>1. i \in 1..n /\ i \in 1..(n + 1) /\ i + 1 = n + 1 - k /\ i + 1 \in 1..(n + 1) /\ k \in Nat
    BY <1>1
  <2>2. g[i + 1] = f[i + 1] + p * w[k]
    BY <1>6, <2>1
  <2> HIDE DEF i
  <2>3. /\ g[i] = parts[i] + base * g[i + 1] /\ f[i] = parts[i] + base * f[i + 1]
        /\ f[i + 1] \in Nat /\ parts[i] \in Nat
    BY <1>1, <1>2, <1>3, <1>4, <2>1 DEF PartsTable
  <2> DEFINE a == f[i + 1]
             b == p * w[k]
  <2>4. w[k] \in Nat /\ w[k + 1] = base * w[k] /\ b \in Nat
    <3>1. w[k] \in Nat /\ w[k + 1] = base * w[k]
      BY <2>1, WeightStep
    <3> QED
      BY <3>1, ProductOfNats
  <2>5. base * b = p * w[k + 1]
    BY <2>4, Regroup
  <2>6. a \in Nat /\ base * a \in Nat /\ base * b \in Nat
    <3>1. a \in Nat
      BY <2>3
    <3> HIDE DEF a, b
    <3> QED
      BY <2>4, <3>1, ProductOfNats
  <2> HIDE DEF a, b
  <2>7. base * (a + b) = base * a + base * b
    BY <2>4, <2>6, Distribute
  <2>8. g[i] = parts[i] + (base * a + base * b) /\ f[i] = parts[i] + base * a
    BY <2>2, <2>3, <2>7 DEF a, b
  <2>9. g[i] = f[i] + p * w[k + 1]
    BY <2>3, <2>5, <2>6, <2>8
  <2> QED
    BY <1>1, <2>9 DEF i
<1> HIDE DEF T
<1>7. \A k \in 0..n : k \in T
  BY <1>1, <1>5, <1>6, UpTo
<1>8. g[1] = f[1] + p * w[n]
  <2>1. n \in T /\ n + 1 - n = 1
    BY <1>1, <1>7
  <2> QED
    BY <2>1 DEF T
<1> QED
  BY <1>3, <1>4, <1>8 DEF n, more

\* A number without parts is zero.
LEMMA NumberOfNothing ==
    ASSUME NEW base \in Nat
    PROVE  NumberOf(<<>>, base) = 0
<1>1. <<>> \in Seq(Nat) /\ Len(<<>>) = 0
  OBVIOUS
<1>2. PICK f : PartsTable(f, <<>>, base, 0) /\ NumberOf(<<>>, base) = f[1]
  BY <1>1, NumberTable
<1> QED
  BY <1>2 DEF PartsTable

\* A number is below the weight of the part it does not have.
LEMMA NumberBelow ==
    ASSUME NEW base \in Nat \ {0}, NEW w, Weights(w, base),
           NEW parts \in Seq(Nat), \A i \in 1..Len(parts) : parts[i] < base
    PROVE  NumberOf(parts, base) \in Nat /\ NumberOf(parts, base) < w[Len(parts)]
<1> DEFINE n == Len(parts)
<1>1. n \in Nat /\ \A i \in 1..n : parts[i] \in Nat /\ parts[i] < base
  OBVIOUS
<1>2. PICK f : PartsTable(f, parts, base, n) /\ NumberOf(parts, base) = f[1]
  BY NumberTable
<1> HIDE DEF n
<1> DEFINE T == {k \in 0..n : f[n + 1 - k] < w[k]}
<1>3. 0 \in T
  BY <1>1, <1>2 DEF PartsTable, Weights
<1>4. ASSUME NEW k \in 0..(n - 1), k \in T PROVE k + 1 \in T
  <2> DEFINE i == n + 1 - (k + 1)
             a == f[i + 1]
             b == w[k]
  <2>1. i \in 1..n /\ i + 1 = n + 1 - k /\ i + 1 \in 1..(n + 1) /\ k \in Nat
    BY <1>1
  <2>2. a < b
    BY <1>4, <2>1
  <2>3. b \in Nat /\ w[k + 1] = base * b
    BY <2>1, WeightStep
  <2> HIDE DEF i
  <2>4. f[i] = parts[i] + base * a /\ a \in Nat /\ parts[i] \in Nat /\ parts[i] < base
    BY <1>1, <1>2, <2>1 DEF PartsTable
  <2> HIDE DEF a, b
  <2>5. b = a + 1 + (b - a - 1) /\ b - a - 1 \in Nat
    BY <2>2, <2>3, <2>4
  <2>6. base * ((a + 1) + (b - a - 1)) = base * (a + 1) + base * (b - a - 1)
    BY <2>3, <2>4, Distribute
  <2>7. base * (a + 1) = base * a + base
    BY <2>4
  <2>8. base * (b - a - 1) \in Nat /\ base * a \in Nat
    BY <2>4, <2>5
  <2>9. f[i] < w[k + 1]
    <3> DEFINE c == base * a
               d == base * (b - a - 1)
    <3>1. base * b = (c + base) + d /\ c \in Nat /\ d \in Nat
      BY <2>5, <2>6, <2>7, <2>8
    <3>2. f[i] = parts[i] + c /\ w[k + 1] = base * b
      BY <2>3, <2>4
    <3> HIDE DEF c, d
    <3> QED
      BY <2>4, <3>1, <3>2
  <2> QED
    BY <1>1, <2>9 DEF i
<1> HIDE DEF T
<1>5. \A k \in 0..n : k \in T
  BY <1>1, <1>3, <1>4, UpTo
<1>6. f[1] < w[n] /\ f[1] \in Nat
  <2>1. n \in T /\ n + 1 - n = 1 /\ 1 \in 1..(n + 1)
    BY <1>1, <1>5
  <2> QED
    BY <1>2, <2>1 DEF T, PartsTable
<1> QED
  BY <1>2, <1>6 DEF n

-----------------------------------------------------------------------------
(* Numbers in groups.                                                      *)

\* What a loop over groups has
Numbers == [state : {"more", "read", "overflow"}, value : Nat, shift : Nat, byte : Nat]
NoGroups == [state |-> "more", value |-> 0, shift |-> 0, byte |-> 0]

\* What the constants are
LEMMA Sizes ==
    /\ SignBit \in Nat \ {0} /\ Payloads = 2 * SignBit /\ ByteRange = 4 * SignBit
    /\ Groups \in Nat \ {0} /\ HalfRange \in Nat \ {0}
    /\ GroupWeight[Groups - 1] = HalfRange
BY ExpressionAssumption, RangeAssumption DEF Payloads, ByteRange

\* A byte is its payload and its flag.
LEMMA BytesAre ==
    ASSUME NEW byte \in Bytes
    PROVE  /\ byte \in Nat /\ Payload(byte) \in 0..(Payloads - 1)
           /\ byte = Payload(byte) + IF Follows(byte) THEN Payloads ELSE 0
<1>1. byte \in Nat /\ byte < 2 * Payloads /\ Payloads \in Nat \ {0}
  BY Sizes DEF Bytes, ByteRange
<1>2. Payload(byte) = IF byte < Payloads THEN byte ELSE byte - Payloads
  BY <1>1 DEF Payload
<1> QED
  BY <1>1, <1>2 DEF Follows

\* What fits into a word is not changed.
LEMMA WrapIsNat ==
    ASSUME NEW n \in Nat
    PROVE  Wrap(n) \in Nat /\ (n < 2 * HalfRange => Wrap(n) = n)
BY Sizes DEF Wrap

\* A round yields what a round begins with.
LEMMA RoundType ==
    ASSUME NEW x \in Numbers, NEW byte \in Bytes, NEW last
    PROVE  Round(x, byte, last) \in Numbers
<1>1. x.state \in {"more", "read", "overflow"} /\ x.value \in Nat /\ x.shift \in Nat
      /\ x.byte \in Nat
  BY DEF Numbers
<1>2. GroupWeight[x.shift] \in Nat /\ Payload(byte) \in Nat /\ byte \in Nat
  BY <1>1, GroupWeights, Sizes, WeightStep, BytesAre
<1>3. Payload(byte) * GroupWeight[x.shift] \in Nat
  BY <1>2, ProductOfNats
<1>4. Wrap(Payload(byte) * GroupWeight[x.shift]) \in Nat
  BY <1>3, WrapIsNat
<1>5. CASE x.state # "more"
  BY <1>5 DEF Round
<1>6. CASE x.state = "more" /\ x.shift = Groups - 1 /\ Payload(byte) \notin last
  <2>1. Round(x, byte, last) = [x EXCEPT !.state = "overflow"]
    BY <1>6 DEF Round
  <2> QED
    BY <2>1 DEF Numbers
<1>7. CASE x.state = "more" /\ ~(x.shift = Groups - 1 /\ Payload(byte) \notin last)
  <2> DEFINE v == Wrap(Payload(byte) * GroupWeight[x.shift])
  <2>1. Round(x, byte, last) =
          [state |-> IF Follows(byte) THEN "more" ELSE "read",
           value |-> x.value + v, shift |-> x.shift + 1, byte |-> byte]
    BY <1>7 DEF Round
  <2> HIDE DEF v
  <2>2. v \in Nat
    BY <1>4 DEF v
  <2> QED
    BY <1>1, <1>2, <2>1, <2>2 DEF Numbers
<1> QED
  BY <1>5, <1>6, <1>7

\* What the loop has, round by round
RoundsUpTo(f, digits, n, last) ==
    /\ f \in [0..n -> Numbers]
    /\ f[0] = NoGroups
    /\ \A k \in 0..(n - 1) : f[k + 1] = Round(f[k], digits[k + 1], last)

GroupsOf(digits, last) ==
    FoldLeft(LAMBDA number, byte : Round(number, byte, last), NoGroups, digits)

\* The loop over the groups, as a table
LEMMA GroupsInSteps ==
    ASSUME NEW digits \in Seq(Bytes), NEW n, n = Len(digits), NEW last
    PROVE  \E f : RoundsUpTo(f, digits, n, last) /\ f[n] = GroupsOf(digits, last)
<1> DEFINE Next(x, byte) == Round(x, byte, last)
           G == [x \in Numbers \X (1..n) |-> Next(x[1], digits[x[2]])]
           Table(t) == [s \in SUBSET (DOMAIN digits) |->
                          IF s = {} THEN NoGroups ELSE Next(t[s \ {Max(s)}], digits[Max(s)])]
           iter == CHOOSE t : t = Table(t)
<1>1. n \in Nat /\ DOMAIN digits = 1..n
  BY LenProperties
<1>2. NoGroups \in Numbers
  BY DEF Numbers, NoGroups
<1>3. ASSUME NEW k \in 1..n PROVE digits[k] \in Bytes
  BY <1>1
<1>4. ASSUME NEW x \in Numbers, NEW k \in 1..n PROVE Next(x, digits[k]) \in Numbers
  BY <1>3, RoundType
<1>5. G \in [Numbers \X (1..n) -> Numbers]
  <2> HIDE DEF Next
  <2> QED
    BY <1>4
<1>6. PICK g : IsTable(g, n, Numbers, NoGroups, G)
  <2> HIDE DEF G
  <2> QED
    BY <1>1, <1>2, <1>5, FoldTable
<1>7. g = Table(g)
  <2>1. ASSUME NEW s \in SUBSET (1..n), s # {}
        PROVE  G[<<g[s \ {Max(s)}], Max(s)>>] = Next(g[s \ {Max(s)}], digits[Max(s)])
    <3>1. Max(s) \in 1..n /\ g[s \ {Max(s)}] \in Numbers
      BY <1>1, <1>6, <2>1, LastPlace DEF IsTable
    <3> HIDE DEF Next
    <3> QED
      BY <3>1
  <2> HIDE DEF G, Next
  <2> QED
    BY <1>1, <1>6, <2>1 DEF IsTable
<1>8. iter = Table(iter)
  BY <1>7
<1>9. GroupsOf(digits, last) = iter[DOMAIN digits]
  BY DEF GroupsOf, FoldLeft, MapThenFoldSet
<1> HIDE DEF iter
<1> DEFINE f == [k \in 0..n |-> iter[1..k]]
<1>10. \A s \in SUBSET (1..n) :
         iter[s] = IF s = {} THEN NoGroups ELSE Next(iter[s \ {Max(s)}], digits[Max(s)])
  <2> HIDE DEF Next
  <2> QED
    BY <1>1, <1>8
<1> HIDE DEF Next
<1>11. f[0] = NoGroups
  <2>1. 1..0 = {} /\ {} \in SUBSET (1..n) /\ 0 \in 0..n
    BY <1>1
  <2> QED
    BY <1>10, <2>1
<1>12. ASSUME NEW k \in 0..(n - 1)
       PROVE  f[k + 1] = Next(f[k], digits[k + 1])
  <2>1. k \in 0..n /\ k + 1 \in 0..n
    BY <1>1
  <2>2. /\ 1..(k + 1) \in SUBSET (1..n) /\ 1..(k + 1) # {}
        /\ Max(1..(k + 1)) = k + 1 /\ (1..(k + 1)) \ {k + 1} = 1..k
    BY <1>1, FirstPlaces
  <2> QED
    BY <1>10, <2>1, <2>2
<1>13. f[n] = iter[DOMAIN digits]
  BY <1>1
<1>14. f = [k \in 0..n |-> f[k]]
  OBVIOUS
<1> HIDE DEF f
<1> DEFINE S == {k \in 0..n : f[k] \in Numbers}
<1>15. 0 \in S
  <2>1. 0 \in 0..n /\ f[0] = NoGroups
    BY <1>1, <1>11
  <2> QED
    BY <1>2, <2>1
<1>16. ASSUME NEW k \in 0..(n - 1), k \in S PROVE k + 1 \in S
  <2>1. k + 1 \in 0..n /\ k + 1 \in 1..n /\ f[k] \in Numbers
    BY <1>1, <1>16
  <2> QED
    BY <1>4, <1>12, <2>1
<1> HIDE DEF S
<1>17. \A k \in 0..n : k \in S
  BY <1>1, <1>15, <1>16, UpTo
<1>18. f \in [0..n -> Numbers]
  <2>1. \A k \in 0..n : f[k] \in Numbers
    BY <1>17 DEF S
  <2> QED
    BY <1>14, <2>1
<1>19. RoundsUpTo(f, digits, n, last)
  BY <1>11, <1>12, <1>18 DEF RoundsUpTo, Next
<1> QED
  BY <1>9, <1>13, <1>19

\* The number that the first k groups mean
Low(digits, k) == LebValue(SubSeq(digits, 1, k))

\* The payloads of a number
LEMMA LebParts ==
    ASSUME NEW digits \in Seq(Bytes)
    PROVE  /\ [i \in DOMAIN digits |-> Payload(digits[i])] \in Seq(Nat)
           /\ Len([i \in DOMAIN digits |-> Payload(digits[i])]) = Len(digits)
           /\ \A i \in 1..Len(digits) :
                 [j \in DOMAIN digits |-> Payload(digits[j])][i] < Payloads
<1> DEFINE n == Len(digits)
           parts == [i \in DOMAIN digits |-> Payload(digits[i])]
<1>1. n \in Nat /\ DOMAIN digits = 1..n /\ \A i \in 1..n : digits[i] \in Bytes
  OBVIOUS
<1>2. \A i \in 1..n : Payload(digits[i]) \in Nat /\ Payload(digits[i]) < Payloads
  BY <1>1, BytesAre, Sizes
<1> HIDE DEF n
<1>3. parts = [i \in 1..n |-> Payload(digits[i])]
  BY <1>1
<1> HIDE DEF parts
<1>4. parts \in [1..n -> Nat]
  BY <1>2, <1>3
<1>5. parts \in Seq(Nat) /\ Len(parts) = n
  BY <1>1, <1>4
<1>6. \A i \in 1..n : parts[i] < Payloads
  BY <1>2, <1>3
<1> QED
  BY <1>5, <1>6 DEF n, parts

\* A number is below the weight of the group it does not have.
LEMMA LebBelow ==
    ASSUME NEW digits \in Seq(Bytes)
    PROVE  LebValue(digits) \in Nat /\ LebValue(digits) < GroupWeight[Len(digits)]
<1> DEFINE parts == [i \in DOMAIN digits |-> Payload(digits[i])]
<1>1. /\ parts \in Seq(Nat) /\ Len(parts) = Len(digits)
      /\ \A i \in 1..Len(parts) : parts[i] < Payloads
  BY LebParts
<1>2. LebValue(digits) = NumberOf(parts, Payloads)
  BY DEF LebValue
<1> HIDE DEF parts
<1>3. Payloads \in Nat \ {0}
  BY Sizes
<1> QED
  BY <1>1, <1>2, <1>3, NumberBelow, GroupWeights

\* One more group adds what it weighs.
LEMMA LebAppended ==
    ASSUME NEW digits \in Seq(Bytes), NEW byte \in Bytes
    PROVE  LebValue(Append(digits, byte))
             = LebValue(digits) + Payload(byte) * GroupWeight[Len(digits)]
<1> DEFINE parts == [i \in DOMAIN digits |-> Payload(digits[i])]
           more  == Append(digits, byte)
           n     == Len(digits)
<1>1. n \in Nat /\ DOMAIN digits = 1..n /\ DOMAIN more = 1..(n + 1) /\ more[n + 1] = byte
      /\ \A i \in 1..n : more[i] = digits[i]
  OBVIOUS
<1>2. parts \in Seq(Nat) /\ Len(parts) = n /\ Payload(byte) \in Nat
  BY LebParts, BytesAre, Sizes
<1>3. LebValue(digits) = NumberOf(parts, Payloads)
  BY DEF LebValue
<1>4. LebValue(more) = NumberOf([i \in DOMAIN more |-> Payload(more[i])], Payloads)
  BY DEF LebValue
<1>5. \A i \in 1..n : parts[i] = Payload(digits[i])
  BY <1>1
<1> HIDE DEF parts, more, n
<1>6. [i \in DOMAIN more |-> Payload(more[i])] = Append(parts, Payload(byte))
  <2>1. /\ Append(parts, Payload(byte)) = [i \in 1..(n + 1) |-> Append(parts, Payload(byte))[i]]
        /\ Append(parts, Payload(byte))[n + 1] = Payload(byte)
        /\ \A i \in 1..n : Append(parts, Payload(byte))[i] = parts[i]
    <3> DEFINE a == Append(parts, Payload(byte))
    <3>1. /\ a \in Seq(Nat) /\ Len(a) = n + 1 /\ a[n + 1] = Payload(byte)
          /\ \A i \in 1..n : a[i] = parts[i]
      BY <1>2, AppendProperties
    <3> HIDE DEF a
    <3>2. a = [i \in 1..(n + 1) |-> a[i]]
      BY <1>1, <3>1
    <3> QED
      BY <3>1, <3>2 DEF a
  <2>2. ASSUME NEW i \in 1..(n + 1) PROVE Append(parts, Payload(byte))[i] = Payload(more[i])
    <3>1. i = n + 1 \/ i \in 1..n
      BY <1>1
    <3> QED
      BY <1>1, <1>5, <2>1, <3>1
  <2> QED
    BY <1>1, <2>1, <2>2
<1>7. Payloads \in Nat
  BY Sizes
<1> QED
  BY <1>2, <1>3, <1>4, <1>6, <1>7, NumberAppended, GroupWeights DEF more, n

\* The same of the first groups of a number:
\* from one to the next, ...
LEMMA LowStep ==
    ASSUME NEW digits \in Seq(Bytes), NEW k \in 0..(Len(digits) - 1)
    PROVE  /\ Low(digits, k + 1) = Low(digits, k) + Payload(digits[k + 1]) * GroupWeight[k]
           /\ SubSeq(digits, 1, k + 1) = Append(SubSeq(digits, 1, k), digits[k + 1])
           /\ SubSeq(digits, 1, k) \in Seq(Bytes) /\ Len(SubSeq(digits, 1, k)) = k
<1>1. SubSeq(digits, 1, k) \in Seq(Bytes) /\ Len(SubSeq(digits, 1, k)) = k
  OBVIOUS
<1>2. digits[k + 1] \in Bytes
  OBVIOUS
<1>3. SubSeq(digits, 1, k + 1) = Append(SubSeq(digits, 1, k), digits[k + 1])
  OBVIOUS
<1> QED
  BY <1>1, <1>2, <1>3, LebAppended DEF Low

\* ... without any, ...
LEMMA LowStart ==
    ASSUME NEW digits
    PROVE  Low(digits, 0) = 0
<1>1. SubSeq(digits, 1, 0) = <<>>
  BY DEF SubSeq
<1>2. LebValue(<<>>) = NumberOf(<<>>, Payloads)
  BY DEF LebValue
<1>3. Payloads \in Nat
  BY Sizes
<1> QED
  BY <1>1, <1>2, <1>3, NumberOfNothing DEF Low

\* ... and their bound
LEMMA LowBelow ==
    ASSUME NEW digits \in Seq(Bytes), NEW k \in 0..Len(digits)
    PROVE  Low(digits, k) \in Nat /\ Low(digits, k) < GroupWeight[k]
<1>1. SubSeq(digits, 1, k) \in Seq(Bytes) /\ Len(SubSeq(digits, 1, k)) = k
  OBVIOUS
<1> QED
  BY <1>1, LebBelow DEF Low

\* Only the last group weighs half a word.
LEMMA LowerWeights ==
    ASSUME NEW k \in Nat, k < Groups
    PROVE  /\ GroupWeight[k] \in Nat \ {0} /\ GroupWeight[k] <= HalfRange
           /\ k + 1 < Groups => Payloads * GroupWeight[k] <= HalfRange
           /\ GroupWeight[k + 1] = Payloads * GroupWeight[k]
<1>1. Payloads \in Nat /\ Payloads >= 2
  BY Sizes
<1>2. GroupWeight[k] \in Nat \ {0} /\ GroupWeight[k + 1] = Payloads * GroupWeight[k]
  BY <1>1, GroupWeights, WeightStep
<1>3. k + 1 < Groups => Payloads * GroupWeight[k] <= HalfRange
  <2> SUFFICES ASSUME k + 1 < Groups PROVE Payloads * GroupWeight[k] <= HalfRange
    OBVIOUS
  <2>1. Groups - 1 \in Nat /\ k < Groups - 1
    BY Sizes
  <2> QED
    BY <1>1, <2>1, GroupWeights, WeightGrows, Sizes
<1>4. GroupWeight[k] <= HalfRange
  <2>1. CASE k + 1 < Groups
    <3> DEFINE a == GroupWeight[k]
    <3>1. a \in Nat \ {0} /\ Payloads * a <= HalfRange
      BY <1>2, <1>3, <2>1
    <3> HIDE DEF a
    <3>2. Payloads * a >= a
      BY <1>1, <3>1
    <3>3. Payloads * a \in Int
      BY <1>1, <3>1
    <3>4. a <= HalfRange
      BY <3>1, <3>2, <3>3, Sizes
    <3> QED
      BY <3>4 DEF a
  <2>2. CASE ~(k + 1 < Groups)
    <3>1. k = Groups - 1
      BY <2>2, Sizes
    <3> QED
      BY <1>2, <3>1, Sizes
  <2> QED
    BY <2>1, <2>2
<1> QED
  BY <1>2, <1>3, <1>4

\* A part below base times what it weighs
LEMMA PartBelow ==
    ASSUME NEW base \in Nat, NEW p \in 0..(base - 1), NEW a \in Nat
    PROVE  p * a \in Nat /\ p * a <= base * a
<1>1. p \in Nat /\ base - p \in Nat
  OBVIOUS
<1>2. p * a \in Nat /\ (base - p) * a \in Nat
  BY <1>1, ProductOfNats
<1>3. a * base = a * (p + (base - p)) /\ a * (p + (base - p)) = a * p + a * (base - p)
  BY <1>1, Distribute
<1>4. a * base = base * a /\ a * p = p * a /\ a * (base - p) = (base - p) * a
  BY <1>1
<1> QED
  BY <1>2, <1>3, <1>4

\* What the loop has after some groups: the last one may lose bits.
ValueOf(digits, m) ==
    IF m < Groups THEN Low(digits, m)
    ELSE Low(digits, Groups - 1) + Wrap(Payload(digits[Groups]) * HalfRange)

\* The invariant of the loop: what it has after k bytes
ReadUpTo(s, digits, k, last) ==
    /\ s.shift \in 0..k
    /\ s.value = ValueOf(digits, s.shift)
    /\ s.shift # 0 => s.byte = digits[s.shift]
    /\ s.shift = Groups => Payload(digits[Groups]) \in last
    /\ \A i \in 1..k : i < s.shift => Follows(digits[i])
    /\ s.state = "more" => s.shift = k /\ (k # 0 => Follows(digits[k]))
    /\ s.state = "read" => s.shift # 0 /\ ~Follows(digits[s.shift])
    /\ s.state = "overflow" =>
           /\ s.shift = Groups - 1 /\ k >= Groups
           /\ Payload(digits[Groups]) \notin last
           /\ s.shift # 0 => Follows(digits[s.shift])

\* A round keeps to what ReadUpTo says.
LEMMA RoundReads ==
    ASSUME NEW digits \in Seq(Bytes), Len(digits) <= Groups,
           NEW k \in 0..(Len(digits) - 1), NEW last, NEW x \in Numbers,
           ReadUpTo(x, digits, k, last)
    PROVE  ReadUpTo(Round(x, digits[k + 1], last), digits, k + 1, last)
<1> DEFINE byte == digits[k + 1]
           y == Round(x, byte, last)
<1>0. /\ k \in Nat /\ Len(digits) \in Nat /\ k + 1 <= Len(digits) /\ byte \in Bytes
      /\ k + 1 \in 1..(k + 1) /\ Groups \in Nat \ {0}
  BY Sizes
<1>1. CASE x.state # "more"
  <2>1. y = x
    BY <1>1 DEF Round
  <2> HIDE DEF y
  <2>2. x.state \in {"read", "overflow"}
    BY <1>1 DEF Numbers
  <2>3. ReadUpTo(x, digits, k + 1, last)
    BY <1>0, <1>1 DEF ReadUpTo
  <2> QED
    BY <2>1, <2>3 DEF y
<1>2. CASE x.state = "more" /\ x.shift = Groups - 1 /\ Payload(byte) \notin last
  <2>1. y = [x EXCEPT !.state = "overflow"]
    BY <1>2 DEF Round
  <2>2. y.state = "overflow" /\ y.shift = x.shift /\ y.value = x.value /\ y.byte = x.byte
    BY <2>1 DEF Numbers
  <2>3. k = Groups - 1 /\ k + 1 = Groups /\ x.shift = k
    BY <1>0, <1>2 DEF ReadUpTo
  <2> HIDE DEF y
  <2>4. ReadUpTo(y, digits, k + 1, last)
    BY <1>0, <1>2, <2>2, <2>3 DEF ReadUpTo
  <2> QED
    BY <2>4 DEF y
<1>3. CASE x.state = "more" /\ ~(x.shift = Groups - 1 /\ Payload(byte) \notin last)
  <2> DEFINE v == Wrap(Payload(byte) * GroupWeight[x.shift])
  <2>1. y = [state |-> IF Follows(byte) THEN "more" ELSE "read",
             value |-> x.value + v, shift |-> x.shift + 1, byte |-> byte]
    BY <1>3 DEF Round
  <2>2. x.shift = k /\ k < Groups /\ x.value = Low(digits, k)
    BY <1>0, <1>3 DEF ReadUpTo, ValueOf
  <2>3. x.value + v = ValueOf(digits, k + 1)
    <3>1. CASE k + 1 < Groups
      <4>1. Payload(byte) \in 0..(Payloads - 1) /\ Payloads \in Nat
        BY <1>0, BytesAre, Sizes
      <4> DEFINE p == Payload(byte)
                 a == GroupWeight[k]
      <4>2. a \in Nat /\ Payloads * a <= HalfRange
        BY <1>0, <3>1, LowerWeights
      <4>3. p * a \in Nat /\ p * a <= Payloads * a
        <5> HIDE DEF p, a
        <5> QED
          BY <4>1, <4>2, PartBelow DEF p
      <4>4. p * a < 2 * HalfRange
        <5> HIDE DEF p, a
        <5>1. Payloads * a \in Int /\ p * a \in Int
          BY <4>1, <4>2, <4>3
        <5> DEFINE m == Payloads * a
                   q == p * a
        <5>2. q <= m /\ m <= HalfRange /\ q \in Int /\ m \in Int
          BY <4>2, <4>3, <5>1
        <5> HIDE DEF m, q
        <5>3. q < 2 * HalfRange
          BY <5>2, Sizes
        <5> QED
          BY <5>3 DEF q
      <4>5. v = p * a
        BY <2>2, <4>3, <4>4, WrapIsNat
      <4> QED
        BY <2>2, <3>1, <4>5, LowStep DEF ValueOf
    <3>2. CASE ~(k + 1 < Groups)
      <4>1. k = Groups - 1 /\ k + 1 = Groups
        BY <1>0, <2>2, <3>2
      <4>2. v = Wrap(Payload(digits[Groups]) * HalfRange)
        BY <2>2, <4>1, Sizes
      <4> HIDE DEF v
      <4> QED
        BY <1>0, <2>2, <3>2, <4>1, <4>2 DEF ValueOf
    <3> QED
      BY <3>1, <3>2
  <2> HIDE DEF v
  <2>4. /\ y.state = (IF Follows(byte) THEN "more" ELSE "read")
        /\ y.shift = k + 1 /\ y.value = ValueOf(digits, k + 1) /\ y.byte = byte
    BY <2>1, <2>2, <2>3
  <2>5. k + 1 = Groups => Payload(byte) \in last
    BY <1>0, <1>3, <2>2
  <2>6. \A i \in 1..(k + 1) : i < k + 1 => Follows(digits[i])
    <3>1. ASSUME NEW i \in 1..(k + 1), i < k + 1 PROVE Follows(digits[i])
      <4>1. i \in 1..k /\ (i < k \/ i = k) /\ k # 0
        BY <1>0, <3>1
      <4> QED
        BY <1>3, <2>2, <4>1 DEF ReadUpTo
    <3> QED
      BY <3>1
  <2> HIDE DEF y
  <2>7. ReadUpTo(y, digits, k + 1, last)
    BY <1>0, <2>4, <2>5, <2>6 DEF ReadUpTo
  <2> QED
    BY <2>7 DEF y
<1> QED
  BY <1>1, <1>2, <1>3

\* The bytes the loop looks at
GroupsFrom(at) ==
    SubSeq(bytes, at, IF at + Groups - 1 < Len(bytes) THEN at + Groups - 1 ELSE Len(bytes))

\* They are the bytes from a place on, as many as a number may have.
LEMMA LooksAt ==
    ASSUME bytes \in Seq(Bytes), NEW at \in 1..(Len(bytes) + 1)
    PROVE  /\ GroupsFrom(at) \in Seq(Bytes) /\ Len(GroupsFrom(at)) \in 0..Groups
           /\ at + Len(GroupsFrom(at)) <= Len(bytes) + 1
           /\ \A m \in 0..Len(GroupsFrom(at)) :
                 SubSeq(GroupsFrom(at), 1, m) = SubSeq(bytes, at, at + m - 1)
           /\ \A m \in 0..Groups : at + m - 1 <= Len(bytes) => m <= Len(GroupsFrom(at))
<1> DEFINE end == IF at + Groups - 1 < Len(bytes) THEN at + Groups - 1 ELSE Len(bytes)
           d   == SubSeq(bytes, at, end)
<1>1. /\ Len(bytes) \in Nat /\ at \in Nat /\ Groups \in Nat \ {0}
  BY Sizes
<1>2. end \in Nat /\ end >= at - 1 /\ end <= Len(bytes) /\ end <= at + Groups - 1
      /\ (end = Len(bytes) \/ end = at + Groups - 1)
  BY <1>1
<1> HIDE DEF end
<1>3. d \in Seq(Bytes) /\ Len(d) = end + 1 - at
      /\ \A i \in 1..(end + 1 - at) : d[i] = bytes[at + i - 1]
  <2>1. at \in 1..(Len(bytes) + 1) /\ end \in (at - 1)..Len(bytes)
    BY <1>1, <1>2
  <2>2. Len(d) = IF at <= end THEN end - at + 1 ELSE 0
    BY <1>1, <1>2, <2>1, SubSeqProperties
  <2>3. Len(d) = end + 1 - at
    BY <1>1, <1>2, <2>2
  <2>4. d \in Seq(Bytes)
    <3>1. \A i \in at..end : bytes[i] \in Bytes
      BY <1>1, <1>2
    <3> QED
      BY <1>1, <1>2, <3>1 DEF SubSeq
  <2>5. \A i \in 1..(end + 1 - at) : d[i] = bytes[at + i - 1]
    BY <1>1, <1>2 DEF SubSeq
  <2> QED
    BY <2>3, <2>4, <2>5
<1>4. ASSUME NEW m \in 0..Len(d) PROVE SubSeq(d, 1, m) = SubSeq(bytes, at, at + m - 1)
  <2>1. m \in Nat /\ m <= end + 1 - at
    BY <1>1, <1>2, <1>3, <1>4
  <2>2. \A i \in 1..m : d[i] = bytes[at + i - 1]
    BY <1>1, <1>2, <1>3, <2>1
  <2> HIDE DEF d
  <2>3. SubSeq(d, 1, m) = [i \in 1..m |-> d[i]]
    BY <2>1 DEF SubSeq
  <2>4. SubSeq(bytes, at, at + m - 1) = [i \in 1..m |-> bytes[at + i - 1]]
    BY <1>1, <2>1 DEF SubSeq
  <2> QED
    BY <2>2, <2>3, <2>4
<1>5. GroupsFrom(at) = d
  BY DEF GroupsFrom, end
<1> HIDE DEF d
<1>6. Len(d) \in 0..Groups /\ at + Len(d) <= Len(bytes) + 1
  BY <1>1, <1>2, <1>3
<1>7. \A m \in 0..Groups : at + m - 1 <= Len(bytes) => m <= Len(d)
  BY <1>1, <1>2, <1>3
<1> QED
  BY <1>3, <1>4, <1>5, <1>6, <1>7

\* When the loop is over, it has read all of them or knows why not.
LEMMA GroupsRead ==
    ASSUME bytes \in Seq(Bytes), NEW at \in 1..(Len(bytes) + 1), NEW last
    PROVE  /\ ReadGroups(at, last) \in Numbers
           /\ ReadUpTo(ReadGroups(at, last), GroupsFrom(at), Len(GroupsFrom(at)), last)
<1> DEFINE d == GroupsFrom(at)
           n == Len(d)
<1>1. d \in Seq(Bytes) /\ n \in Nat /\ n <= Groups
  BY LooksAt, Sizes
<1>2. ReadGroups(at, last) = GroupsOf(d, last)
  BY DEF ReadGroups, GroupsFrom, GroupsOf, NoGroups
<1> HIDE DEF d, n
<1>3. PICK f : RoundsUpTo(f, d, n, last) /\ f[n] = GroupsOf(d, last)
  BY <1>1, GroupsInSteps DEF n
<1> DEFINE S == {k \in 0..n : ReadUpTo(f[k], d, k, last)}
<1>4. 0 \in S
  <2>1. f[0] = NoGroups /\ 0 \in 0..n
    BY <1>1, <1>3 DEF RoundsUpTo
  <2>2. ValueOf(d, 0) = 0
    BY Sizes, LowStart DEF ValueOf
  <2>3. ReadUpTo(NoGroups, d, 0, last)
    BY <2>2, Sizes DEF ReadUpTo, NoGroups
  <2> QED
    BY <2>1, <2>3
<1>5. ASSUME NEW k \in 0..(n - 1), k \in S PROVE k + 1 \in S
  <2>1. f[k + 1] = Round(f[k], d[k + 1], last) /\ f[k] \in Numbers /\ k + 1 \in 0..n
    BY <1>1, <1>3 DEF RoundsUpTo
  <2>2. ReadUpTo(f[k + 1], d, k + 1, last)
    BY <1>1, <1>5, <2>1, RoundReads DEF n
  <2> QED
    BY <2>1, <2>2
<1> HIDE DEF S
<1>6. \A k \in 0..n : k \in S
  BY <1>1, <1>4, <1>5, UpTo
<1>7. ReadUpTo(f[n], d, n, last) /\ f[n] \in Numbers
  BY <1>1, <1>3, <1>6 DEF S, RoundsUpTo
<1> QED
  BY <1>2, <1>3, <1>7 DEF d, n

-----------------------------------------------------------------------------
(* read_uleb128 and read_sleb128.                                          *)

\* The number ends at a group without the flag.
LEMMA ReadOfGroups ==
    ASSUME bytes \in Seq(Bytes), NEW at \in 1..(Len(bytes) + 1), NEW last,
           NEW s, s = ReadGroups(at, last), s.state = "read",
           NEW d, d = GroupsFrom(at), NEW m, m = s.shift
    PROVE  /\ m \in 1..Groups /\ at + m <= Len(bytes) + 1
           /\ d \in Seq(Bytes) /\ m <= Len(d)
           /\ s.byte = d[m] /\ s.value = ValueOf(d, m)
           /\ m = Groups => Payload(d[Groups]) \in last
           /\ SubSeq(bytes, at, at + m - 1) = SubSeq(d, 1, m)
           /\ IsLeb(SubSeq(d, 1, m))
<1> DEFINE n == Len(d)
<1>1. /\ d \in Seq(Bytes) /\ n \in 0..Groups /\ at + n <= Len(bytes) + 1
      /\ \A k \in 0..n : SubSeq(d, 1, k) = SubSeq(bytes, at, at + k - 1)
  BY LooksAt
<1>2. s \in Numbers /\ ReadUpTo(s, d, n, last)
  BY GroupsRead
<1> HIDE DEF n
<1>3. /\ m \in 1..n /\ m \in 0..n /\ s.byte = d[m] /\ s.value = ValueOf(d, m)
      /\ m = Groups => Payload(d[Groups]) \in last
      /\ ~Follows(d[m])
      /\ \A i \in 1..n : i < m => Follows(d[i])
  BY <1>1, <1>2 DEF ReadUpTo
<1>4. IsLeb(SubSeq(d, 1, m))
  <2>1. m \in Nat \ {0} /\ n \in Nat /\ m <= Len(d)
    BY <1>1, <1>3 DEF n
  <2>2. SubSeq(d, 1, m) = [i \in 1..m |-> d[i]]
    BY <2>1 DEF SubSeq
  <2>3. Len(SubSeq(d, 1, m)) = m /\ SubSeq(d, 1, m) # <<>> /\ DOMAIN SubSeq(d, 1, m) = 1..m
    BY <2>1, <2>2
  <2>4. \A i \in 1..m : SubSeq(d, 1, m)[i] = d[i]
    BY <2>2
  <2>5. \A i \in 1..m : Follows(d[i]) <=> i < m
    <3>1. ASSUME NEW i \in 1..m PROVE Follows(d[i]) <=> i < m
      <4>1. i \in 1..n /\ (i < m \/ i = m)
        BY <1>1, <1>3, <2>1
      <4> QED
        BY <1>3, <2>1, <4>1
    <3> QED
      BY <3>1
  <2> QED
    BY <2>3, <2>4, <2>5 DEF IsLeb
<1> QED
  BY <1>1, <1>3, <1>4, Sizes DEF n

\* The loop does not come to the end of a number only if its last group is
\* too large.
LEMMA NotReadOfGroups ==
    ASSUME bytes \in Seq(Bytes), NEW at \in 1..(Len(bytes) + 1), NEW last,
           ReadGroups(at, last).state # "read",
           NEW d, d = GroupsFrom(at),
           NEW m \in 1..Groups, at + m - 1 <= Len(bytes),
           IsLeb(SubSeq(bytes, at, at + m - 1))
    PROVE  /\ m = Groups /\ m <= Len(d) /\ d \in Seq(Bytes)
           /\ Payload(d[Groups]) \notin last
           /\ SubSeq(bytes, at, at + m - 1) = SubSeq(d, 1, m)
<1> DEFINE n == Len(d)
           s == ReadGroups(at, last)
<1>1. /\ d \in Seq(Bytes) /\ n \in 0..Groups
      /\ \A k \in 0..n : SubSeq(d, 1, k) = SubSeq(bytes, at, at + k - 1)
      /\ \A k \in 0..Groups : at + k - 1 <= Len(bytes) => k <= n
  BY LooksAt
<1>2. s \in Numbers /\ ReadUpTo(s, d, n, last) /\ s.state # "read"
  BY GroupsRead
<1> HIDE DEF n, s
<1>3. m \in 1..n /\ m \in 0..n /\ n \in Nat /\ m \in Nat \ {0} /\ Groups \in Nat \ {0}
  BY <1>1, Sizes
<1>4. ~Follows(d[m])
  <2>1. SubSeq(d, 1, m) = [i \in 1..m |-> d[i]]
    BY <1>3 DEF SubSeq
  <2>2. Len(SubSeq(d, 1, m)) = m /\ DOMAIN SubSeq(d, 1, m) = 1..m /\ SubSeq(d, 1, m)[m] = d[m]
    BY <1>3, <2>1
  <2>3. IsLeb(SubSeq(d, 1, m)) /\ m \in 1..m
    <3>1. SubSeq(bytes, at, at + m - 1) = SubSeq(d, 1, m)
      BY <1>1, <1>3
    <3>2. IsLeb(SubSeq(d, 1, m))
      BY <3>1, Zenon
    <3>3. m \in 1..m
      BY <1>3
    <3> QED
      BY <3>2, <3>3
  <2>4. Follows(SubSeq(d, 1, m)[m]) <=> m < m
    BY <2>2, <2>3 DEF IsLeb
  <2> QED
    BY <1>3, <2>2, <2>4
<1>5. s.shift \in 0..n /\ \A i \in 1..n : i < s.shift => Follows(d[i])
  BY <1>2 DEF ReadUpTo
<1>6. s.state = "overflow"
  <2> SUFFICES ASSUME s.state = "more" PROVE FALSE
    BY <1>2 DEF Numbers
  <2>1. s.shift = n /\ (n # 0 => Follows(d[n]))
    BY <1>2 DEF ReadUpTo
  <2>2. m < n \/ m = n
    BY <1>3
  <2> QED
    BY <1>3, <1>4, <1>5, <2>1, <2>2
<1>7. /\ s.shift = Groups - 1 /\ n >= Groups /\ Payload(d[Groups]) \notin last
      /\ s.shift # 0 => Follows(d[s.shift])
  BY <1>2, <1>6 DEF ReadUpTo
<1>8. m = Groups
  <2>1. m = Groups \/ m < s.shift \/ m = s.shift
    BY <1>3, <1>7
  <2>2. ~(m < s.shift)
    BY <1>3, <1>4, <1>5
  <2>3. m # s.shift
    BY <1>3, <1>4, <1>7
  <2> QED
    BY <2>1, <2>2, <2>3
<1> QED
  BY <1>1, <1>3, <1>7, <1>8 DEF n

\* The highest group of a number
LEMMA HighestGroup ==
    ASSUME NEW d \in Seq(Bytes), NEW m \in 1..Groups, m <= Len(d)
    PROVE  /\ LebValue(SubSeq(d, 1, m)) = Low(d, m)
           /\ Low(d, m) = Low(d, m - 1) + Payload(d[m]) * GroupWeight[m - 1]
           /\ Low(d, m - 1) \in Nat /\ Low(d, m - 1) < GroupWeight[m - 1]
           /\ Low(d, m) \in Nat /\ Low(d, m) < GroupWeight[m]
           /\ Payload(d[m]) \in 0..(Payloads - 1)
           /\ Last(SubSeq(d, 1, m)) = d[m] /\ Len(SubSeq(d, 1, m)) = m
<1>1. m \in Nat \ {0} /\ Len(d) \in Nat /\ m - 1 \in 0..(Len(d) - 1) /\ (m - 1) + 1 = m
      /\ m - 1 \in 0..Len(d) /\ m \in 0..Len(d) /\ m \in 1..Len(d)
  BY Sizes
<1>2. Low(d, m) = Low(d, m - 1) + Payload(d[m]) * GroupWeight[m - 1]
  BY <1>1, LowStep
<1>3. /\ Low(d, m - 1) \in Nat /\ Low(d, m - 1) < GroupWeight[m - 1]
      /\ Low(d, m) \in Nat /\ Low(d, m) < GroupWeight[m]
  BY <1>1, LowBelow
<1>4. Payload(d[m]) \in 0..(Payloads - 1)
  BY <1>1, BytesAre
<1>5. SubSeq(d, 1, m) = [i \in 1..m |-> d[i]]
  BY <1>1 DEF SubSeq
<1>6. Last(SubSeq(d, 1, m)) = d[m] /\ Len(SubSeq(d, 1, m)) = m
  BY <1>1, <1>5 DEF Last
<1> QED
  BY <1>2, <1>3, <1>4, <1>6 DEF Low

\* What an operand's reader says: the digits, their number, the next place
IsRead(read, at, m) ==
    /\ m \in 1..Groups
    /\ read.next = at + m /\ at + m <= Len(bytes) + 1
    /\ IsLeb(SubSeq(bytes, at, at + m - 1))
    /\ read.value \in Unsigned

\* read_uleb128 returns the number that the bytes it takes encode: no bit is
\* shifted out, and the number is one of a word.
THEOREM UlebIsExact ==
    ASSUME bytes \in Seq(Bytes), NEW at \in 1..(Len(bytes) + 1), ReadUleb(at) # Nothing
    PROVE  \E m \in 1..Groups :
               /\ IsRead(ReadUleb(at), at, m)
               /\ ReadUleb(at).value = LebValue(SubSeq(bytes, at, at + m - 1))
<1> DEFINE s == ReadGroups(at, {0, 1})
           d == GroupsFrom(at)
           m == s.shift
<1>1. s.state = "read" /\ ReadUleb(at) = [value |-> s.value, next |-> at + m]
  BY DEF ReadUleb
<1>2. /\ m \in 1..Groups /\ at + m <= Len(bytes) + 1
      /\ d \in Seq(Bytes) /\ m <= Len(d)
      /\ s.value = ValueOf(d, m)
      /\ m = Groups => Payload(d[Groups]) \in {0, 1}
      /\ SubSeq(bytes, at, at + m - 1) = SubSeq(d, 1, m)
      /\ IsLeb(SubSeq(d, 1, m))
  BY <1>1, ReadOfGroups
<1> HIDE DEF s, d, m
<1>3. /\ LebValue(SubSeq(d, 1, m)) = Low(d, m)
      /\ Low(d, m) = Low(d, m - 1) + Payload(d[m]) * GroupWeight[m - 1]
      /\ Low(d, m - 1) \in Nat /\ Low(d, m - 1) < GroupWeight[m - 1]
      /\ Low(d, m) \in Nat /\ Low(d, m) < GroupWeight[m]
  BY <1>2, HighestGroup
<1>4. s.value = Low(d, m) /\ s.value \in Unsigned
  <2>1. CASE m < Groups
    <3>1. GroupWeight[m] \in Nat /\ GroupWeight[m] <= HalfRange
      BY <1>2, <2>1, LowerWeights
    <3> DEFINE a == Low(d, m)
               b == GroupWeight[m]
    <3>2. s.value = a /\ a \in Nat /\ a < b /\ b \in Nat /\ b <= HalfRange
      BY <1>2, <1>3, <2>1, <3>1 DEF ValueOf
    <3> HIDE DEF a, b
    <3>3. s.value = a /\ s.value \in Unsigned
      BY <3>2, Sizes DEF Unsigned, MaxAddress
    <3> QED
      BY <3>3 DEF a
  <2>2. CASE m = Groups
    <3> DEFINE a == Low(d, m - 1)
               p == Payload(d[m])
    <3>1. /\ s.value = a + Wrap(p * HalfRange) /\ p \in {0, 1}
          /\ Low(d, m) = a + p * HalfRange /\ a \in Nat /\ a < HalfRange
      BY <1>2, <1>3, <2>2, Sizes DEF ValueOf
    <3> HIDE DEF a, p
    <3>2. p * HalfRange \in {0, HalfRange}
      BY <3>1, Sizes
    <3>3. Wrap(p * HalfRange) = p * HalfRange
      <4>1. p * HalfRange \in Nat /\ p * HalfRange < 2 * HalfRange
        BY <3>2, Sizes
      <4> QED
        BY <4>1, WrapIsNat
    <3>4. s.value = a + p * HalfRange /\ s.value \in Unsigned
      BY <3>1, <3>2, <3>3, Sizes DEF Unsigned, MaxAddress
    <3> QED
      BY <3>1, <3>4
  <2> QED
    BY <1>2, <2>1, <2>2, Sizes
<1>5. ReadUleb(at).value = s.value /\ ReadUleb(at).next = at + m
  BY <1>1
<1>6. LebValue(SubSeq(bytes, at, at + m - 1)) = s.value /\ IsLeb(SubSeq(bytes, at, at + m - 1))
  BY <1>2, <1>3, <1>4
<1>7. IsRead(ReadUleb(at), at, m)
  BY <1>2, <1>4, <1>5, <1>6 DEF IsRead
<1> QED
  BY <1>2, <1>5, <1>6, <1>7

\* It refuses no number that is there, fits into a word and has no more groups
\* than one needs.
THEOREM UlebIsComplete ==
    ASSUME bytes \in Seq(Bytes), NEW at \in 1..(Len(bytes) + 1), ReadUleb(at) = Nothing,
           NEW m \in 1..Groups, at + m - 1 <= Len(bytes),
           IsLeb(SubSeq(bytes, at, at + m - 1))
    PROVE  LebValue(SubSeq(bytes, at, at + m - 1)) \notin Unsigned
<1> DEFINE s == ReadGroups(at, {0, 1})
           d == GroupsFrom(at)
<1>1. s.state # "read"
  <2> SUFFICES ASSUME s.state = "read" PROVE FALSE
    OBVIOUS
  <2>1. ReadUleb(at) = [value |-> s.value, next |-> at + s.shift]
    BY DEF ReadUleb
  <2>2. s.shift \in 1..Groups
    BY ReadOfGroups
  <2> HIDE DEF s
  <2>3. at + s.shift = 0
    BY <2>1 DEF Nothing
  <2> QED
    BY <2>2, <2>3, Sizes
<1>2. /\ m = Groups /\ m <= Len(d) /\ d \in Seq(Bytes)
      /\ Payload(d[Groups]) \notin {0, 1}
      /\ SubSeq(bytes, at, at + m - 1) = SubSeq(d, 1, m)
  BY <1>1, NotReadOfGroups
<1> HIDE DEF s, d
<1>3. /\ LebValue(SubSeq(d, 1, m)) = Low(d, m)
      /\ Low(d, m) = Low(d, m - 1) + Payload(d[m]) * GroupWeight[m - 1]
      /\ Low(d, m - 1) \in Nat
      /\ Payload(d[m]) \in 0..(Payloads - 1)
  BY <1>2, HighestGroup
<1> DEFINE p == Payload(d[m])
<1>4. p \in Nat /\ p - 2 \in Nat /\ Low(d, m) = Low(d, m - 1) + p * HalfRange
  <2>1. p \in Nat /\ p \notin {0, 1}
    BY <1>2, <1>3, Sizes
  <2>2. GroupWeight[m - 1] = HalfRange
    BY <1>2, Sizes
  <2> QED
    BY <1>3, <2>1, <2>2
<1> HIDE DEF p
<1>5. p * HalfRange = 2 * HalfRange + (p - 2) * HalfRange /\ (p - 2) * HalfRange \in Nat
  <2>1. HalfRange * (2 + (p - 2)) = HalfRange * 2 + HalfRange * (p - 2)
    BY <1>4, Distribute, Sizes
  <2>2. (p - 2) * HalfRange \in Nat
    BY <1>4, ProductOfNats, Sizes
  <2>3. /\ HalfRange * (2 + (p - 2)) = p * HalfRange /\ HalfRange * 2 = 2 * HalfRange
        /\ HalfRange * (p - 2) = (p - 2) * HalfRange
    BY <1>4, Sizes
  <2> QED
    BY <2>1, <2>2, <2>3
<1>6. Low(d, m) \notin Unsigned
  <2> DEFINE a == Low(d, m - 1)
             b == (p - 2) * HalfRange
             q == p * HalfRange
  <2>1. Low(d, m) = a + q /\ q = 2 * HalfRange + b /\ a \in Nat /\ b \in Nat
    BY <1>3, <1>4, <1>5
  <2> HIDE DEF a, b, q
  <2> QED
    BY <2>1, Sizes DEF Unsigned, MaxAddress
<1> QED
  BY <1>2, <1>3, <1>6

\* A remainder is known by the multiple below it.
LEMMA RemainderIs ==
    ASSUME NEW b \in Nat \ {0}, NEW q \in Nat, NEW r \in 0..(b - 1),
           NEW a, a = b * q + r
    PROVE  a % b = r
<1> DEFINE p == a \div b
           e == a % b
<1>1. a \in Nat
  <2>1. b * q \in Nat
    BY ProductOfNats
  <2> HIDE DEF p, e
  <2> QED
    BY <2>1
<1>2. p \in Int /\ e \in 0..(b - 1) /\ a = b * p + e
  BY <1>1
<1> HIDE DEF p, e
<1>3. b * (q - p) = b * q - b * p
  <2>1. b * (q + (-p)) = b * q + b * (-p) /\ b * (-p) = -(b * p)
    BY <1>2, Distribute
  <2> QED
    BY <1>2, <2>1
<1>4. b * (q - p) = e - r
  <2> DEFINE u == b * q
             v == b * p
             w == b * (q - p)
  <2>1. u \in Int /\ v \in Int /\ w = u - v /\ a = u + r /\ a = v + e
    BY <1>2, <1>3
  <2> HIDE DEF u, v, w
  <2>2. w = e - r
    BY <1>2, <2>1
  <2> QED
    BY <2>2 DEF w
<1>5. q = p
  <2>1. ASSUME q - p >= 1 PROVE FALSE
    <3>1. b * (q - p) >= b
      BY <1>2, <2>1
    <3> QED
      BY <1>2, <1>4, <3>1
  <2>2. ASSUME q - p <= -1 PROVE FALSE
    <3>1. b * (q - p) <= -b
      BY <1>2, <2>2
    <3> QED
      BY <1>2, <1>4, <3>1
  <2> QED
    BY <1>2, <2>1, <2>2
<1> QED
  BY <1>2, <1>4, <1>5 DEF e

\* All bits of the last group but the lowest are beyond a word.
LEMMA WrapOfOnes == Wrap((Payloads - 1) * HalfRange) = HalfRange
<1> DEFINE a == (Payloads - 1) * HalfRange
           b == 2 * HalfRange
           q == SignBit - 1
<1>1. b \in Nat \ {0} /\ q \in Nat /\ HalfRange \in 0..(b - 1) /\ Payloads - 1 = 2 * q + 1
  BY Sizes
<1>2. a = b * q + HalfRange
  <2>1. HalfRange * (2 * q + 1) = HalfRange * (2 * q) + HalfRange * 1
    BY <1>1, Sizes, Distribute
  <2>2. HalfRange * (2 * q) = 2 * (HalfRange * q) /\ b * q = 2 * (HalfRange * q)
    BY <1>1, Sizes
  <2> HIDE DEF q
  <2> QED
    BY <1>1, <2>1, <2>2, Sizes
<1>3. a % b = HalfRange
  <2> HIDE DEF a, b, q
  <2> QED
    BY <1>1, <1>2, RemainderIs
<1> QED
  BY <1>3 DEF Wrap

\* What the highest group of a number adds to the ones below it
LEMMA LastGroup ==
    ASSUME NEW d \in Seq(Bytes), Groups <= Len(d)
    PROVE  LET p == Payload(d[Groups])
               a == Low(d, Groups - 1)
           IN  /\ Low(d, Groups) = a + p * HalfRange
               /\ a \in Nat /\ a < HalfRange /\ p \in 0..(Payloads - 1)
               /\ GroupWeight[Groups] = Payloads * HalfRange
               /\ p * HalfRange \in Nat /\ Payloads * HalfRange \in Nat
               /\ Last(SubSeq(d, 1, Groups)) = d[Groups]
               /\ Len(SubSeq(d, 1, Groups)) = Groups
               /\ LebValue(SubSeq(d, 1, Groups)) = Low(d, Groups)
<1>1. /\ Groups \in 1..Groups /\ Groups \in Nat /\ Groups - 1 \in Nat
      /\ Groups - 1 < Groups /\ (Groups - 1) + 1 = Groups
  BY Sizes
<1>2. /\ Low(d, Groups) = Low(d, Groups - 1) + Payload(d[Groups]) * GroupWeight[Groups - 1]
      /\ Low(d, Groups - 1) \in Nat /\ Low(d, Groups - 1) < GroupWeight[Groups - 1]
      /\ Payload(d[Groups]) \in 0..(Payloads - 1)
      /\ Last(SubSeq(d, 1, Groups)) = d[Groups]
      /\ Len(SubSeq(d, 1, Groups)) = Groups
      /\ LebValue(SubSeq(d, 1, Groups)) = Low(d, Groups)
  BY <1>1, HighestGroup
<1>3. GroupWeight[Groups] = Payloads * GroupWeight[Groups - 1]
  BY <1>1, LowerWeights
<1>4. Payload(d[Groups]) * HalfRange \in Nat /\ Payloads * HalfRange \in Nat
  BY <1>2, Sizes, ProductOfNats
<1> QED
  BY <1>2, <1>3, <1>4, Sizes

\* The value of a signed number whose groups are the first m of d
LEMMA SlebOf ==
    ASSUME NEW d \in Seq(Bytes), NEW m \in 1..Groups, m <= Len(d)
    PROVE  SlebValue(SubSeq(d, 1, m))
             = IF Payload(d[m]) >= SignBit THEN Low(d, m) - GroupWeight[m] ELSE Low(d, m)
<1>1. /\ LebValue(SubSeq(d, 1, m)) = Low(d, m)
      /\ Last(SubSeq(d, 1, m)) = d[m] /\ Len(SubSeq(d, 1, m)) = m
  BY HighestGroup
<1> QED
  BY <1>1 DEF SlebValue

\* read_sleb128 returns the signed number that the bytes it takes encode, as a
\* word.
THEOREM SlebIsExact ==
    ASSUME bytes \in Seq(Bytes), NEW at \in 1..(Len(bytes) + 1), ReadSleb(at) # Nothing
    PROVE  \E m \in 1..Groups :
               /\ IsRead(ReadSleb(at), at, m)
               /\ AsSigned(ReadSleb(at).value) = SlebValue(SubSeq(bytes, at, at + m - 1))
<1> DEFINE s == ReadGroups(at, {0, Payloads - 1})
           d == GroupsFrom(at)
           m == s.shift
           ones == IF m < Groups /\ Payload(s.byte) >= SignBit
                   THEN 2 * HalfRange - GroupWeight[m] ELSE 0
<1>1. s.state = "read" /\ ReadSleb(at) = [value |-> s.value + ones, next |-> at + m]
  BY DEF ReadSleb
<1>2. /\ m \in 1..Groups /\ at + m <= Len(bytes) + 1
      /\ d \in Seq(Bytes) /\ m <= Len(d)
      /\ s.byte = d[m] /\ s.value = ValueOf(d, m)
      /\ m = Groups => Payload(d[Groups]) \in {0, Payloads - 1}
      /\ SubSeq(bytes, at, at + m - 1) = SubSeq(d, 1, m)
      /\ IsLeb(SubSeq(d, 1, m))
  BY <1>1, ReadOfGroups
<1> HIDE DEF s, d, m
<1>3. /\ Low(d, m) \in Nat /\ Low(d, m) < GroupWeight[m]
      /\ Payload(d[m]) \in 0..(Payloads - 1)
  BY <1>2, HighestGroup
<1> DEFINE v == s.value + ones
<1>4. v \in Unsigned /\ AsSigned(v) = SlebValue(SubSeq(d, 1, m))
  <2>1. CASE m < Groups
    <3>1. GroupWeight[m] \in Nat /\ GroupWeight[m] <= HalfRange
      BY <1>2, <2>1, LowerWeights
    <3> DEFINE a == Low(d, m)
               b == GroupWeight[m]
               p == Payload(d[m])
    <3>2. /\ v = a + (IF p >= SignBit THEN 2 * HalfRange - b ELSE 0)
          /\ a \in Nat /\ a < b /\ b \in Nat /\ b <= HalfRange /\ p \in Int
      BY <1>2, <1>3, <2>1, <3>1, Sizes DEF ValueOf
    <3>3. SlebValue(SubSeq(d, 1, m)) = IF p >= SignBit THEN a - b ELSE a
      BY <1>2, SlebOf
    <3> HIDE DEF a, b, p, v
    <3>4. v \in Unsigned /\ AsSigned(v) = IF p >= SignBit THEN a - b ELSE a
      BY <3>2, Sizes DEF Unsigned, MaxAddress, AsSigned
    <3> QED
      BY <3>3, <3>4
  <2>2. CASE m = Groups
    <3> DEFINE a == Low(d, Groups - 1)
               p == Payload(d[Groups])
               q == p * HalfRange
               w == Payloads * HalfRange
    <3>1. /\ Low(d, m) = a + q /\ a \in Nat /\ a < HalfRange
          /\ GroupWeight[m] = w /\ q \in Nat /\ w \in Nat
      BY <1>2, <2>2, LastGroup
    <3>2. v = a + Wrap(q)
      <4>1. ~(m < Groups) /\ ones = 0
        BY <2>2, Sizes
      <4>2. s.value = a + Wrap(q)
        BY <1>2, <4>1 DEF ValueOf
      <4>3. Wrap(q) \in Nat
        BY <3>1, WrapIsNat
      <4> HIDE DEF a, q, ones
      <4> QED
        BY <3>1, <4>1, <4>2, <4>3
    <3>3. SlebValue(SubSeq(d, 1, m)) = IF p >= SignBit THEN (a + q) - w ELSE a + q
      BY <1>2, <2>2, <3>1, SlebOf
    <3>4. p \in {0, Payloads - 1}
      BY <1>2, <2>2
    <3>5. CASE p = 0
      <4>1. q = 0 /\ Wrap(0) = 0 /\ ~(p >= SignBit)
        BY <3>5, WrapIsNat, Sizes
      <4> HIDE DEF a, q, w, p, v
      <4>2. v = a /\ SlebValue(SubSeq(d, 1, m)) = a
        BY <3>1, <3>2, <3>3, <4>1
      <4> QED
        BY <3>1, <4>2, Sizes DEF Unsigned, MaxAddress, AsSigned
    <3>6. CASE p = Payloads - 1
      <4>1. Wrap(q) = HalfRange /\ p >= SignBit
        BY <3>6, WrapOfOnes, Sizes
      <4>2. q = w - HalfRange
        <5>1. HalfRange * (Payloads + (-1)) = HalfRange * Payloads + HalfRange * (-1)
          BY Distribute, Sizes
        <5>2. HalfRange * Payloads = Payloads * HalfRange /\ Payloads + (-1) = Payloads - 1
              /\ HalfRange * (-1) = -HalfRange
              /\ HalfRange * (Payloads - 1) = (Payloads - 1) * HalfRange
          BY Sizes
        <5> QED
          BY <3>6, <5>1, <5>2, Sizes
      <4> HIDE DEF a, q, w, p, v
      <4>3. v = a + HalfRange /\ SlebValue(SubSeq(d, 1, m)) = a - HalfRange
        BY <3>1, <3>2, <3>3, <4>1, <4>2, Sizes
      <4> QED
        BY <3>1, <4>3, Sizes DEF Unsigned, MaxAddress, AsSigned
    <3> QED
      BY <3>4, <3>5, <3>6
  <2> QED
    BY <1>2, <2>1, <2>2, Sizes
<1>5. ReadSleb(at).value = v /\ ReadSleb(at).next = at + m
  BY <1>1
<1> HIDE DEF v
<1>6. IsRead(ReadSleb(at), at, m)
  BY <1>2, <1>4, <1>5 DEF IsRead
<1> QED
  BY <1>2, <1>4, <1>5, <1>6

\* It refuses no number that is there, is a signed one of a word and has no
\* more groups than one needs.
THEOREM SlebIsComplete ==
    ASSUME bytes \in Seq(Bytes), NEW at \in 1..(Len(bytes) + 1), ReadSleb(at) = Nothing,
           NEW m \in 1..Groups, at + m - 1 <= Len(bytes),
           IsLeb(SubSeq(bytes, at, at + m - 1))
    PROVE  SlebValue(SubSeq(bytes, at, at + m - 1)) \notin Signed
<1> DEFINE s == ReadGroups(at, {0, Payloads - 1})
           d == GroupsFrom(at)
<1>1. s.state # "read"
  <2> SUFFICES ASSUME s.state = "read" PROVE FALSE
    OBVIOUS
  <2>1. ReadSleb(at).next = at + s.shift
    BY DEF ReadSleb
  <2>2. s.shift \in 1..Groups
    BY ReadOfGroups
  <2> HIDE DEF s
  <2>3. at + s.shift = 0
    BY <2>1 DEF Nothing
  <2> QED
    BY <2>2, <2>3, Sizes
<1>2. /\ m = Groups /\ m <= Len(d) /\ d \in Seq(Bytes)
      /\ Payload(d[Groups]) \notin {0, Payloads - 1}
      /\ SubSeq(bytes, at, at + m - 1) = SubSeq(d, 1, m)
  BY <1>1, NotReadOfGroups
<1> HIDE DEF s, d
<1> DEFINE a == Low(d, Groups - 1)
           p == Payload(d[Groups])
           q == p * HalfRange
           w == Payloads * HalfRange
<1>3. /\ Low(d, m) = a + q /\ a \in Nat /\ a < HalfRange
      /\ GroupWeight[m] = w /\ q \in Nat /\ w \in Nat
      /\ p \in 0..(Payloads - 1)
  BY <1>2, LastGroup
<1>4. SlebValue(SubSeq(d, 1, m)) = IF p >= SignBit THEN (a + q) - w ELSE a + q
  BY <1>2, <1>3, SlebOf
<1>5. p \in Nat /\ p - 1 \in Nat /\ (Payloads - p) - 2 \in Nat
  <2>1. p \in 0..(Payloads - 1) /\ p # 0 /\ p # Payloads - 1 /\ Payloads \in Nat
    BY <1>2, <1>3, Sizes
  <2> HIDE DEF p
  <2> QED
    BY <2>1
<1>6. q >= HalfRange
  <2>1. (p - 1) * HalfRange \in Nat
    BY <1>5, Sizes, ProductOfNats
  <2>2. HalfRange * ((p - 1) + 1) = HalfRange * (p - 1) + HalfRange * 1
    BY <1>5, Sizes, Distribute
  <2>3. /\ HalfRange * ((p - 1) + 1) = q /\ HalfRange * (p - 1) = (p - 1) * HalfRange
        /\ HalfRange * 1 = HalfRange
    BY <1>5, Sizes
  <2> QED
    BY <2>1, <2>2, <2>3, Sizes
<1>7. q + 2 * HalfRange <= w
  <2> DEFINE e == (Payloads - p) - 2
  <2>1. e \in Nat /\ p + (2 + e) = Payloads
    BY <1>5, Sizes
  <2> HIDE DEF e
  <2>2. e * HalfRange \in Nat
    BY <2>1, Sizes, ProductOfNats
  <2>3. /\ HalfRange * (p + (2 + e)) = HalfRange * p + HalfRange * (2 + e)
        /\ HalfRange * (2 + e) = HalfRange * 2 + HalfRange * e
    BY <1>5, <2>1, Sizes, Distribute
  <2>4. /\ HalfRange * p = q /\ HalfRange * 2 = 2 * HalfRange /\ HalfRange * e = e * HalfRange
        /\ HalfRange * Payloads = w
    BY <1>5, <2>1, Sizes
  <2> DEFINE f == e * HalfRange
  <2>5. w = q + (2 * HalfRange + f)
    BY <2>1, <2>3, <2>4
  <2> HIDE DEF q, w, f
  <2> QED
    BY <1>3, <2>2, <2>5, Sizes DEF f
<1> HIDE DEF a, p, q, w
<1>8. (IF p >= SignBit THEN (a + q) - w ELSE a + q) \notin Signed
  BY <1>3, <1>6, <1>7, Sizes DEF Signed
<1> QED
  BY <1>2, <1>4, <1>8

-----------------------------------------------------------------------------
(* Operands of fixed width.                                                *)

\* What the loop of read_unsigned adds up, byte by byte
SumsUpTo(f, at, n) ==
    /\ f \in [0..n -> Nat]
    /\ f[0] = 0
    /\ \A k \in 0..(n - 1) : f[k + 1] = f[k] + bytes[at + (k + 1) - 1] * ByteWeight[(k + 1) - 1]

SumOf(at, digits) ==
    FoldLeftDomain(LAMBDA sum, i : sum + bytes[at + i - 1] * ByteWeight[i - 1], 0, digits)

\* The loop over the bytes, as a table
LEMMA BytesInSteps ==
    ASSUME NEW at, NEW digits, NEW n \in Nat, DOMAIN digits = 1..n,
           \A i \in 1..n : bytes[at + i - 1] * ByteWeight[i - 1] \in Nat
    PROVE  \E f : SumsUpTo(f, at, n) /\ f[n] = SumOf(at, digits)
<1> DEFINE Next(x, i) == x + bytes[at + i - 1] * ByteWeight[i - 1]
           places == [i \in DOMAIN digits |-> i]
           G == [x \in Nat \X (1..n) |-> Next(x[1], places[x[2]])]
           Table(t) == [s \in SUBSET (DOMAIN places) |->
                          IF s = {} THEN 0 ELSE Next(t[s \ {Max(s)}], places[Max(s)])]
           iter == CHOOSE t : t = Table(t)
<1>1. DOMAIN places = 1..n /\ \A i \in 1..n : places[i] = i
  OBVIOUS
<1>2. SumOf(at, digits) = iter[DOMAIN places]
  BY DEF SumOf, FoldLeftDomain, FoldLeft, MapThenFoldSet
<1> HIDE DEF places
<1>4. ASSUME NEW x \in Nat, NEW k \in 1..n PROVE Next(x, places[k]) \in Nat
  BY <1>1
<1>5. G \in [Nat \X (1..n) -> Nat]
  <2> HIDE DEF Next
  <2> QED
    BY <1>4
<1>6. PICK g : IsTable(g, n, Nat, 0, G)
  <2> HIDE DEF G
  <2> QED
    BY <1>5, FoldTable
<1>7. g = Table(g)
  <2>1. ASSUME NEW s \in SUBSET (1..n), s # {}
        PROVE  G[<<g[s \ {Max(s)}], Max(s)>>] = Next(g[s \ {Max(s)}], places[Max(s)])
    <3>1. Max(s) \in 1..n /\ g[s \ {Max(s)}] \in Nat
      BY <1>6, <2>1, LastPlace DEF IsTable
    <3> HIDE DEF Next
    <3> QED
      BY <3>1
  <2> HIDE DEF G, Next
  <2> QED
    BY <1>1, <1>6, <2>1 DEF IsTable
<1>8. iter = Table(iter)
  BY <1>7
<1> HIDE DEF iter
<1> DEFINE f == [k \in 0..n |-> iter[1..k]]
<1>10. \A s \in SUBSET (1..n) :
         iter[s] = IF s = {} THEN 0 ELSE Next(iter[s \ {Max(s)}], places[Max(s)])
  <2> HIDE DEF Next
  <2> QED
    BY <1>1, <1>8
<1> HIDE DEF Next
<1>11. f[0] = 0
  <2>1. 1..0 = {} /\ {} \in SUBSET (1..n) /\ 0 \in 0..n
    OBVIOUS
  <2> QED
    BY <1>10, <2>1
<1>12. ASSUME NEW k \in 0..(n - 1)
       PROVE  f[k + 1] = Next(f[k], k + 1)
  <2>1. k \in 0..n /\ k + 1 \in 0..n /\ k + 1 \in 1..n
    OBVIOUS
  <2>2. /\ 1..(k + 1) \in SUBSET (1..n) /\ 1..(k + 1) # {}
        /\ Max(1..(k + 1)) = k + 1 /\ (1..(k + 1)) \ {k + 1} = 1..k
    BY FirstPlaces
  <2>3. f[k + 1] = iter[1..(k + 1)] /\ f[k] = iter[1..k]
    BY <2>1
  <2> HIDE DEF f
  <2>4. iter[1..(k + 1)] = Next(iter[1..k], places[k + 1])
    BY <1>10, <2>2
  <2> QED
    BY <1>1, <2>1, <2>3, <2>4
<1>13. f[n] = iter[DOMAIN places]
  BY <1>1
<1>14. f = [k \in 0..n |-> f[k]]
  OBVIOUS
<1> HIDE DEF f
<1> DEFINE S == {k \in 0..n : f[k] \in Nat}
<1>15. 0 \in S
  <2>1. 0 \in 0..n /\ f[0] = 0
    BY <1>11
  <2> QED
    BY <2>1
<1>16. ASSUME NEW k \in 0..(n - 1), k \in S PROVE k + 1 \in S
  <2>1. k + 1 \in 0..n /\ k + 1 \in 1..n /\ f[k] \in Nat
    BY <1>16
  <2>2. Next(f[k], places[k + 1]) \in Nat
    BY <1>4, <2>1
  <2>3. places[k + 1] = k + 1 /\ f[k + 1] = Next(f[k], k + 1)
    BY <1>1, <1>12, <2>1
  <2>4. f[k + 1] \in Nat
    BY <2>2, <2>3
  <2> QED
    BY <2>1, <2>4
<1> HIDE DEF S
<1>17. \A k \in 0..n : k \in S
  BY <1>15, <1>16, UpTo
<1>18. f \in [0..n -> Nat]
  <2>1. \A k \in 0..n : f[k] \in Nat
    BY <1>17 DEF S
  <2> QED
    BY <1>14, <2>1
<1>19. SumsUpTo(f, at, n)
  BY <1>11, <1>12, <1>18 DEF SumsUpTo, Next
<1> QED
  BY <1>2, <1>13, <1>19

\* The bytes of an operand of fixed width
LEMMA FixedBytes ==
    ASSUME bytes \in Seq(Bytes), NEW at \in 1..(Len(bytes) + 1), NEW width \in Nat,
           width <= Len(bytes) - at + 1
    PROVE  LET d == SubSeq(bytes, at, at + width - 1)
           IN  /\ d \in Seq(Bytes) /\ d \in Seq(Nat) /\ Len(d) = width /\ DOMAIN d = 1..width
               /\ \A i \in 1..width :
                      /\ d[i] = bytes[at + i - 1] /\ d[i] \in Nat /\ d[i] < ByteRange
                      /\ bytes[at + i - 1] * ByteWeight[i - 1] \in Nat
<1> DEFINE d == SubSeq(bytes, at, at + width - 1)
<1>1. at \in Nat /\ Len(bytes) \in Nat
  OBVIOUS
<1>2. d = [i \in 1..width |-> bytes[at + i - 1]]
  BY <1>1 DEF SubSeq
<1>3. \A i \in 1..width : bytes[at + i - 1] \in Bytes
  <2>1. ASSUME NEW i \in 1..width PROVE at + i - 1 \in 1..Len(bytes)
    BY <1>1
  <2> QED
    BY <2>1
<1>4. \A i \in 1..width : bytes[at + i - 1] \in Nat /\ bytes[at + i - 1] < ByteRange
  BY <1>3, Sizes DEF Bytes
<1>5. ASSUME NEW i \in 1..width PROVE bytes[at + i - 1] * ByteWeight[i - 1] \in Nat
  <2>1. i - 1 \in Nat /\ ByteRange \in Nat
    BY Sizes
  <2>2. ByteWeight[i - 1] \in Nat
    BY <2>1, ByteWeights, WeightStep
  <2> QED
    BY <1>4, <2>2, ProductOfNats
<1>6. d \in Seq(Bytes) /\ d \in Seq(Nat) /\ Len(d) = width /\ DOMAIN d = 1..width
  <2> HIDE DEF d
  <2>1. Len(d) = width /\ DOMAIN d = 1..width
    BY <1>2
  <2>2. d \in [1..width -> Bytes] /\ d \in [1..width -> Nat]
    BY <1>2, <1>3, <1>4
  <2>3. d \in Seq(Bytes) /\ d \in Seq(Nat)
    BY <2>2
  <2> QED
    BY <2>1, <2>3
<1> QED
  BY <1>2, <1>4, <1>5, <1>6

\* The first k bytes of an operand, and the next one
LEMMA FixedStep ==
    ASSUME NEW d \in Seq(Nat), NEW k \in 0..(Len(d) - 1)
    PROVE  NumberOf(SubSeq(d, 1, k + 1), ByteRange)
             = NumberOf(SubSeq(d, 1, k), ByteRange) + d[k + 1] * ByteWeight[k]
<1>1. SubSeq(d, 1, k) \in Seq(Nat) /\ Len(SubSeq(d, 1, k)) = k /\ d[k + 1] \in Nat
  OBVIOUS
<1>2. SubSeq(d, 1, k + 1) = Append(SubSeq(d, 1, k), d[k + 1])
  OBVIOUS
<1>3. ByteRange \in Nat
  BY Sizes
<1> QED
  BY <1>1, <1>2, <1>3, ByteWeights, NumberAppended

\* The sum is the number that the bytes encode.
LEMMA SumIsNumber ==
    ASSUME bytes \in Seq(Bytes), NEW at \in 1..(Len(bytes) + 1), NEW width \in Nat,
           width <= Len(bytes) - at + 1
    PROVE  SumOf(at, SubSeq(bytes, at, at + width - 1))
             = FixedValue(SubSeq(bytes, at, at + width - 1))
<1> DEFINE d == SubSeq(bytes, at, at + width - 1)
<1>1. /\ d \in Seq(Nat) /\ Len(d) = width /\ DOMAIN d = 1..width
      /\ \A i \in 1..width :
             /\ d[i] = bytes[at + i - 1]
             /\ bytes[at + i - 1] * ByteWeight[i - 1] \in Nat
  BY FixedBytes
<1> HIDE DEF d
<1>2. PICK f : SumsUpTo(f, at, width) /\ f[width] = SumOf(at, d)
  BY <1>1, BytesInSteps
<1> DEFINE S == {k \in 0..width : f[k] = NumberOf(SubSeq(d, 1, k), ByteRange)}
<1>3. 0 \in S
  <2>1. SubSeq(d, 1, 0) = <<>>
    BY DEF SubSeq
  <2>2. ByteRange \in Nat /\ 0 \in 0..width
    BY Sizes
  <2>3. f[0] = 0
    BY <1>2 DEF SumsUpTo
  <2> QED
    BY <2>1, <2>2, <2>3, NumberOfNothing
<1>4. ASSUME NEW k \in 0..(width - 1), k \in S PROVE k + 1 \in S
  <2>1. /\ k + 1 \in 0..width /\ k + 1 \in 1..width /\ (k + 1) - 1 = k
        /\ k \in 0..(Len(d) - 1)
    BY <1>1
  <2>2. f[k + 1] = f[k] + d[k + 1] * ByteWeight[k]
    BY <1>1, <1>2, <2>1 DEF SumsUpTo
  <2>3. f[k] = NumberOf(SubSeq(d, 1, k), ByteRange)
    BY <1>4
  <2>4. f[k + 1] = NumberOf(SubSeq(d, 1, k + 1), ByteRange)
    BY <1>1, <2>1, <2>2, <2>3, FixedStep
  <2> QED
    BY <2>1, <2>4
<1> HIDE DEF S
<1>5. \A k \in 0..width : k \in S
  BY <1>3, <1>4, UpTo
<1>6. f[width] = NumberOf(SubSeq(d, 1, width), ByteRange)
  BY <1>5 DEF S
<1>7. SubSeq(d, 1, width) = d
  BY <1>1, SubSeqFull
<1> QED
  BY <1>2, <1>6, <1>7 DEF FixedValue, d

\* What is read of fixed width
FixedRead(read, at, width) ==
    /\ width \in Nat \ {0} /\ ByteWeight[width] <= 2 * HalfRange
    /\ read.next = at + width /\ at + width <= Len(bytes) + 1
    /\ read.value \in Unsigned

\* read_unsigned returns the number that the bytes of an operand encode.
THEOREM UnsignedIsExact ==
    ASSUME bytes \in Seq(Bytes), NEW at \in 1..(Len(bytes) + 1), NEW width \in Nat,
           ReadUnsigned(at, width) # Nothing
    PROVE  /\ FixedRead(ReadUnsigned(at, width), at, width)
           /\ ReadUnsigned(at, width)
                = [value |-> FixedValue(SubSeq(bytes, at, at + width - 1)), next |-> at + width]
           /\ FixedValue(SubSeq(bytes, at, at + width - 1)) < ByteWeight[width]
<1> DEFINE d == SubSeq(bytes, at, at + width - 1)
<1>1. /\ width # 0 /\ ~(ByteWeight[width] > 2 * HalfRange)
      /\ ~(width > Len(bytes) - at + 1)
      /\ ReadUnsigned(at, width) = [value |-> SumOf(at, d), next |-> at + width]
  BY DEF ReadUnsigned, SumOf
<1>2. Len(bytes) \in Nat /\ at \in Nat /\ width <= Len(bytes) - at + 1
  BY <1>1
<1>3. SumOf(at, d) = FixedValue(d)
  BY <1>2, SumIsNumber
<1>4. /\ d \in Seq(Nat) /\ Len(d) = width /\ \A i \in 1..Len(d) : d[i] < ByteRange
  BY <1>2, FixedBytes
<1> HIDE DEF d
<1>5. FixedValue(d) \in Nat /\ FixedValue(d) < ByteWeight[width]
  <2>1. ByteRange \in Nat \ {0}
    BY Sizes
  <2> QED
    BY <1>4, <2>1, ByteWeights, NumberBelow DEF FixedValue
<1>6. ByteWeight[width] \in Nat /\ ByteRange \in Nat
  <2>1. ByteRange \in Nat
    BY Sizes
  <2> QED
    BY <2>1, ByteWeights, WeightStep
<1>7. FixedValue(d) \in Unsigned
  <2> DEFINE v == FixedValue(d)
             w == ByteWeight[width]
  <2>1. v \in Nat /\ v < w /\ w \in Nat /\ ~(w > 2 * HalfRange)
    BY <1>1, <1>5, <1>6
  <2> HIDE DEF v, w
  <2>2. v \in Unsigned
    BY <2>1, Sizes DEF Unsigned, MaxAddress
  <2> QED
    BY <2>2 DEF v
<1>8. FixedRead(ReadUnsigned(at, width), at, width)
  <2>1. ByteWeight[width] <= 2 * HalfRange
    BY <1>1, <1>6, Sizes
  <2>2. at + width <= Len(bytes) + 1
    BY <1>2
  <2> QED
    BY <1>1, <1>3, <1>7, <2>1, <2>2 DEF FixedRead
<1> QED
  BY <1>1, <1>3, <1>5, <1>8 DEF d

\* The highest byte is the upper half of a number.
LEMMA HighestByte ==
    ASSUME NEW d \in Seq(Bytes), NEW width \in Nat \ {0}, Len(d) = width
    PROVE  LET half == Payloads * ByteWeight[width - 1]
           IN  /\ half \in Nat /\ ByteWeight[width] = 2 * half
               /\ FixedValue(d) \in Nat /\ FixedValue(d) < 2 * half
               /\ Last(d) >= Payloads <=> FixedValue(d) >= half
<1> DEFINE k    == width - 1
           b    == ByteWeight[k]
           half == Payloads * b
           top  == d[width]
           low  == NumberOf(SubSeq(d, 1, k), ByteRange)
<1>1. /\ k \in Nat /\ k + 1 = width /\ k \in 0..(Len(d) - 1) /\ width \in 1..Len(d)
      /\ ByteRange \in Nat \ {0} /\ ByteRange = 2 * Payloads /\ Payloads \in Nat \ {0}
  BY Sizes
<1>2. \A i \in 1..Len(d) : d[i] \in Nat /\ d[i] < ByteRange
  BY <1>1 DEF Bytes
<1>3. d \in Seq(Nat)
  <2>1. d \in [1..Len(d) -> Nat]
    BY <1>2
  <2> QED
    BY <2>1
<1>4. b \in Nat \ {0} /\ ByteWeight[width] = ByteRange * b
  BY <1>1, ByteWeights, WeightStep
<1>5. half \in Nat /\ ByteWeight[width] = 2 * half
  <2>1. half \in Nat
    BY <1>1, <1>4, ProductOfNats
  <2>2. ByteRange * b = 2 * (Payloads * b)
    <3> HIDE DEF b
    <3> QED
      BY <1>1, <1>4
  <2> QED
    BY <1>4, <2>1, <2>2
<1>6. FixedValue(d) = low + top * b
  <2>1. SubSeq(d, 1, width) = d
    BY <1>3, SubSeqFull
  <2>2. NumberOf(SubSeq(d, 1, k + 1), ByteRange) = low + d[k + 1] * b
    BY <1>1, <1>3, FixedStep
  <2> QED
    BY <1>1, <2>1, <2>2 DEF FixedValue
<1>7. low \in Nat /\ low < b
  <2> DEFINE e == SubSeq(d, 1, k)
  <2>1. e \in Seq(Nat) /\ Len(e) = k /\ \A i \in 1..k : e[i] = d[i]
    BY <1>1, <1>3
  <2>2. \A i \in 1..k : i \in 1..Len(d)
    BY <1>1
  <2>3. \A i \in 1..Len(e) : e[i] < ByteRange
    BY <1>2, <2>1, <2>2
  <2> HIDE DEF e
  <2>4. NumberOf(e, ByteRange) \in Nat /\ NumberOf(e, ByteRange) < ByteWeight[Len(e)]
    BY <1>1, <2>1, <2>3, ByteWeights, NumberBelow
  <2> QED
    BY <2>1, <2>4 DEF e
<1>8. FixedValue(d) \in Nat /\ FixedValue(d) < ByteWeight[width]
  BY <1>1, <1>2, <1>3, ByteWeights, NumberBelow DEF FixedValue
<1>9. Last(d) = top /\ top \in 0..(ByteRange - 1)
  BY <1>1, <1>2 DEF Last
<1>10. top >= Payloads <=> FixedValue(d) >= half
  <2>1. CASE top >= Payloads
    <3>1. top - Payloads \in Nat
      BY <1>1, <1>9, <2>1
    <3>2. (top - Payloads) * b \in Nat
      BY <1>4, <3>1, ProductOfNats
    <3>3. b * (Payloads + (top - Payloads)) = b * Payloads + b * (top - Payloads)
      BY <1>1, <1>4, <3>1, Distribute
    <3>4. /\ b * (Payloads + (top - Payloads)) = top * b /\ b * Payloads = half
          /\ b * (top - Payloads) = (top - Payloads) * b
      BY <1>1, <1>4, <1>9, <3>1
    <3> DEFINE q == top * b
               e == (top - Payloads) * b
    <3>5. q = half + e /\ e \in Nat /\ FixedValue(d) = low + q
      BY <1>6, <3>2, <3>3, <3>4
    <3> HIDE DEF q, e, half, low
    <3>6. FixedValue(d) >= half
      BY <1>5, <1>7, <3>5
    <3> QED
      BY <2>1, <3>6
  <2>2. CASE ~(top >= Payloads)
    <3> DEFINE r == Payloads - 1 - top
    <3>1. r \in Nat /\ top + (1 + r) = Payloads /\ top \in Nat
      BY <1>1, <1>9, <2>2
    <3> HIDE DEF r, top
    <3>2. r * b \in Nat
      BY <1>4, <3>1, ProductOfNats
    <3>3. /\ b * (top + (1 + r)) = b * top + b * (1 + r)
          /\ b * (1 + r) = b * 1 + b * r
      BY <1>4, <3>1, Distribute
    <3>4. /\ b * (top + (1 + r)) = half /\ b * top = top * b /\ b * 1 = b /\ b * r = r * b
      BY <1>1, <1>4, <3>1
    <3> DEFINE q == top * b
               e == r * b
    <3>5. half = q + (b + e) /\ e \in Nat /\ FixedValue(d) = low + q /\ q \in Nat
      BY <1>4, <1>6, <3>1, <3>2, <3>3, <3>4, ProductOfNats
    <3> HIDE DEF q, e, half, low, b
    <3>6. FixedValue(d) < half
      BY <1>4, <1>5, <1>7, <3>5
    <3>7. ~(FixedValue(d) >= half)
      BY <1>5, <1>8, <3>6
    <3> QED
      BY <2>2, <3>7
  <2> QED
    BY <2>1, <2>2
<1> QED
  BY <1>5, <1>8, <1>9, <1>10

\* read_signed_operand returns the signed number that the bytes of an operand
\* encode: the sign of a narrow one is carried into all bits of the word.
THEOREM SignedIsExact ==
    ASSUME bytes \in Seq(Bytes), NEW at \in 1..(Len(bytes) + 1), NEW width \in Nat,
           ReadSigned(at, width) # Nothing
    PROVE  /\ FixedRead(ReadSigned(at, width), at, width)
           /\ AsSigned(ReadSigned(at, width).value)
                = TwosComplement(SubSeq(bytes, at, at + width - 1))
<1> DEFINE d == SubSeq(bytes, at, at + width - 1)
           read == ReadUnsigned(at, width)
           w == ByteWeight[width]
           v == FixedValue(d)
<1>1. read # Nothing
  BY DEF ReadSigned
<1>2. /\ FixedRead(read, at, width) /\ read = [value |-> v, next |-> at + width] /\ v < w
  BY <1>1, UnsignedIsExact
<1> HIDE DEF read
<1>3. /\ width \in Nat \ {0} /\ w <= 2 * HalfRange /\ at + width <= Len(bytes) + 1
      /\ v \in Unsigned
  BY <1>2 DEF FixedRead
<1>4. d \in Seq(Bytes) /\ Len(d) = width
  <2>1. width <= Len(bytes) - at + 1
    BY <1>3
  <2> QED
    BY <2>1, FixedBytes
<1>5. ReadSigned(at, width)
        = IF w < 2 * HalfRange /\ v >= w \div 2
          THEN [value |-> v + 2 * HalfRange - w, next |-> at + width]
          ELSE [value |-> v, next |-> at + width]
  BY <1>1, <1>2 DEF ReadSigned, read
<1> HIDE DEF d
<1> DEFINE half == Payloads * ByteWeight[width - 1]
<1>6. half \in Nat /\ w = 2 * half /\ v \in Nat /\ v < 2 * half
      /\ (Last(d) >= Payloads <=> v >= half)
  BY <1>3, <1>4, HighestByte
<1>7. TwosComplement(d) = IF Last(d) >= Payloads THEN v - w ELSE v
  BY <1>4 DEF TwosComplement
<1> HIDE DEF half, w, v
<1>8. w \div 2 = half
  BY <1>6
<1> DEFINE n == IF w < 2 * HalfRange /\ v >= half THEN v + 2 * HalfRange - w ELSE v
<1>9. ReadSigned(at, width) = [value |-> n, next |-> at + width]
  BY <1>5, <1>8
<1>10. n \in Unsigned /\ AsSigned(n) = IF v >= half THEN v - w ELSE v
  <2>1. CASE w < 2 * HalfRange
    <3>1. CASE v >= half
      <4>1. n = v + 2 * HalfRange - w
        BY <2>1, <3>1
      <4> HIDE DEF n
      <4> QED
        BY <1>3, <1>6, <2>1, <3>1, <4>1, Sizes DEF Unsigned, MaxAddress, AsSigned
    <3>2. CASE ~(v >= half)
      <4>1. n = v
        BY <3>2
      <4> HIDE DEF n
      <4> QED
        BY <1>3, <1>6, <2>1, <3>2, <4>1, Sizes DEF Unsigned, MaxAddress, AsSigned
    <3> QED
      BY <3>1, <3>2
  <2>2. CASE ~(w < 2 * HalfRange)
    <3>1. n = v /\ w = 2 * HalfRange /\ half = HalfRange
      BY <1>3, <1>6, <2>2, Sizes
    <3> HIDE DEF n
    <3> QED
      BY <1>3, <1>6, <3>1, Sizes DEF Unsigned, MaxAddress, AsSigned
  <2> QED
    BY <2>1, <2>2
<1> HIDE DEF n
<1>11. FixedRead(ReadSigned(at, width), at, width)
  BY <1>3, <1>9, <1>10 DEF FixedRead, w
<1>12. AsSigned(ReadSigned(at, width).value) = TwosComplement(d)
  BY <1>6, <1>7, <1>9, <1>10
<1> QED
  BY <1>11, <1>12 DEF d

\* A block is skipped only if all of it is there.
LEMMA SkipsABlock ==
    ASSUME bytes \in Seq(Bytes), NEW read, Skip(read) # Nothing,
           read.value \in Unsigned, read.next \in 1..(Len(bytes) + 1),
           read = [value |-> read.value, next |-> read.next]
    PROVE  /\ Skip(read).value = read.value
           /\ Skip(read).next \in 1..(Len(bytes) + 1) /\ Skip(read).next >= read.next
<1>1. /\ read # Nothing /\ read.value <= Len(bytes) - read.next + 1
      /\ Skip(read) = [read EXCEPT !.next = @ + read.value]
  BY DEF Skip
<1> DEFINE v == read.value
           n == read.next
<1>2. Skip(read).value = v /\ Skip(read).next = n + v
  BY <1>1
<1>3. v \in Nat /\ n \in 1..(Len(bytes) + 1) /\ v <= Len(bytes) - n + 1 /\ Len(bytes) \in Nat
  BY <1>1, Sizes DEF Unsigned, MaxAddress
<1> HIDE DEF v, n
<1> QED
  BY <1>2, <1>3 DEF v, n

-----------------------------------------------------------------------------
(* Operations.                                                             *)

\* An operand is what the bytes from a place to the next one encode.
OperandEncodes(atom, read, at) ==
    LET digits == SubSeq(bytes, at, read.next - 1)
    IN  /\ read.value \in Unsigned /\ read.next \in at..(Len(bytes) + 1)
        /\ atom \in UlebOperand =>
               /\ read.value = LebValue(digits)
               /\ IsLeb(digits) /\ Len(digits) <= Groups
        /\ atom \in SlebOperand => AsSigned(read.value) = SlebValue(digits)
        /\ atom \in DOMAIN UnsignedWidth =>
               read.value = FixedValue(digits) /\ read.next = at + UnsignedWidth[atom]
        /\ atom \in DOMAIN SignedWidth => AsSigned(read.value) = TwosComplement(digits)

\* An operand has whole bytes.
LEMMA Widths ==
    /\ \A atom \in DOMAIN UnsignedWidth : UnsignedWidth[atom] \in Nat
    /\ \A atom \in DOMAIN SignedWidth : SignedWidth[atom] \in Nat
BY ExpressionAssumption DEF UnsignedWidth, SignedWidth

\* Each operation has its operands from one table.
LEMMA TablesAreDisjoint ==
    ASSUME NEW atom
    PROVE  /\ atom \in DOMAIN UnsignedWidth =>
                  atom \notin UNION {DOMAIN SignedWidth, UlebOperand, SlebOperand,
                                     BlockOperand, NoOperand, TwoOperands}
           /\ atom \in DOMAIN SignedWidth =>
                  atom \notin UNION {DOMAIN UnsignedWidth, UlebOperand, SlebOperand,
                                     BlockOperand, NoOperand, TwoOperands}
           /\ atom \in UlebOperand =>
                  atom \notin UNION {DOMAIN UnsignedWidth, DOMAIN SignedWidth,
                                     SlebOperand, BlockOperand, NoOperand, TwoOperands}
           /\ atom \in SlebOperand =>
                  atom \notin UNION {DOMAIN UnsignedWidth, DOMAIN SignedWidth,
                                     UlebOperand, BlockOperand, NoOperand, TwoOperands}
           /\ atom \in BlockOperand =>
                  atom \notin UNION {DOMAIN UnsignedWidth, DOMAIN SignedWidth,
                                     UlebOperand, SlebOperand, NoOperand, TwoOperands}
           /\ atom \in NoOperand =>
                  atom \notin UNION {DOMAIN UnsignedWidth, DOMAIN SignedWidth,
                                     UlebOperand, SlebOperand, BlockOperand, TwoOperands}
           /\ atom \in TwoOperands =>
                  atom \notin UNION {DOMAIN UnsignedWidth, DOMAIN SignedWidth,
                                     UlebOperand, SlebOperand, BlockOperand, NoOperand}
BY DEF UnsignedWidth, SignedWidth, UlebOperand, SlebOperand, BlockOperand, NoOperand,
       TwoOperands

\* Which reader an operation's first operand is read by
LEMMA ReaderOfFirst ==
    ASSUME NEW at, NEW atom, atom = Opcodes[bytes[at]].atom
    PROVE  /\ atom \in NoOperand \cup {"breg"} =>
                  FirstOperand(at) = [value |-> Opcodes[bytes[at]].number, next |-> at + 1]
           /\ atom \in DOMAIN UnsignedWidth =>
                  FirstOperand(at) = ReadUnsigned(at + 1, UnsignedWidth[atom])
           /\ atom \in DOMAIN SignedWidth =>
                  FirstOperand(at) = ReadSigned(at + 1, SignedWidth[atom])
           /\ atom \in UlebOperand \cup {"bregx", "bit_piece"} =>
                  FirstOperand(at) = ReadUleb(at + 1)
           /\ atom \in SlebOperand => FirstOperand(at) = ReadSleb(at + 1)
           /\ atom \in BlockOperand => FirstOperand(at) = Skip(ReadUleb(at + 1))
<1>1. /\ "breg" \in TwoOperands /\ "bregx" \in TwoOperands /\ "bit_piece" \in TwoOperands
      /\ "breg" \notin {"bregx", "bit_piece"}
  BY DEF TwoOperands
<1>2. CASE atom \in NoOperand \cup {"breg"}
  <2>1. atom \notin UNION {DOMAIN UnsignedWidth, DOMAIN SignedWidth, UlebOperand,
                           SlebOperand, BlockOperand, {"bregx", "bit_piece"}}
    BY <1>1, <1>2, TablesAreDisjoint
  <2> QED
    BY <1>2, <2>1 DEF FirstOperand
<1>3. CASE atom \in DOMAIN UnsignedWidth
  <2>1. atom \notin UNION {DOMAIN SignedWidth, UlebOperand, SlebOperand, BlockOperand,
                           NoOperand, {"breg", "bregx", "bit_piece"}}
    BY <1>1, <1>3, TablesAreDisjoint
  <2> QED
    BY <1>3, <2>1 DEF FirstOperand
<1>4. CASE atom \in DOMAIN SignedWidth
  <2>1. atom \notin UNION {DOMAIN UnsignedWidth, UlebOperand, SlebOperand, BlockOperand,
                           NoOperand, {"breg", "bregx", "bit_piece"}}
    BY <1>1, <1>4, TablesAreDisjoint
  <2> QED
    BY <1>4, <2>1 DEF FirstOperand
<1>5. CASE atom \in UlebOperand \cup {"bregx", "bit_piece"}
  <2>1. atom \notin UNION {DOMAIN UnsignedWidth, DOMAIN SignedWidth, SlebOperand,
                           BlockOperand, NoOperand, {"breg"}}
    BY <1>1, <1>5, TablesAreDisjoint
  <2> QED
    BY <1>5, <2>1 DEF FirstOperand
<1>6. CASE atom \in SlebOperand
  <2>1. atom \notin UNION {DOMAIN UnsignedWidth, DOMAIN SignedWidth, UlebOperand,
                           BlockOperand, NoOperand, {"breg", "bregx", "bit_piece"}}
    BY <1>1, <1>6, TablesAreDisjoint
  <2> QED
    BY <1>6, <2>1 DEF FirstOperand
<1>7. CASE atom \in BlockOperand
  <2>1. atom \notin UNION {DOMAIN UnsignedWidth, DOMAIN SignedWidth, UlebOperand,
                           SlebOperand, NoOperand, {"breg", "bregx", "bit_piece"}}
    BY <1>1, <1>7, TablesAreDisjoint
  <2> QED
    BY <1>7, <2>1 DEF FirstOperand
<1> QED
  BY <1>2, <1>3, <1>4, <1>5, <1>6, <1>7

\* The three ways to read a number: unsigned ones in groups, ...
LEMMA UlebEncodes ==
    ASSUME bytes \in Seq(Bytes), NEW at \in 1..(Len(bytes) + 1), ReadUleb(at) # Nothing
    PROVE  LET read == ReadUleb(at)
           IN  /\ read.value \in Unsigned /\ read.next \in at..(Len(bytes) + 1)
               /\ read = [value |-> read.value, next |-> read.next]
               /\ read.value = LebValue(SubSeq(bytes, at, read.next - 1))
               /\ IsLeb(SubSeq(bytes, at, read.next - 1))
               /\ Len(SubSeq(bytes, at, read.next - 1)) <= Groups
<1> DEFINE read == ReadUleb(at)
<1>1. PICK m \in 1..Groups :
          IsRead(read, at, m) /\ read.value = LebValue(SubSeq(bytes, at, at + m - 1))
  BY UlebIsExact
<1>2. read = [value |-> read.value, next |-> read.next]
  BY DEF ReadUleb
<1> HIDE DEF read
<1>3. read.next = at + m /\ at + m <= Len(bytes) + 1 /\ read.value \in Unsigned
  BY <1>1 DEF IsRead
<1>4. read.next \in at..(Len(bytes) + 1)
  BY <1>3, Sizes
<1>5. IsLeb(SubSeq(bytes, at, at + m - 1)) /\ read.next - 1 = at + m - 1
  BY <1>1, <1>3, Sizes DEF IsRead
<1>6. Len(SubSeq(bytes, at, at + m - 1)) = m /\ m <= Groups
  BY <1>3, Sizes
<1>7. /\ IsLeb(SubSeq(bytes, at, read.next - 1))
      /\ Len(SubSeq(bytes, at, read.next - 1)) <= Groups
  BY <1>5, <1>6
<1> QED
  BY <1>1, <1>2, <1>3, <1>4, <1>7 DEF read

\* ... signed ones, ...
LEMMA SlebEncodes ==
    ASSUME bytes \in Seq(Bytes), NEW at \in 1..(Len(bytes) + 1), ReadSleb(at) # Nothing
    PROVE  LET read == ReadSleb(at)
           IN  /\ read.value \in Unsigned /\ read.next \in at..(Len(bytes) + 1)
               /\ AsSigned(read.value) = SlebValue(SubSeq(bytes, at, read.next - 1))
<1> DEFINE read == ReadSleb(at)
<1>1. PICK m \in 1..Groups :
          /\ IsRead(read, at, m)
          /\ AsSigned(read.value) = SlebValue(SubSeq(bytes, at, at + m - 1))
  BY SlebIsExact
<1> HIDE DEF read
<1>3. read.next = at + m /\ at + m <= Len(bytes) + 1 /\ read.value \in Unsigned
  BY <1>1 DEF IsRead
<1>4. read.next \in at..(Len(bytes) + 1)
  BY <1>3, Sizes
<1> QED
  BY <1>1, <1>3, <1>4 DEF read

\* ... and those of fixed width
LEMMA FixedReadEnds ==
    ASSUME bytes \in Seq(Bytes), NEW at \in 1..(Len(bytes) + 1), NEW width, NEW read,
           FixedRead(read, at, width)
    PROVE  /\ read.value \in Unsigned /\ read.next \in at..(Len(bytes) + 1)
           /\ read.next = at + width
BY DEF FixedRead

\* The first operand is what its bytes encode.
LEMMA FirstEncodes ==
    ASSUME bytes \in Seq(Bytes), NEW at \in 1..Len(bytes), bytes[at] \in DOMAIN Opcodes,
           FirstOperand(at) # Nothing, NEW atom, atom = Opcodes[bytes[at]].atom
    PROVE  /\ OperandEncodes(atom, FirstOperand(at), at + 1)
           /\ atom = "breg" => FirstOperand(at).next = at + 1
<1> DEFINE first == FirstOperand(at)
           p     == at + 1
<1>1. p \in 1..(Len(bytes) + 1) /\ p \in p..(Len(bytes) + 1)
  OBVIOUS
<1>2. /\ "breg" \in TwoOperands /\ "bregx" \in TwoOperands /\ "bit_piece" \in TwoOperands
      /\ \A b \in TwoOperands : b = "breg" \/ b \in {"bregx", "bit_piece"}
  BY DEF TwoOperands
<1> HIDE DEF p
<1>3. CASE atom \in NoOperand \cup {"breg"}
  <2>1. first = [value |-> Opcodes[bytes[at]].number, next |-> p]
    BY <1>3, ReaderOfFirst DEF p
  <2>2. Opcodes[bytes[at]].number \in Unsigned
    BY ExpressionAssumption, Sizes DEF Unsigned, MaxAddress
  <2>3. atom \notin UNION {DOMAIN UnsignedWidth, DOMAIN SignedWidth, UlebOperand,
                           SlebOperand}
    BY <1>2, <1>3, TablesAreDisjoint
  <2> HIDE DEF first
  <2>4. OperandEncodes(atom, first, p)
    BY <1>1, <2>1, <2>2, <2>3 DEF OperandEncodes
  <2> QED
    BY <2>1, <2>4 DEF first, p
<1>4. CASE atom \in DOMAIN UnsignedWidth
  <2>1. first = ReadUnsigned(p, UnsignedWidth[atom]) /\ UnsignedWidth[atom] \in Nat
    BY <1>4, ReaderOfFirst, Widths DEF p
  <2> DEFINE width == UnsignedWidth[atom]
  <2>2. /\ FixedRead(first, p, width) /\ width \in Nat
        /\ first.value = FixedValue(SubSeq(bytes, p, p + width - 1))
    BY <1>1, <2>1, UnsignedIsExact
  <2>3. atom \notin UNION {DOMAIN SignedWidth, UlebOperand, SlebOperand} /\ atom # "breg"
    BY <1>2, <1>4, TablesAreDisjoint
  <2> HIDE DEF first, width
  <2>4. /\ first.value \in Unsigned /\ first.next \in p..(Len(bytes) + 1)
        /\ first.next = p + width
    BY <1>1, <2>2, FixedReadEnds
  <2>5. first.value = FixedValue(SubSeq(bytes, p, first.next - 1))
    <3>1. first.next - 1 = p + width - 1
      BY <1>1, <2>2, <2>4
    <3> QED
      BY <2>2, <3>1
  <2>6. OperandEncodes(atom, first, p)
    BY <2>3, <2>4, <2>5 DEF OperandEncodes, width
  <2> QED
    BY <2>3, <2>6 DEF first, p
<1>5. CASE atom \in DOMAIN SignedWidth
  <2>1. first = ReadSigned(p, SignedWidth[atom]) /\ SignedWidth[atom] \in Nat
    BY <1>5, ReaderOfFirst, Widths DEF p
  <2> DEFINE width == SignedWidth[atom]
  <2>2. /\ FixedRead(first, p, width) /\ width \in Nat
        /\ AsSigned(first.value) = TwosComplement(SubSeq(bytes, p, p + width - 1))
    BY <1>1, <2>1, SignedIsExact
  <2>3. atom \notin UNION {DOMAIN UnsignedWidth, UlebOperand, SlebOperand} /\ atom # "breg"
    BY <1>2, <1>5, TablesAreDisjoint
  <2> HIDE DEF first, width
  <2>4. /\ first.value \in Unsigned /\ first.next \in p..(Len(bytes) + 1)
        /\ first.next = p + width
    BY <1>1, <2>2, FixedReadEnds
  <2>5. AsSigned(first.value) = TwosComplement(SubSeq(bytes, p, first.next - 1))
    <3>1. first.next - 1 = p + width - 1
      BY <1>1, <2>2, <2>4
    <3> QED
      BY <2>2, <3>1
  <2>6. OperandEncodes(atom, first, p)
    BY <2>3, <2>4, <2>5 DEF OperandEncodes
  <2> QED
    BY <2>3, <2>6 DEF first, p
<1>6. CASE atom \in UlebOperand \cup {"bregx", "bit_piece"}
  <2>1. first = ReadUleb(p)
    BY <1>6, ReaderOfFirst DEF p
  <2>2. /\ first.value \in Unsigned /\ first.next \in p..(Len(bytes) + 1)
        /\ first.value = LebValue(SubSeq(bytes, p, first.next - 1))
        /\ IsLeb(SubSeq(bytes, p, first.next - 1))
        /\ Len(SubSeq(bytes, p, first.next - 1)) <= Groups
    BY <1>1, <2>1, UlebEncodes
  <2>3. atom \notin UNION {DOMAIN UnsignedWidth, DOMAIN SignedWidth, SlebOperand}
        /\ atom # "breg"
    BY <1>2, <1>6, TablesAreDisjoint
  <2> HIDE DEF first
  <2>5. OperandEncodes(atom, first, p)
    BY <2>2, <2>3 DEF OperandEncodes
  <2> QED
    BY <2>3, <2>5 DEF first, p
<1>7. CASE atom \in SlebOperand
  <2>1. first = ReadSleb(p)
    BY <1>7, ReaderOfFirst DEF p
  <2>2. /\ first.value \in Unsigned /\ first.next \in p..(Len(bytes) + 1)
        /\ AsSigned(first.value) = SlebValue(SubSeq(bytes, p, first.next - 1))
    BY <1>1, <2>1, SlebEncodes
  <2>3. atom \notin UNION {DOMAIN UnsignedWidth, DOMAIN SignedWidth, UlebOperand}
        /\ atom # "breg"
    BY <1>2, <1>7, TablesAreDisjoint
  <2> HIDE DEF first
  <2>5. OperandEncodes(atom, first, p)
    BY <2>2, <2>3 DEF OperandEncodes
  <2> QED
    BY <2>3, <2>5 DEF first, p
<1>8. CASE atom \in BlockOperand
  <2> DEFINE block == ReadUleb(p)
  <2>1. first = Skip(block)
    BY <1>8, ReaderOfFirst DEF p
  <2>2. Skip(block) # Nothing
    BY <2>1
  <2>3. block # Nothing
    BY <2>2 DEF Skip
  <2>4. /\ block.value \in Unsigned /\ block.next \in p..(Len(bytes) + 1)
        /\ block = [value |-> block.value, next |-> block.next]
    BY <1>1, <2>3, UlebEncodes
  <2>5. block.next \in 1..(Len(bytes) + 1)
    BY <1>1, <2>4
  <2> HIDE DEF block, first
  <2>6. /\ first.value = block.value /\ first.next \in 1..(Len(bytes) + 1)
        /\ first.next >= block.next
    BY <2>1, <2>2, <2>4, <2>5, SkipsABlock
  <2>7. first.next \in p..(Len(bytes) + 1)
    BY <1>1, <2>4, <2>6
  <2>8. atom \notin UNION {DOMAIN UnsignedWidth, DOMAIN SignedWidth, UlebOperand,
                           SlebOperand} /\ atom # "breg"
    BY <1>2, <1>8, TablesAreDisjoint
  <2>9. OperandEncodes(atom, first, p)
    BY <2>4, <2>6, <2>7, <2>8 DEF OperandEncodes
  <2> QED
    BY <2>8, <2>9 DEF first, p
<1>9. atom \in AtomNames
  BY ExpressionAssumption
<1> QED
  BY <1>2, <1>3, <1>4, <1>5, <1>6, <1>7, <1>8, <1>9 DEF AtomNames

\* So is the second one.
LEMMA SecondEncodes ==
    ASSUME bytes \in Seq(Bytes), NEW at \in 1..(Len(bytes) + 1), NEW atom,
           SecondOperand(atom, at) # Nothing
    PROVE  LET second == SecondOperand(atom, at)
           IN  /\ second.value \in Unsigned /\ second.next \in at..(Len(bytes) + 1)
               /\ atom = "breg" =>
                      AsSigned(second.value) = SlebValue(SubSeq(bytes, at, second.next - 1))
               /\ atom \notin TwoOperands => second.next = at
<1>1. CASE atom \in {"breg", "bregx"}
  <2>1. SecondOperand(atom, at) = ReadSleb(at) /\ atom \in TwoOperands
    BY <1>1 DEF SecondOperand, TwoOperands
  <2> QED
    BY <2>1, SlebEncodes
<1>2. CASE atom = "bit_piece"
  <2>1. SecondOperand(atom, at) = ReadUleb(at) /\ atom \in TwoOperands /\ atom # "breg"
    BY <1>2 DEF SecondOperand, TwoOperands
  <2> QED
    BY <2>1, UlebEncodes
<1>3. CASE atom \notin {"breg", "bregx", "bit_piece"}
  <2>1. SecondOperand(atom, at) = [value |-> 0, next |-> at] /\ atom # "breg"
    BY <1>3 DEF SecondOperand
  <2>2. 0 \in Unsigned /\ at \in at..(Len(bytes) + 1)
    BY Sizes DEF Unsigned, MaxAddress
  <2> QED
    BY <2>1, <2>2
<1> QED
  BY <1>1, <1>2, <1>3

\* An operation is what the bytes from its opcode to the next one encode.
IsEncoded(b, op) ==
    LET digits == SubSeq(b, op.from + 1, op.next - 1)
    IN  /\ op \in OperationRecords
        /\ op.from \in 1..Len(b) /\ op.next \in (op.from + 1)..(Len(b) + 1)
        /\ b[op.from] \in DOMAIN Opcodes /\ op.atom = Opcodes[b[op.from]].atom
        /\ op.atom \in UlebOperand =>
               /\ op.operand1 = LebValue(digits)
               /\ IsLeb(digits) /\ Len(digits) <= Groups
        /\ op.atom \in SlebOperand => AsSigned(op.operand1) = SlebValue(digits)
        /\ op.atom = "breg" => AsSigned(op.operand2) = SlebValue(digits)
        /\ op.atom \in DOMAIN UnsignedWidth =>
               /\ op.operand1 = FixedValue(digits)
               /\ op.next = op.from + 1 + UnsignedWidth[op.atom]
        /\ op.atom \in DOMAIN SignedWidth =>
               AsSigned(op.operand1) = TwosComplement(digits)

\* What a round of the loop returns
LEMMA OperationIs ==
    ASSUME NEW at
    PROVE  LET first  == FirstOperand(at)
               atom   == Opcodes[bytes[at]].atom
               second == SecondOperand(atom, first.next)
               op     == [atom |-> atom, operand1 |-> first.value,
                          operand2 |-> second.value, from |-> at,
                          next |-> second.next]
           IN  /\ op # Nothing
               /\ OperationAt(at) # Nothing =>
                      /\ bytes[at] \in DOMAIN Opcodes /\ first # Nothing
                      /\ second # Nothing /\ OperationAt(at) = op
               /\ OperationAt(at) = Nothing =>
                      \/ bytes[at] \notin DOMAIN Opcodes
                      \/ first = Nothing \/ second = Nothing
<1> DEFINE first  == FirstOperand(at)
           atom   == Opcodes[bytes[at]].atom
           second == SecondOperand(atom, first.next)
           op     == [atom |-> atom, operand1 |-> first.value,
                      operand2 |-> second.value, from |-> at, next |-> second.next]
<1>1. op # Nothing
  <2>1. "from" \in DOMAIN op
    OBVIOUS
  <2>2. "from" \notin DOMAIN Nothing
    BY DEF Nothing
  <2> QED
    BY <2>1, <2>2
<1>2. OperationAt(at) = IF bytes[at] \notin DOMAIN Opcodes \/ first = Nothing THEN Nothing
                        ELSE IF second = Nothing THEN Nothing ELSE op
  BY DEF OperationAt
<1> HIDE DEF first, atom, second, op
<1> QED
  BY <1>1, <1>2 DEF first, atom, second, op

\* An operation is what its bytes encode.
LEMMA OperationEncodes ==
    ASSUME bytes \in Seq(Bytes), NEW at \in 1..Len(bytes), OperationAt(at) # Nothing
    PROVE  IsEncoded(bytes, OperationAt(at)) /\ OperationAt(at).from = at
<1> DEFINE first  == FirstOperand(at)
           atom   == Opcodes[bytes[at]].atom
           second == SecondOperand(atom, first.next)
           op     == OperationAt(at)
<1>1. /\ bytes[at] \in DOMAIN Opcodes /\ first # Nothing /\ second # Nothing
      /\ op = [atom |-> atom, operand1 |-> first.value,
               operand2 |-> second.value, from |-> at, next |-> second.next]
  BY OperationIs
<1>2. OperandEncodes(atom, first, at + 1) /\ (atom = "breg" => first.next = at + 1)
  BY <1>1, FirstEncodes
<1>3. /\ first.value \in Unsigned /\ first.next \in (at + 1)..(Len(bytes) + 1)
      /\ at \in Nat /\ Len(bytes) \in Nat
  BY <1>2 DEF OperandEncodes
<1>4. first.next \in 1..(Len(bytes) + 1)
  BY <1>3
<1>5. /\ second.value \in Unsigned /\ second.next \in (first.next)..(Len(bytes) + 1)
      /\ atom = "breg" =>
             AsSigned(second.value) = SlebValue(SubSeq(bytes, first.next, second.next - 1))
      /\ atom \notin TwoOperands => second.next = first.next
  BY <1>1, <1>4, SecondEncodes
<1>6. atom \in AtomNames
  BY <1>1, ExpressionAssumption
<1>7. "breg" \in TwoOperands
  BY DEF TwoOperands
<1>8. /\ atom \in UNION {UlebOperand, SlebOperand, DOMAIN UnsignedWidth, DOMAIN SignedWidth}
             => atom \notin TwoOperands
  BY TablesAreDisjoint
<1> HIDE DEF first, atom, second, op
<1>9. second.next \in (at + 1)..(Len(bytes) + 1)
  BY <1>3, <1>5
<1>10. /\ op.atom = atom /\ op.operand1 = first.value /\ op.operand2 = second.value
       /\ op.from = at /\ op.next = second.next
  BY <1>1
<1>11. op \in OperationRecords
  BY <1>1, <1>3, <1>5, <1>6, <1>9 DEF OperationRecords
<1> DEFINE digits == SubSeq(bytes, at + 1, second.next - 1)
<1>12. /\ atom \in UlebOperand =>
              /\ first.value = LebValue(digits)
              /\ IsLeb(digits) /\ Len(digits) <= Groups
       /\ atom \in SlebOperand => AsSigned(first.value) = SlebValue(digits)
       /\ atom \in DOMAIN UnsignedWidth =>
              /\ first.value = FixedValue(digits)
              /\ second.next = at + 1 + UnsignedWidth[atom]
       /\ atom \in DOMAIN SignedWidth => AsSigned(first.value) = TwosComplement(digits)
  BY <1>2, <1>5, <1>8 DEF OperandEncodes
<1>13. atom = "breg" => AsSigned(second.value) = SlebValue(digits)
  BY <1>2, <1>5
<1> HIDE DEF digits
<1>14. digits = SubSeq(bytes, op.from + 1, op.next - 1)
  BY <1>10 DEF digits
<1>15. bytes[op.from] \in DOMAIN Opcodes /\ op.atom = Opcodes[bytes[op.from]].atom
  BY <1>1, <1>10 DEF atom
<1> QED
  BY <1>3, <1>9, <1>10, <1>11, <1>12, <1>13, <1>14, <1>15 DEF IsEncoded, op

\* A number of fixed width is read if its bytes are there and fit.
LEMMA FixedIsRead ==
    ASSUME NEW at \in Nat, NEW width \in Nat \ {0}, bytes \in Seq(Bytes),
           ByteWeight[width] <= 2 * HalfRange, at + width - 1 <= Len(bytes)
    PROVE  /\ ReadUnsigned(at, width) # Nothing /\ ReadUnsigned(at, width).next = at + width
           /\ ReadSigned(at, width) # Nothing /\ ReadSigned(at, width).next = at + width
<1> DEFINE d == SubSeq(bytes, at, at + width - 1)
           read == ReadUnsigned(at, width)
           w    == ByteWeight[width]
<1>1. read = [value |-> SumOf(at, d), next |-> at + width]
  <2>1. /\ width # 0 /\ ~(width > Len(bytes) - at + 1)
        /\ ~(w > 2 * HalfRange)
    <3>1. Len(bytes) \in Nat
      OBVIOUS
    <3>2. ~(width > Len(bytes) - at + 1)
      BY <3>1
    <3>3. w \in Nat
      <4>1. ByteRange \in Nat
        BY Sizes
      <4> QED
        BY <4>1, ByteWeights, WeightStep
    <3>4. HalfRange \in Nat
      BY Sizes
    <3> HIDE DEF w
    <3>5. w <= 2 * HalfRange
      BY DEF w
    <3> QED
      BY <3>2, <3>3, <3>4, <3>5
  <2> QED
    BY <2>1 DEF ReadUnsigned, SumOf
<1>2. read.next = at + width
  BY <1>1
<1>3. Nothing.next = 0 /\ at + width # 0
  BY DEF Nothing
<1>4. read # Nothing
  BY <1>2, <1>3
<1>5. PICK x : read = [value |-> x, next |-> at + width]
  BY <1>1
<1> HIDE DEF read, w
<1>6. ReadSigned(at, width).next = at + width
  <2>1. ReadSigned(at, width) = read
        \/ ReadSigned(at, width) = [read EXCEPT !.value = @ + 2 * HalfRange - w]
    BY DEF ReadSigned, read, w
  <2> QED
    BY <1>5, <2>1
<1>7. ReadSigned(at, width) # Nothing
  BY <1>3, <1>6
<1> QED
  BY <1>2, <1>4, <1>6, <1>7 DEF read

\* Numbers that are there but were not read
LEMMA DecodingBreaks ==
    ASSUME bytes \in Seq(Bytes), NEW at \in 1..Len(bytes), OperationAt(at) = Nothing,
           bytes[at] \in DOMAIN Opcodes,
           NEW atom, atom = Opcodes[bytes[at]].atom,
           NEW end \in (at + 1)..Len(bytes), NEW d, d = SubSeq(bytes, at + 1, end)
    PROVE  /\ atom \in UlebOperand =>
                  ~(IsLeb(d) /\ Len(d) <= Groups /\ LebValue(d) \in Unsigned)
           /\ atom \in SlebOperand \cup {"breg"} =>
                  ~(IsLeb(d) /\ Len(d) <= Groups /\ SlebValue(d) \in Signed)
           /\ \/ atom \in DOMAIN UnsignedWidth /\ Len(d) = UnsignedWidth[atom]
              \/ atom \in DOMAIN SignedWidth /\ Len(d) = SignedWidth[atom]
              => ByteWeight[Len(d)] > 2 * HalfRange
<1> DEFINE first  == FirstOperand(at)
           second == SecondOperand(atom, first.next)
           p      == at + 1
           m      == end - at
<1>1. first = Nothing \/ second = Nothing
  BY OperationIs
<1>2. /\ at \in Nat /\ Len(bytes) \in Nat /\ end \in Nat /\ m \in Nat \ {0}
      /\ p \in 1..(Len(bytes) + 1) /\ end = p + m - 1 /\ p + m - 1 <= Len(bytes)
  OBVIOUS
<1>3. d = SubSeq(bytes, p, p + m - 1) /\ Len(d) = m
  <2>1. d = SubSeq(bytes, p, p + m - 1)
    BY <1>2
  <2>2. Len(SubSeq(bytes, p, end)) = end - p + 1
    BY <1>2
  <2> QED
    BY <1>2, <2>1, <2>2
<1> HIDE DEF p, m
<1>4. ASSUME atom \in UlebOperand, IsLeb(d), Len(d) <= Groups PROVE LebValue(d) \notin Unsigned
  <2>1. first = ReadUleb(p)
    BY <1>4, ReaderOfFirst DEF p
  <2>2. atom \notin TwoOperands
    BY <1>4, TablesAreDisjoint
  <2>3. second = [value |-> 0, next |-> first.next]
    BY <2>2 DEF SecondOperand, TwoOperands
  <2>4. first = Nothing
    <3> SUFFICES ASSUME first # Nothing PROVE FALSE
      OBVIOUS
    <3>1. first.next \in p..(Len(bytes) + 1)
      BY <1>2, <2>1, UlebEncodes
    <3> HIDE DEF first, second
    <3>2. second.next # Nothing.next
      BY <1>2, <2>3, <3>1 DEF Nothing
    <3> QED
      BY <1>1, <3>2
  <2>5. m \in 1..Groups /\ IsLeb(SubSeq(bytes, p, p + m - 1))
    <3>1. m \in 1..Groups
      BY <1>2, <1>3, <1>4, Sizes
    <3>2. IsLeb(SubSeq(bytes, p, p + m - 1))
      BY <1>3, <1>4, Zenon
    <3> QED
      BY <3>1, <3>2
  <2> QED
    BY <1>2, <1>3, <2>1, <2>4, <2>5, UlebIsComplete
<1>5. ASSUME atom \in SlebOperand \cup {"breg"}, IsLeb(d), Len(d) <= Groups
      PROVE  SlebValue(d) \notin Signed
  <2>1. ReadSleb(p) = Nothing
    <3>1. CASE atom \in SlebOperand
      <4>1. first = ReadSleb(p)
        BY <3>1, ReaderOfFirst DEF p
      <4>2. atom \notin TwoOperands
        BY <3>1, TablesAreDisjoint
      <4>3. second = [value |-> 0, next |-> first.next]
        BY <4>2 DEF SecondOperand, TwoOperands
      <4> SUFFICES ASSUME first # Nothing PROVE FALSE
        BY <4>1
      <4>4. first.next \in p..(Len(bytes) + 1)
        BY <1>2, <4>1, SlebEncodes
      <4> HIDE DEF first, second
      <4>5. second.next # Nothing.next
        BY <1>2, <4>3, <4>4 DEF Nothing
      <4> QED
        BY <1>1, <4>5
    <3>2. CASE atom = "breg"
      <4>1. first = [value |-> Opcodes[bytes[at]].number, next |-> p]
        BY <3>2, ReaderOfFirst DEF p
      <4>2. first.next = p
        BY <4>1
      <4>3. first # Nothing
        <5>1. first.next # Nothing.next
          BY <1>2, <4>2 DEF Nothing
        <5> QED
          BY <5>1
      <4>4. second = ReadSleb(p)
        BY <3>2, <4>2 DEF SecondOperand
      <4> QED
        BY <1>1, <4>3, <4>4
    <3> QED
      BY <1>5, <3>1, <3>2
  <2>2. m \in 1..Groups /\ IsLeb(SubSeq(bytes, p, p + m - 1))
    <3>1. m \in 1..Groups
      BY <1>2, <1>3, <1>5, Sizes
    <3>2. IsLeb(SubSeq(bytes, p, p + m - 1))
      BY <1>3, <1>5, Zenon
    <3> QED
      BY <3>1, <3>2
  <2> QED
    BY <1>2, <1>3, <2>1, <2>2, SlebIsComplete
<1>6. ASSUME \/ atom \in DOMAIN UnsignedWidth /\ Len(d) = UnsignedWidth[atom]
             \/ atom \in DOMAIN SignedWidth /\ Len(d) = SignedWidth[atom]
      PROVE  ByteWeight[Len(d)] > 2 * HalfRange
  <2>0. ByteWeight[m] \in Nat /\ HalfRange \in Nat /\ Len(d) = m
    <3>1. ByteRange \in Nat /\ HalfRange \in Nat
      BY Sizes
    <3>2. ByteWeight[m] \in Nat
      BY <1>2, <3>1, ByteWeights, WeightStep
    <3> QED
      BY <1>3, <3>1, <3>2
  <2> SUFFICES ASSUME ByteWeight[m] <= 2 * HalfRange PROVE FALSE
    <3> HIDE DEF m
    <3> QED
      BY <2>0
  <2>1. first = ReadUnsigned(p, m) \/ first = ReadSigned(p, m)
    BY <1>3, <1>6, ReaderOfFirst DEF p
  <2>2. p \in Nat /\ m \in Nat \ {0} /\ p + m - 1 <= Len(bytes) /\ p + m # 0
    BY <1>2
  <2>3. first # Nothing /\ first.next = p + m
    BY <1>3, <1>6, <2>1, <2>2, FixedIsRead
  <2>4. atom \notin TwoOperands
    BY <1>6, TablesAreDisjoint
  <2>5. second = [value |-> 0, next |-> first.next]
    BY <2>4 DEF SecondOperand, TwoOperands
  <2> HIDE DEF first, second
  <2>6. second.next = p + m /\ Nothing.next = 0
    BY <2>3, <2>5 DEF Nothing
  <2> QED
    BY <1>1, <2>2, <2>3, <2>6
<1> QED
  BY <1>4, <1>5, <1>6

\* An operation without an operand does not break.
LEMMA NoOperandReads ==
    ASSUME NEW at \in Nat, bytes[at] \in DOMAIN Opcodes,
           Opcodes[bytes[at]].atom \in NoOperand
    PROVE  OperationAt(at) # Nothing
<1> DEFINE atom   == Opcodes[bytes[at]].atom
           first  == FirstOperand(at)
           second == SecondOperand(atom, first.next)
<1>1. first = [value |-> Opcodes[bytes[at]].number, next |-> at + 1]
  BY ReaderOfFirst
<1>2. atom \notin TwoOperands
  BY TablesAreDisjoint
<1>3. second = [value |-> 0, next |-> first.next]
  BY <1>2 DEF SecondOperand, TwoOperands
<1> SUFFICES ASSUME OperationAt(at) = Nothing PROVE FALSE
  OBVIOUS
<1>4. first = Nothing \/ second = Nothing
  BY OperationIs
<1> HIDE DEF first, second
<1>5. first.next = at + 1 /\ second.next = at + 1
  BY <1>1, <1>3
<1>6. Nothing.next = 0
  BY DEF Nothing
<1> QED
  BY <1>4, <1>5, <1>6

-----------------------------------------------------------------------------
(* The invariant of the decoding.                                          *)

DecodingInv ==
    /\ bytes \in Seq(Bytes)
    /\ operations \in Seq(OperationRecords)
    /\ \A i \in 1..Len(operations) :
           /\ IsEncoded(bytes, operations[i])
           /\ operations[i].from = IF i = 1 THEN 1 ELSE operations[i - 1].next
    /\ expression \in {"decoded", "evaluating", "evaluated"} => Cursor = Len(bytes) + 1
    /\ expression = "broken" => Cursor <= Len(bytes)
    /\ BreaksForAReason

\* The cursor stays within the bytes.
LEMMA CursorIs ==
    ASSUME DecodingInv
    PROVE  /\ Cursor \in 1..(Len(bytes) + 1)
           /\ Cursor = IF Len(operations) = 0 THEN 1 ELSE operations[Len(operations)].next
<1>1. Len(operations) \in Nat /\ Len(bytes) \in Nat
      /\ (operations = <<>> <=> Len(operations) = 0)
  BY DEF DecodingInv
<1>2. Cursor = IF Len(operations) = 0 THEN 1 ELSE operations[Len(operations)].next
  BY <1>1 DEF Cursor, Last
<1>3. ASSUME Len(operations) # 0
      PROVE  operations[Len(operations)].next \in 1..(Len(bytes) + 1)
  <2>1. Len(operations) \in 1..Len(operations)
    BY <1>1, <1>3
  <2>2. IsEncoded(bytes, operations[Len(operations)])
    BY <2>1 DEF DecodingInv
  <2> DEFINE op == operations[Len(operations)]
  <2>3. op.from \in 1..Len(bytes) /\ op.next \in (op.from + 1)..(Len(bytes) + 1)
    BY <2>2 DEF IsEncoded
  <2> HIDE DEF op
  <2>4. op.next \in 1..(Len(bytes) + 1)
    BY <1>1, <2>3
  <2> QED
    BY <2>4 DEF op
<1> QED
  BY <1>1, <1>2, <1>3

\* The property follows from it.
LEMMA DecodingExact == DecodingInv => OperandsAreExact
<1> SUFFICES ASSUME DecodingInv PROVE OperandsAreExact
  OBVIOUS
<1>1. DOMAIN operations = 1..Len(operations)
  BY DEF DecodingInv
<1> QED
  BY <1>1 DEF DecodingInv, OperandsAreExact, IsEncoded

\* The bytes and what was read of them stay.
LEMMA DecodingStays ==
    ASSUME DecodingInv, UNCHANGED <<bytes, operations>>,
           expression' = "broken" => expression = "broken",
           expression' \in {"decoded", "evaluating", "evaluated"} =>
               expression \in {"decoded", "evaluating", "evaluated"}
    PROVE  DecodingInv'
<1>1. Cursor' = Cursor /\ bytes' = bytes
  BY DEF Cursor
<1>2. BreaksForAReason'
  BY <1>1 DEF DecodingInv, BreaksForAReason
<1>3. \A i \in 1..Len(operations) : IsEncoded(bytes', operations'[i])
  BY <1>1 DEF DecodingInv
<1> QED
  BY <1>1, <1>2, <1>3 DEF DecodingInv

\* The three steps of the decoding keep it.
LEMMA DecodeOperationStep == ASSUME DecodingInv, DecodeOperation PROVE DecodingInv'
<1> DEFINE n  == Len(operations)
           op == OperationAt(Cursor)
<1>1. /\ expression = "decoding" /\ expression' = "decoding" /\ bytes' = bytes
      /\ Cursor <= Len(bytes) /\ op # Nothing /\ operations' = Append(operations, op)
  BY DEF DecodeOperation
<1>2. /\ Cursor \in 1..Len(bytes)
      /\ Cursor = IF n = 0 THEN 1 ELSE operations[n].next
  BY <1>1, CursorIs DEF DecodingInv
<1>3. bytes \in Seq(Bytes) /\ operations \in Seq(OperationRecords) /\ n \in Nat
  BY DEF DecodingInv
<1>4. IsEncoded(bytes, op) /\ op.from = Cursor
  BY <1>1, <1>2, <1>3, OperationEncodes
<1> HIDE DEF op
<1>5. op \in OperationRecords
  BY <1>4 DEF IsEncoded
<1>6. /\ operations' \in Seq(OperationRecords) /\ Len(operations') = n + 1
      /\ \A i \in 1..n : operations'[i] = operations[i]
      /\ operations'[n + 1] = op
  BY <1>1, <1>3, <1>5, AppendProperties
<1>7. bytes' = bytes
  BY <1>1
<1> HIDE DEF n
<1>8. ASSUME NEW i \in 1..(n + 1)
      PROVE  /\ IsEncoded(bytes, operations'[i])
             /\ operations'[i].from = IF i = 1 THEN 1 ELSE operations'[i - 1].next
  <2>1. CASE i \in 1..n
    <3>1. IsEncoded(bytes, operations[i])
          /\ operations[i].from = IF i = 1 THEN 1 ELSE operations[i - 1].next
      BY <2>1 DEF DecodingInv, n
    <3>2. i # 1 => i - 1 \in 1..n
      BY <1>3, <2>1
    <3> QED
      BY <1>6, <2>1, <3>1, <3>2
  <2>2. CASE i = n + 1
    <3>1. /\ IsEncoded(bytes, operations'[i])
          /\ operations'[i].from = IF n = 0 THEN 1 ELSE operations[n].next
      BY <1>2, <1>4, <1>6, <2>2
    <3>2. CASE n = 0
      BY <2>2, <3>1, <3>2
    <3>3. CASE n # 0
      <4>1. n \in 1..n /\ i - 1 = n /\ i # 1
        BY <1>3, <2>2, <3>3
      <4> QED
        BY <1>6, <3>1, <3>3, <4>1
    <3> QED
      BY <3>2, <3>3
  <2> QED
    BY <1>3, <2>1, <2>2
<1>9. BreaksForAReason'
  BY <1>1 DEF BreaksForAReason
<1>10. \A i \in 1..(n + 1) : IsEncoded(bytes', operations'[i])
  BY <1>7, <1>8
<1>11. (\A i \in 1..Len(operations) :
           /\ IsEncoded(bytes, operations[i])
           /\ operations[i].from = IF i = 1 THEN 1 ELSE operations[i - 1].next)'
  BY <1>6, <1>8, <1>10
<1> QED
  BY <1>1, <1>3, <1>6, <1>9, <1>11 DEF DecodingInv

LEMMA DecodeFailsStep == ASSUME DecodingInv, DecodeFails PROVE DecodingInv'
<1>1. /\ expression = "decoding" /\ expression' = "broken" /\ bytes' = bytes
      /\ Cursor <= Len(bytes) /\ OperationAt(Cursor) = Nothing /\ operations' = operations
  BY DEF DecodeFails
<1>2. Cursor \in 1..Len(bytes) /\ bytes \in Seq(Bytes)
  BY <1>1, CursorIs DEF DecodingInv
<1>3. Cursor' = Cursor /\ bytes' = bytes
  BY <1>1 DEF Cursor
<1>4. BreaksForAReason'
  <2> DEFINE at   == Cursor
             atom == Opcodes[bytes[at]].atom
             digits == {SubSeq(bytes, at + 1, end) : end \in (at + 1)..Len(bytes)}
  <2> SUFFICES ASSUME bytes[at] \in DOMAIN Opcodes
               PROVE  /\ atom \notin NoOperand
                      /\ atom \in UlebOperand =>
                             ~\E d \in digits :
                                 IsLeb(d) /\ Len(d) <= Groups /\ LebValue(d) \in Unsigned
                      /\ atom \in SlebOperand \cup {"breg"} =>
                             ~\E d \in digits :
                                 IsLeb(d) /\ Len(d) <= Groups /\ SlebValue(d) \in Signed
                      /\ \A d \in digits :
                             \/ atom \in DOMAIN UnsignedWidth /\ Len(d) = UnsignedWidth[atom]
                             \/ atom \in DOMAIN SignedWidth /\ Len(d) = SignedWidth[atom]
                             => ByteWeight[Len(d)] > 2 * HalfRange
    BY <1>1, <1>3 DEF BreaksForAReason
  <2> HIDE DEF at
  <2>1. at \in 1..Len(bytes) /\ at \in Nat /\ OperationAt(at) = Nothing
    BY <1>1, <1>2 DEF at
  <2>2. atom \notin NoOperand
    BY <2>1, NoOperandReads
  <2>3. ASSUME NEW d \in digits
        PROVE  /\ atom \in UlebOperand =>
                      ~(IsLeb(d) /\ Len(d) <= Groups /\ LebValue(d) \in Unsigned)
               /\ atom \in SlebOperand \cup {"breg"} =>
                      ~(IsLeb(d) /\ Len(d) <= Groups /\ SlebValue(d) \in Signed)
               /\ \/ atom \in DOMAIN UnsignedWidth /\ Len(d) = UnsignedWidth[atom]
                  \/ atom \in DOMAIN SignedWidth /\ Len(d) = SignedWidth[atom]
                  => ByteWeight[Len(d)] > 2 * HalfRange
    <3>1. PICK end \in (at + 1)..Len(bytes) : d = SubSeq(bytes, at + 1, end)
      OBVIOUS
    <3> QED
      BY <1>2, <2>1, <3>1, DecodingBreaks
  <2> QED
    BY <2>2, <2>3
<1>5. \A i \in 1..Len(operations) : IsEncoded(bytes', operations'[i])
  BY <1>1, <1>3 DEF DecodingInv
<1>6. (expression = "broken" => Cursor <= Len(bytes))'
  BY <1>1, <1>3
<1> QED
  BY <1>1, <1>2, <1>4, <1>5, <1>6 DEF DecodingInv

LEMMA DecodeEndsStep == ASSUME DecodingInv, DecodeEnds PROVE DecodingInv'
<1>1. /\ expression = "decoding" /\ expression' = "decoded" /\ bytes' = bytes
      /\ Cursor > Len(bytes) /\ operations' = operations
  BY DEF DecodeEnds
<1>2. Cursor = Len(bytes) + 1
  BY <1>1, CursorIs DEF DecodingInv
<1>3. Cursor' = Cursor /\ bytes' = bytes
  BY <1>1 DEF Cursor
<1>4. \A i \in 1..Len(operations) : IsEncoded(bytes', operations'[i])
  BY <1>1, <1>3 DEF DecodingInv
<1>5. BreaksForAReason'
  BY <1>1 DEF BreaksForAReason
<1> QED
  BY <1>1, <1>2, <1>3, <1>4, <1>5 DEF DecodingInv

\* An expression is decoded exactly, as long as it has the bytes of a file.
LEMMA DecodingStep ==
    ASSUME DecodingInv, ExpressionMoves, bytes' \in Seq(Bytes)
    PROVE  DecodingInv'
<1>1. CASE DecodeOperation
  BY <1>1, DecodeOperationStep
<1>2. CASE DecodeFails
  BY <1>2, DecodeFailsStep
<1>3. CASE DecodeEnds
  BY <1>3, DecodeEndsStep
<1>4. CASE Evaluate \/ EvaluateOperation \/ RefuseOperation \/ EvaluationEnds
  BY <1>4, DecodingStays DEF Evaluate, EvaluateOperation, RefuseOperation, EvaluationEnds
<1>5. CASE expression' \in {"none", "decoding"} /\ operations' = <<>>
  BY <1>5 DEF DecodingInv, BreaksForAReason
<1>6. CASE UNCHANGED expressionVars
  BY <1>6, DecodingStays DEF expressionVars
<1> QED
  BY <1>1, <1>2, <1>3, <1>4, <1>5, <1>6 DEF ExpressionMoves, ExpressionStep

-----------------------------------------------------------------------------
(* What is decoded: the locations of DIEs of the file.                     *)

\* The tasks that look at a location, or will
Reading == {"place", "variable", "locate", "relocate", "inherit"}

\* What it reads the location of is a DIE, and so is what follows.
HasDie(t) ==
    /\ t.do \in {"place", "variable", "locate", "relocate"} => t.die \in DOMAIN file.dies
    /\ t.do \in {"inherit", "relocate"} => t.references \in Seq(DOMAIN file.dies)

HaveDies(tasks) == IsList(tasks) /\ \A t \in Range(tasks) : HasDie(t)

\* What the reader reads a location of is a DIE.
LocationsHaveDies == stage = "units" => \A t \in Tasks : HasDie(t)

\* Tasks that have a DIE if they need one, and no variable
Aside(t) == HasDie(t) /\ t.do \notin Variables

AllAside(tasks) == IsList(tasks) /\ \A t \in Range(tasks) : Aside(t)

\* A step begins only such tasks, and what was to be done later still is.
OnlyAside ==
    /\ \A t \in Tasks' : t \in Tasks \/ Aside(t)
    /\ agenda # <<>> => \E tasks : StepOf(tasks)

\* Most tasks read no location and have no variable.
LEMMA OthersAside ==
    ASSUME NEW t, t.do \notin Reading
    PROVE  Aside(t)
BY DEF HasDie, Reading, Aside, Variables

\* Lists of tasks: without any, ...
LEMMA NoneAside == AllAside(<<>>)
BY NoList DEF AllAside

\* ... of one, ...
LEMMA OneAside ==
    ASSUME NEW t, Aside(t)
    PROVE  AllAside(<<t>>)
<1>1. \A q \in Range(<<t>>) : q = t
  BY OneList
<1> QED
  BY <1>1, OneList DEF AllAside

\* ... of two lists, ...
LEMMA BothAside ==
    ASSUME NEW s, AllAside(s), NEW tasks, AllAside(tasks)
    PROVE  AllAside(s \o tasks)
BY Concatenated DEF AllAside

\* ... with one more, ...
LEMMA OneMoreAside ==
    ASSUME NEW s, AllAside(s), NEW t, Aside(t)
    PROVE  AllAside(Append(s, t))
<1>1. IsList(s)
  BY DEF AllAside
<1>2. IsList(Append(s, t)) /\ Range(Append(s, t)) = Range(s) \cup {t}
  BY <1>1, Appended
<1> QED
  BY <1>2 DEF AllAside

\* ... and of one for each of another list
LEMMA ManyAside ==
    ASSUME NEW s, IsList(s), NEW tasks, IsList(tasks), DOMAIN tasks = DOMAIN s,
           \A i \in DOMAIN s : Aside(tasks[i])
    PROVE  AllAside(tasks)
BY DEF AllAside, Range

\* What referenced_type_id begins is aside, ...
LEMMA ReferredAside ==
    ASSUME NEW reference, file' = file
    PROVE  AllAside(Refer(reference))
BY ReferTasks, OthersAside DEF AllAside, Reading

\* ... and so are the tasks of a DIE and of a type of a type unit.
LEMMA ShapesAside ==
    /\ \A d : Aside(Walk(d)) /\ Aside(Ensure(d)) /\ Aside(Ensured(d)) /\ Aside(Record(d))
    /\ \A key : Aside(Materialize(key)) /\ Aside(Follow(key)) /\ Aside(RecordUnit(key))
    /\ Aside(Leave)
    /\ \A d, node, rest : Aside(Children(d, node, rest))
<1>1. \A d, node, rest : Aside(Children(d, node, rest))
  BY DEF HasDie, Children, Aside, Variables
<1> QED
  BY <1>1, Shapes, OthersAside DEF Reading

\* What it means for a step
LEMMA AsideStay ==
    ASSUME WalkInv, NEW tasks, AllAside(tasks), Continue(tasks),
           stage = "units", agenda # <<>>, UNCHANGED <<file, stage, unit>>
    PROVE  OnlyAside
<1>1. StepOf(tasks)
  BY DEF StepOf, AllAside
<1>2. \A t \in Tasks' : t \in Tasks \/ Aside(t)
  BY <1>1, TasksOfStep DEF AllAside
<1> QED
  BY <1>1, <1>2 DEF OnlyAside

\* What is known of the current task
LEMMA CurrentDie ==
    ASSUME WalkInv, LocationsHaveDies, stage = "units", agenda # <<>>
    PROVE  HasDie(Task) /\ IsTask(Task) /\ IsFile(file)
<1>1. IsList(agenda)
  BY DEF WalkInv, WalkUnits, Lists
<1>2. Task \in Tasks
  BY <1>1, FirstAndRest DEF Tasks, Task
<1> QED
  BY <1>2 DEF WalkInv, WalkUnits, TasksAreSound, LocationsHaveDies

\* The steps, one by one
LEMMA WalkDieAside == ASSUME WalkInv, LocationsHaveDies, WalkDie PROVE OnlyAside
<1> DEFINE d        == Task.die
           tag      == Die(d).tag
           children == Die(d).children
           first    == IF tag \in TypeTags THEN <<Record(d)>>
                       ELSE IF tag \in VariableTags
                       THEN <<[do |-> "variable", die |-> d]>> ELSE <<>>
           walks    == [i \in DOMAIN children |-> Walk(children[i])]
           last     == IF tag \in ScopeTags THEN <<Leave>> ELSE <<>>
<1>1. /\ stage = "units" /\ agenda # <<>> /\ Task.do = "walk"
      /\ UNCHANGED <<file, stage, unit>>
      /\ Continue(<<>>) \/ Continue(first \o walks \o last)
  BY DEF WalkDie, Doing, Task, unchangedWalk
<1>2. d \in DOMAIN file.dies /\ children \in Seq(DOMAIN file.dies)
  BY <1>1, CurrentDie DEF IsTask, IsFile, Die
<1>3. AllAside(first)
  <2>1. PICK t : t = [do |-> "variable", die |-> d]
    OBVIOUS
  <2>2. Aside(t)
    BY <1>2, <2>1 DEF HasDie, Aside, Variables
  <2> QED
    BY <2>1, <2>2, ShapesAside, OneAside, NoneAside
<1>4. AllAside(walks)
  <2>1. IsList(children)
    BY <1>2, ListOf
  <2>2. IsList(walks)
    BY <2>1, SamePlaces
  <2> QED
    BY <2>1, <2>2, ShapesAside, ManyAside
<1>5. AllAside(last)
  BY ShapesAside, OneAside, NoneAside
<1> HIDE DEF first, walks, last
<1>6. AllAside(first \o walks \o last)
  BY <1>3, <1>4, <1>5, BothAside
<1> QED
  BY <1>1, <1>6, NoneAside, AsideStay

LEMMA TypesAside ==
    ASSUME WalkInv, LocationsHaveDies,
           LeaveScope \/ EnsureType \/ TypeEnsured \/ RecordedType \/ MaterializeType
               \/ RecordUnitType
    PROVE  OnlyAside
<1>1. /\ stage = "units" /\ agenda # <<>> /\ UNCHANGED <<file, stage, unit>>
  BY DEF LeaveScope, EnsureType, TypeEnsured, RecordedType, MaterializeType,
         RecordUnitType, Doing, Task, unchangedWalk
<1>2. \/ Continue(<<>>)
      \/ Continue(<<Walk(Task.die), Ensured(Task.die)>>)
      \/ Continue(<<Follow(Task.key), RecordUnit(Task.key)>>)
  BY DEF LeaveScope, EnsureType, TypeEnsured, RecordedType, MaterializeType, RecordUnitType
<1>3. ASSUME NEW s, Aside(s), NEW t, Aside(t) PROVE AllAside(<<s, t>>)
  <2>1. <<s, t>> = Append(<<s>>, t)
    OBVIOUS
  <2> QED
    BY <1>3, <2>1, OneAside, OneMoreAside
<1>4. /\ AllAside(<<Walk(Task.die), Ensured(Task.die)>>)
      /\ AllAside(<<Follow(Task.key), RecordUnit(Task.key)>>)
  BY <1>3, ShapesAside
<1> QED
  BY <1>1, <1>2, <1>4, NoneAside, AsideStay

LEMMA RecordTypeAside ==
    ASSUME WalkInv, LocationsHaveDies, RecordType
    PROVE  OnlyAside
<1>1. /\ stage = "units" /\ agenda # <<>> /\ UNCHANGED <<file, stage, unit>>
  BY DEF RecordType, Doing, Task, unchangedWalk
<1>2. PICK unitType, node, reference, children, key :
          /\ unitType = <<>> \/ unitType = <<Materialize(key)>>
          /\ \/ Continue(<<>>) \/ Continue(unitType \o <<>>)
             \/ Continue(unitType \o Append(Refer(reference), Children(Task.die, node, children)))
  BY Zenon DEF RecordType
<1>3. AllAside(unitType)
  BY <1>2, ShapesAside, OneAside, NoneAside
<1>4. AllAside(Append(Refer(reference), Children(Task.die, node, children)))
  BY <1>1, ReferredAside, ShapesAside, OneMoreAside
<1> QED
  BY <1>1, <1>2, <1>3, <1>4, NoneAside, BothAside, AsideStay

LEMMA NextChildAside ==
    ASSUME WalkInv, LocationsHaveDies, NextChild
    PROVE  OnlyAside
<1> DEFINE child == Head(Task.rest)
           rest  == Tail(Task.rest)
           place == Place(child, Task.of, Task.node, rest)
           record == IF Die(child).tag \in ClassTags THEN <<Record(child)>> ELSE <<>>
<1>1. /\ stage = "units" /\ agenda # <<>> /\ UNCHANGED <<file, stage, unit>>
      /\ Task.do = "children" /\ Task.rest # <<>>
      /\ \/ Continue(Append(Refer(Die(child).type), place))
         \/ Continue(Append(record, Children(Task.of, Task.node, rest)))
  BY DEF NextChild, Doing, Task, unchangedWalk
<1>2. Task.rest \in Seq(DOMAIN file.dies)
  BY <1>1, CurrentDie DEF IsTask, Recording
<1>3. child \in DOMAIN file.dies
  BY <1>1, <1>2
<1>4. place.do = "place" /\ place.die = child
  BY DEF Place
<1> HIDE DEF child, rest, place
<1>5. Aside(place)
  BY <1>3, <1>4 DEF HasDie, Aside, Variables
<1>6. AllAside(Append(Refer(Die(child).type), place))
  BY <1>1, <1>5, ReferredAside, OneMoreAside
<1>7. AllAside(record)
  BY ShapesAside, OneAside, NoneAside
<1> HIDE DEF record
<1>8. AllAside(Append(record, Children(Task.of, Task.node, rest)))
  BY <1>7, ShapesAside, OneMoreAside
<1> QED
  BY <1>1, <1>6, <1>8, AsideStay

LEMMA PlaceMemberAside ==
    ASSUME WalkInv, LocationsHaveDies, PlaceMember
    PROVE  OnlyAside
<1>1. /\ stage = "units" /\ agenda # <<>> /\ UNCHANGED <<file, stage, unit>>
      /\ \E node : Continue(<<Children(Task.of, node, Task.rest)>>)
  BY DEF PlaceMember, Doing, Task, unchangedWalk
<1> QED
  BY <1>1, ShapesAside, OneAside, AsideStay

LEMMA FollowReferencesAside ==
    ASSUME WalkInv, LocationsHaveDies, FollowReferences
    PROVE  OnlyAside
<1> DEFINE type  == UnitTypes[Task.key]
           keys  == ReferredKeys(type)
           begin == [i \in DOMAIN keys |-> Materialize(keys[i])]
           others == [i \in DOMAIN type.nested |-> Follow(type.nested[i])]
<1>1. /\ stage = "units" /\ agenda # <<>> /\ UNCHANGED <<file, stage, unit>>
      /\ Task.do = "references" /\ Continue(begin \o others)
  BY DEF FollowReferences, Doing, Task, unchangedWalk
<1>2. Task.key \in DOMAIN UnitTypes
  BY <1>1, CurrentDie DEF IsTask
<1>3. /\ IsList(keys) /\ IsList(type.nested)
  <2>1. IsFile(file)
    BY <1>1, CurrentDie
  <2>2. IsList(keys)
    BY <1>2, <2>1, ReferredParts
  <2>3. PICK S : S = DOMAIN UnitTypes
    OBVIOUS
  <2>4. type.nested \in Seq(S)
    BY <1>2, <2>1, <2>3, UnitTypesAre
  <2> QED
    BY <2>2, <2>4, ListOf
<1>4. IsList(begin) /\ IsList(others)
  BY <1>3, SamePlaces
<1>5. AllAside(begin) /\ AllAside(others)
  BY <1>3, <1>4, ShapesAside, ManyAside
<1> HIDE DEF begin, others
<1> QED
  BY <1>1, <1>5, BothAside, AsideStay

LEMMA StoreVariableAside ==
    ASSUME WalkInv, LocationsHaveDies, StoreVariable
    PROVE  OnlyAside
<1>1. /\ stage = "units" /\ agenda # <<>> /\ UNCHANGED <<file, stage, unit>>
      /\ Continue(<<>>)
  BY DEF StoreVariable, Doing, Task, unchangedWalk
<1> QED
  BY <1>1, NoneAside, AsideStay

LEMMA NextUnitAside ==
    ASSUME WalkInv, LocationsHaveDies, NextUnit
    PROVE  OnlyAside
<1>1. agenda = <<>> /\ (agenda' = agenda \/ \E d : agenda' = <<Walk(d)>>)
  BY DEF NextUnit
<1>2. CASE agenda' = agenda
  BY <1>1, <1>2 DEF OnlyAside, Tasks
<1>3. CASE \E d : agenda' = <<Walk(d)>>
  <2>1. PICK d : agenda' = <<Walk(d)>>
    BY <1>3
  <2>2. Tasks' = {Walk(d)}
    BY <2>1, OneList DEF Tasks
  <2> QED
    BY <1>1, <2>2, ShapesAside DEF OnlyAside
<1> QED
  BY <1>1, <1>2, <1>3

\* The steps of the walk between the locations of variables
WalksOn ==
    \/ NextUnit \/ WalkDie \/ LeaveScope \/ EnsureType \/ TypeEnsured \/ RecordedType
    \/ MaterializeType \/ RecordUnitType \/ RecordType \/ NextChild \/ PlaceMember
    \/ FollowReferences \/ StoreVariable

LEMMA WalkingAside ==
    ASSUME WalkInv, LocationsHaveDies, WalksOn
    PROVE  OnlyAside /\ stage = "units" /\ stage' = stage /\ file' = file
<1>1. OnlyAside
  BY NextUnitAside, WalkDieAside, TypesAside, RecordTypeAside, NextChildAside,
     PlaceMemberAside, FollowReferencesAside, StoreVariableAside DEF WalksOn
<1>2. stage = "units" /\ stage' = stage /\ file' = file
  BY DEF WalksOn, NextUnit, WalkDie, LeaveScope, EnsureType, TypeEnsured, RecordedType,
         MaterializeType, RecordUnitType, RecordType, NextChild, PlaceMember,
         FollowReferences, StoreVariable, Doing, unchangedWalk
<1> QED
  BY <1>1, <1>2

\* For the steps of a variable: lists of one and of two
LEMMA OneHasDies ==
    ASSUME NEW t, HasDie(t)
    PROVE  HaveDies(<<t>>)
BY OneList DEF HaveDies

LEMMA BothHaveDies ==
    ASSUME NEW s, HaveDies(s), NEW tasks, HaveDies(tasks)
    PROVE  HaveDies(s \o tasks)
BY Concatenated DEF HaveDies

LEMMA AsideHaveDies ==
    ASSUME NEW tasks, AllAside(tasks)
    PROVE  HaveDies(tasks)
BY DEF AllAside, Aside, HaveDies

\* A step keeps it if its tasks have DIEs.
LEMMA DiesStay ==
    ASSUME WalkInv, LocationsHaveDies, NEW tasks, HaveDies(tasks), Continue(tasks),
           stage = "units", agenda # <<>>, UNCHANGED <<file, stage, unit>>
    PROVE  LocationsHaveDies'
<1>1. StepOf(tasks)
  BY DEF StepOf, HaveDies
<1>2. /\ Tasks' = Range(tasks) \cup Range(Tail(agenda))
      /\ Tasks = {Task} \cup Range(Tail(agenda))
  BY <1>1, TasksOfStep
<1>3. \A t \in Range(tasks) \cup Range(Tail(agenda)) : HasDie(t)
  BY <1>2 DEF LocationsHaveDies, HaveDies
<1>4. \A t : HasDie(t) => HasDie(t)'
  BY DEF HasDie
<1> QED
  BY <1>2, <1>3, <1>4 DEF LocationsHaveDies

\* What is aside has a DIE.
LEMMA AsideKnows ==
    ASSUME LocationsHaveDies, OnlyAside, stage = "units", file' = file
    PROVE  LocationsHaveDies'
BY DEF LocationsHaveDies, OnlyAside, Aside, HasDie

LEMMA BeginVariableKnows ==
    ASSUME WalkInv, LocationsHaveDies, BeginVariable
    PROVE  LocationsHaveDies'
<1>1. /\ stage = "units" /\ agenda # <<>> /\ UNCHANGED <<file, stage, unit>>
      /\ Task.do = "variable"
  BY DEF BeginVariable, Doing, Task, unchangedWalk
<1>2. PICK reference, v :
          \/ Continue(<<>>)
          \/ Continue(Refer(reference) \o
                        <<[do |-> "locate", die |-> Task.die, variable |-> v]>>)
  BY DEF BeginVariable
<1>3. PICK t : t = [do |-> "locate", die |-> Task.die, variable |-> v]
  OBVIOUS
<1>4. HasDie(t)
  BY <1>1, <1>3, CurrentDie DEF HasDie
<1>5. HaveDies(Refer(reference) \o <<t>>)
  BY <1>1, <1>4, ReferredAside, AsideHaveDies, OneHasDies, BothHaveDies
<1> QED
  BY <1>1, <1>2, <1>3, <1>5, NoneAside, AsideHaveDies, DiesStay

\* What a variable inherits from are DIEs.
LEMMA ReferencesAreDies ==
    ASSUME IsFile(file), NEW d \in DOMAIN file.dies
    PROVE  References(d) \in Seq(DOMAIN file.dies)
<1>1. /\ Die(d).specification \in DOMAIN file.dies \cup {Nowhere}
      /\ Die(d).origin \in DOMAIN file.dies \cup {Nowhere}
  BY DEF IsFile, Die
<1>2. PICK S, specification, origin :
          S = DOMAIN file.dies /\ specification = Die(d).specification /\ origin = Die(d).origin
  OBVIOUS
<1>3. References(d) = (IF specification = Nowhere THEN <<>> ELSE <<specification>>) \o
                      (IF origin = Nowhere THEN <<>> ELSE <<origin>>)
  BY <1>2 DEF References
<1>4. specification \in S \cup {Nowhere} /\ origin \in S \cup {Nowhere}
  BY <1>1, <1>2
<1>5. References(d) \in Seq(S)
  BY <1>3, <1>4
<1> QED
  BY <1>2, <1>5

LEMMA LocateVariableKnows ==
    ASSUME WalkInv, LocationsHaveDies, LocateVariable
    PROVE  LocationsHaveDies'
<1>1. /\ stage = "units" /\ agenda # <<>> /\ UNCHANGED <<file, stage, unit>>
      /\ Task.do = "locate" /\ \E v : Continue(<<Inherit(v, References(Task.die))>>)
  BY DEF LocateVariable, Doing, Task, unchangedWalk
<1>2. PICK v : Continue(<<Inherit(v, References(Task.die))>>)
  BY <1>1
<1>3. References(Task.die) \in Seq(DOMAIN file.dies)
  BY <1>1, CurrentDie, ReferencesAreDies DEF HasDie
<1>4. HasDie(Inherit(v, References(Task.die)))
  BY <1>3 DEF HasDie, Inherit
<1> QED
  BY <1>1, <1>2, <1>4, OneHasDies, DiesStay

LEMMA InheritNameKnows ==
    ASSUME WalkInv, LocationsHaveDies, InheritName
    PROVE  LocationsHaveDies'
<1> DEFINE r == Head(Task.references)
           rest == Tail(Task.references)
           Relocate(v) == [do |-> "relocate", variable |-> v, die |-> r, references |-> rest]
<1>1. /\ stage = "units" /\ agenda # <<>> /\ UNCHANGED <<file, stage, unit>>
      /\ Task.do = "inherit" /\ Task.references # <<>>
  BY DEF InheritName, Doing, Task, unchangedWalk
<1>2. \E v : Continue(<<Relocate(v)>>) \/ Continue(Refer(Die(r).type) \o <<Relocate(v)>>)
  BY DEF InheritName
<1>3. Task.references \in Seq(DOMAIN file.dies)
  BY <1>1, CurrentDie DEF HasDie
<1>4. r \in DOMAIN file.dies /\ rest \in Seq(DOMAIN file.dies)
  <2>1. PICK list, S : list = Task.references /\ S = DOMAIN file.dies
    OBVIOUS
  <2>2. list \in Seq(S) /\ list # <<>>
    BY <1>1, <1>3, <2>1
  <2>3. Head(list) \in S /\ Tail(list) \in Seq(S)
    BY <2>2
  <2> QED
    BY <2>1, <2>3
<1> HIDE DEF r, rest
<1>5. \A v : HasDie(Relocate(v))
  BY <1>4 DEF HasDie
<1> HIDE DEF Relocate
<1>6. PICK v : Continue(<<Relocate(v)>>) \/ Continue(Refer(Die(r).type) \o <<Relocate(v)>>)
  BY <1>2
<1>7. HaveDies(<<Relocate(v)>>)
  BY <1>5, OneHasDies
<1>8. HaveDies(Refer(Die(r).type) \o <<Relocate(v)>>)
  BY <1>1, <1>7, ReferredAside, AsideHaveDies, BothHaveDies
<1> QED
  BY <1>1, <1>6, <1>7, <1>8, DiesStay

LEMMA InheritLocationKnows ==
    ASSUME WalkInv, LocationsHaveDies, InheritLocation
    PROVE  LocationsHaveDies'
<1>1. /\ stage = "units" /\ agenda # <<>> /\ UNCHANGED <<file, stage, unit>>
      /\ Task.do = "relocate" /\ \E v : Continue(<<Inherit(v, Task.references)>>)
  BY DEF InheritLocation, Doing, Task, unchangedWalk
<1>2. PICK v : Continue(<<Inherit(v, Task.references)>>)
  BY <1>1
<1>3. Task.references \in Seq(DOMAIN file.dies)
  BY <1>1, CurrentDie DEF HasDie
<1>4. HasDie(Inherit(v, Task.references))
  BY <1>3 DEF HasDie, Inherit
<1> QED
  BY <1>1, <1>2, <1>4, OneHasDies, DiesStay

\* Every step of the reader
LEMMA LocationsSteps ==
    ASSUME WalkInv, LocationsHaveDies, [ReaderNext]_<<readerVars, expressionVars>>
    PROVE  LocationsHaveDies'
<1>1. CASE WalksOn
  BY <1>1, WalkingAside, AsideKnows
<1>2. CASE BeginVariable
  BY <1>2, BeginVariableKnows
<1>3. CASE LocateVariable
  BY <1>3, LocateVariableKnows
<1>4. CASE InheritName
  BY <1>4, InheritNameKnows
<1>5. CASE InheritLocation
  BY <1>5, InheritLocationKnows
<1>6. CASE UNCHANGED readerVars
  BY <1>6 DEF LocationsHaveDies, HasDie, Tasks, readerVars
<1>7. CASE EndWalk \/ ApplySymbols \/ Deduplicate \/ PruneLocals \/ PrunePlaceholders
  BY <1>7 DEF LocationsHaveDies, EndWalk, ApplySymbols, Deduplicate, PruneLocals,
              PrunePlaceholders, Pass
<1> QED
  BY <1>1, <1>2, <1>3, <1>4, <1>5, <1>6, <1>7
  DEF ReaderNext, WalksOn, StartExpression, StepExpression

\* What is decoded are the bytes of the file.
LEMMA BytesStay ==
    ASSUME WalkInv, LocationsHaveDies, bytes \in Seq(Bytes),
           [ReaderNext]_<<readerVars, expressionVars>>
    PROVE  bytes' \in Seq(Bytes)
<1>1. CASE StartExpression
  <2>1. /\ stage = "units" /\ agenda # <<>>
        /\ Task.do \in {"place", "locate", "relocate"}
        /\ Die(Task.die).location.form = "expression"
        /\ bytes' = Die(Task.die).location.bytes
    BY <1>1 DEF StartExpression, Begin, Doing, Task
  <2>2. Task.die \in DOMAIN file.dies /\ IsFile(file)
    BY <2>1, CurrentDie DEF HasDie
  <2> QED
    BY <2>1, <2>2 DEF IsFile, Die
<1>2. CASE StepExpression
  <2>1. bytes' = bytes
    BY <1>2 DEF StepExpression, ExpressionStep, DecodeOperation, DecodeFails, DecodeEnds,
                Evaluate, EvaluateOperation, RefuseOperation, EvaluationEnds
  <2> QED
    BY <2>1
<1>3. CASE PlaceMember \/ LocateVariable \/ InheritLocation
  <2>1. bytes' = <<>>
    BY <1>3 DEF PlaceMember, LocateVariable, InheritLocation, Close
  <2> QED
    BY <2>1
<1>4. CASE UNCHANGED expressionVars
  BY <1>4 DEF expressionVars
<1>5. ASSUME NextUnit \/ WalkDie \/ LeaveScope \/ EnsureType \/ TypeEnsured \/ RecordType
             \/ NextChild \/ RecordedType \/ MaterializeType \/ FollowReferences
             \/ RecordUnitType
      PROVE  UNCHANGED expressionVars
  BY <1>5 DEF NextUnit, WalkDie, LeaveScope, EnsureType, TypeEnsured, RecordType, NextChild,
              RecordedType, MaterializeType, FollowReferences, RecordUnitType
<1>6. ASSUME BeginVariable \/ InheritName \/ StoreVariable \/ EndWalk \/ ApplySymbols
             \/ Deduplicate \/ PruneLocals \/ PrunePlaceholders
      PROVE  UNCHANGED expressionVars
  BY <1>6 DEF BeginVariable, InheritName, StoreVariable, EndWalk, ApplySymbols, Deduplicate,
              PruneLocals, PrunePlaceholders, Pass
<1> QED
  BY <1>1, <1>2, <1>3, <1>4, <1>5, <1>6 DEF ReaderNext

-----------------------------------------------------------------------------
(* The theorems.                                                           *)

\* The invariant of the reading
ReadingInv == WalkInv /\ LocationsHaveDies /\ DecodingInv

LEMMA ReadingInitially == ASSUME ReaderInit PROVE ReadingInv
<1>1. WalkInv
  BY WalkInitially
<1>2. LocationsHaveDies
  BY NoList DEF ReaderInit, LocationsHaveDies, Tasks
<1>3. DecodingInv
  BY DEF ReaderInit, ExpressionInit, DecodingInv, BreaksForAReason
<1> QED
  BY <1>1, <1>2, <1>3 DEF ReadingInv

LEMMA ReadingSteps ==
    ASSUME ReadingInv, [ReaderNext]_<<readerVars, expressionVars>>
    PROVE  ReadingInv'
<1>1. WalkInv /\ LocationsHaveDies /\ DecodingInv /\ bytes \in Seq(Bytes)
  BY DEF ReadingInv, DecodingInv
<1>2. WalkInv' /\ LocationsHaveDies' /\ bytes' \in Seq(Bytes)
  BY <1>1, WalkSteps, LocationsSteps, BytesStay
<1>3. ExpressionMoves
  BY ReaderMovesExpressions DEF ExpressionMoves
<1>4. DecodingInv'
  BY <1>1, <1>2, <1>3, DecodingStep
<1> QED
  BY <1>2, <1>4 DEF ReadingInv

LEMMA ReaderReadingInv == ReaderSpec => []ReadingInv
BY ReadingInitially, ReadingSteps, PTL DEF ReaderSpec

\* The operations of every expression are ones the evaluation can take.
LEMMA ReaderEvaluationInv == ReaderSpec => []EvaluationInv
<1>1. ReaderInit => EvaluationInv
  BY InitiallySound DEF ReaderInit
<1>2. OperandsFit /\ EvaluationInv /\ [ReaderNext]_<<readerVars, expressionVars>>
          => EvaluationInv'
  <2> SUFFICES ASSUME OperandsFit, EvaluationInv,
                      [ReaderNext]_<<readerVars, expressionVars>>
               PROVE  EvaluationInv'
    OBVIOUS
  <2>1. ExpressionMoves
    BY ReaderMovesExpressions DEF ExpressionMoves
  <2> QED
    BY <2>1, StepStaysSound
<1>3. ReadingInv => OperandsFit
  BY DEF ReadingInv, DecodingInv, OperandsFit
<1> QED
  BY <1>1, <1>2, <1>3, ReaderReadingInv, PTL DEF ReaderSpec

\* The stack of limited words follows the evaluation without limits: no
\* constant wraps around, and no address of the object is cancelled or
\* counted twice, in evaluate_data_member_location.
THEOREM StackAlwaysExact ==
    ReaderSpec => []StackIsExact
<1>1. EvaluationInv => StackIsExact
  BY DEF EvaluationInv, StackIsExact, Holds
<1> QED
  BY <1>1, ReaderEvaluationInv, PTL

\* The offset of a member or a base is what its expression denotes.
THEOREM OffsetAlwaysExact ==
    ReaderSpec => []OffsetIsExact
<1>1. EvaluationInv => OffsetIsExact
  BY DEF EvaluationInv
<1> QED
  BY <1>1, ReaderEvaluationInv, PTL

\* What is refused has an operation that is not understood, no operands, a
\* value that a word cannot hold, or no place in the object for its answer.
THEOREM AlwaysRefusesForAReason ==
    ReaderSpec => []RefusesForAReason
<1>1. EvaluationInv => RefusesForAReason
  BY DEF EvaluationInv
<1> QED
  BY <1>1, ReaderEvaluationInv, PTL

\* The operations that decode_dwarf_expression returns lie one behind the
\* other over all the bytes of the expression, and the operands are the
\* numbers that their bytes encode, of every size and sign.
THEOREM OperandsAlwaysExact == ReaderSpec => []OperandsAreExact
<1>1. ReadingInv => OperandsAreExact
  BY DecodingExact DEF ReadingInv
<1> QED
  BY <1>1, ReaderReadingInv, PTL

\* It gives up an expression only for an opcode it does not know, or a number
\* that is cut off, does not fit into a word or has more groups than it
\* needs.
THEOREM BreaksAlwaysForAReason == ReaderSpec => []BreaksForAReason
<1>1. ReadingInv => BreaksForAReason
  BY DEF ReadingInv, DecodingInv
<1> QED
  BY <1>1, ReaderReadingInv, PTL

-----------------------------------------------------------------------------
(* What the evaluator's variables are.                                     *)

EvaluatorTypes ==
    /\ expression \in {"none", "decoding", "broken", "decoded", "evaluating",
                       "refused", "evaluated"}
    /\ expression \in {"none", "decoding", "broken", "decoded"} => position = 1
    /\ position \in 1..(Len(operations) + 1)
    /\ stack \in Seq(SymbolicValues) /\ exact \in Seq(ExactValues)
    /\ offset \in Signed

\* An operation that has its operands leaves exact values.
LEMMA AppliedIsExact ==
    ASSUME exact \in Seq(ExactValues), NEW op \in OperationRecords, Applies(op)
    PROVE  ExactAfter(op) \in Seq(ExactValues)
<1> DEFINE top    == exact[Len(exact)]
           second == exact[Len(exact) - 1]
           constant == IF op.atom \in SignedConstants THEN AsSigned(op.operand1)
                       ELSE op.operand1
<1>1. /\ Len(exact) \in Nat /\ constant \in Int
      /\ exact # <<>> => Len(exact) >= 1
  <2>1. op.operand1 \in Int /\ AsSigned(op.operand1) \in Int
    BY RangeAssumption DEF OperationRecords, Unsigned, MaxAddress, AsSigned
  <2> QED
    BY <2>1
<1>2. /\ Len(exact) >= 1 => top \in ExactValues
      /\ Len(exact) >= 2 => second \in ExactValues
  BY <1>1
<1> HIDE DEF top, second, constant
<1>3. \A v \in ExactValues : v.base \in Int /\ v.constant \in Int
  BY DEF ExactValues
<1>4. \A b, c \in Int : Symbolic(b, c) \in ExactValues
  BY DEF Symbolic, ExactValues
<1>5. CASE op.atom \in Pushing
  <2>1. ExactAfter(op) = Append(exact, Symbolic(0, constant))
    <3>1. op.atom \notin {"plus_uconst", "plus", "minus", "nop"}
      BY <1>5 DEF Pushing, UnsignedConstants, SignedConstants
    <3> QED
      BY <1>5, <3>1 DEF ExactAfter, constant
  <2> QED
    BY <1>1, <1>4, <2>1, AppendProperties
<1>6. CASE op.atom = "plus_uconst"
  <2> DEFINE v == Symbolic(top.base, top.constant + constant)
  <2>1. Len(exact) >= 1
    BY <1>1, <1>6 DEF Applies
  <2>2. v \in ExactValues
    BY <1>1, <1>2, <1>3, <1>4, <2>1
  <2>3. ExactAfter(op) = Append(SubSeq(exact, 1, Len(exact) - 1), v)
    BY <1>6 DEF ExactAfter, Pushing, UnsignedConstants, SignedConstants, top, constant
  <2> HIDE DEF v
  <2> QED
    BY <2>1, <2>2, <2>3, ReplaceTop
<1>7. CASE op.atom = "plus"
  <2> DEFINE v == Symbolic(second.base + top.base, second.constant + top.constant)
  <2>1. Len(exact) >= 2
    BY <1>7 DEF Applies, Combining
  <2>2. v \in ExactValues
    BY <1>1, <1>2, <1>3, <1>4, <2>1
  <2>3. ExactAfter(op) = Append(SubSeq(exact, 1, Len(exact) - 2), v)
    BY <1>7 DEF ExactAfter, Pushing, UnsignedConstants, SignedConstants, top, second
  <2> HIDE DEF v
  <2> QED
    BY <2>1, <2>2, <2>3, ReplaceTop
<1>8. CASE op.atom = "minus"
  <2> DEFINE v == Symbolic(second.base - top.base, second.constant - top.constant)
  <2>1. Len(exact) >= 2
    BY <1>8 DEF Applies, Combining
  <2>2. v \in ExactValues
    BY <1>1, <1>2, <1>3, <1>4, <2>1
  <2>3. ExactAfter(op) = Append(SubSeq(exact, 1, Len(exact) - 2), v)
    BY <1>8 DEF ExactAfter, Pushing, UnsignedConstants, SignedConstants, top, second
  <2> HIDE DEF v
  <2> QED
    BY <2>1, <2>2, <2>3, ReplaceTop
<1>9. CASE op.atom = "nop"
  BY <1>9 DEF ExactAfter, Pushing, UnsignedConstants, SignedConstants
<1> QED
  BY <1>5, <1>6, <1>7, <1>8, <1>9 DEF Applies, Understood, Combining

LEMMA EvaluatorStep ==
    ASSUME OperandsFit, EvaluationInv, EvaluatorTypes, ExpressionMoves
    PROVE  EvaluatorTypes'
<1>0. Len(operations) \in Nat /\ position \in Nat \ {0} /\ 0 \in Signed
  BY RangeAssumption DEF OperandsFit, EvaluatorTypes, Signed
<1>1. CASE DecodeOperation
  <2>1. /\ operations' = Append(operations, OperationAt(Cursor))
        /\ expression = "decoding" /\ expression' = "decoding"
        /\ UNCHANGED <<stack, position, offset, exact>>
    BY <1>1 DEF DecodeOperation
  <2>2. Len(operations') = Len(operations) + 1
    BY <2>1 DEF OperandsFit
  <2> QED
    BY <1>0, <2>1, <2>2 DEF EvaluatorTypes
<1>2. CASE DecodeFails \/ DecodeEnds
  BY <1>2 DEF DecodeFails, DecodeEnds, EvaluatorTypes
<1>3. CASE Evaluate
  <2>1. /\ expression' = "evaluating" /\ operations' = operations /\ offset' = offset
        /\ stack' = <<Symbolic(TRUE, 0)>> /\ exact' = <<Symbolic(1, 0)>> /\ position' = 1
    BY <1>3 DEF Evaluate
  <2>2. Symbolic(TRUE, 0) \in SymbolicValues /\ Symbolic(1, 0) \in ExactValues
    BY <1>0 DEF Symbolic, SymbolicValues, ExactValues
  <2>3. \A S : \A v \in S : <<v>> \in Seq(S)
    OBVIOUS
  <2>4. stack' \in Seq(SymbolicValues) /\ exact' \in Seq(ExactValues)
    BY <2>1, <2>2, <2>3
  <2>5. Len(operations') = Len(operations) /\ offset' \in Signed
    BY <2>1 DEF EvaluatorTypes
  <2>6. position' \in 1..(Len(operations') + 1)
    BY <1>0, <2>1, <2>5
  <2> QED
    BY <2>1, <2>4, <2>5, <2>6 DEF EvaluatorTypes
<1>4. ASSUME expression = "evaluating", position <= Len(operations)
      PROVE  Operation \in OperationRecords
  BY <1>0, <1>4 DEF OperandsFit, Operation
<1>5. CASE EvaluateOperation
  <2>1. /\ expression = "evaluating" /\ expression' = "evaluating"
        /\ position <= Len(operations) /\ position' = position + 1
        /\ operations' = operations /\ offset' = offset
    BY <1>5 DEF EvaluateOperation
  <2>2. EvaluationInv'
    BY StepStaysSound
  <2>3. Holds(stack', exact')
    BY <2>1, <2>2 DEF EvaluationInv
  <2> QED
    BY <1>0, <2>1, <2>3 DEF EvaluatorTypes, Holds
<1>6. CASE RefuseOperation
  <2>1. /\ expression = "evaluating" /\ expression' = "refused"
        /\ position <= Len(operations) /\ UNCHANGED <<operations, stack, position, offset>>
        /\ exact' = IF Applies(Operation) THEN ExactAfter(Operation) ELSE exact
    BY <1>6 DEF RefuseOperation
  <2>2. exact' \in Seq(ExactValues)
    BY <1>4, <2>1, AppliedIsExact DEF EvaluatorTypes
  <2> QED
    BY <2>1, <2>2 DEF EvaluatorTypes
<1>7. CASE EvaluationEnds
  <2>1. /\ expression = "evaluating" /\ expression' \in {"refused", "evaluated"}
        /\ UNCHANGED <<operations, stack, position, exact>>
        /\ \/ offset' = offset
           \/ Len(stack) = 1 /\ offset' = stack[1].constant
    BY <1>7 DEF EvaluationEnds
  <2>2. Len(stack) = 1 => stack[1] \in SymbolicValues
    <3>1. \A S : \A s \in Seq(S) : Len(s) = 1 => s[1] \in S
      OBVIOUS
    <3> QED
      BY <3>1 DEF EvaluatorTypes
  <2>3. offset' \in Signed
    BY <2>1, <2>2 DEF EvaluatorTypes, SymbolicValues
  <2> QED
    BY <2>1, <2>3 DEF EvaluatorTypes
<1>8. ASSUME expression' \in {"none", "decoding"}, operations' = <<>>,
             \/ expression = "none" /\ UNCHANGED <<stack, position, offset, exact>>
             \/ stack' = <<>> /\ exact' = <<>> /\ position' = 1 /\ offset' = 0
      PROVE  EvaluatorTypes'
  <2>1. position' = 1 /\ Len(operations') = 0
    BY <1>8 DEF EvaluatorTypes
  <2>2. /\ stack' \in Seq(SymbolicValues) /\ exact' \in Seq(ExactValues)
        /\ offset' \in Signed
    BY <1>0, <1>8, EmptySeq DEF EvaluatorTypes
  <2> QED
    BY <1>8, <2>1, <2>2 DEF EvaluatorTypes
<1>9. CASE UNCHANGED expressionVars
  BY <1>9 DEF EvaluatorTypes, expressionVars
<1> QED
  BY <1>1, <1>2, <1>3, <1>5, <1>6, <1>7, <1>8, <1>9 DEF ExpressionMoves, ExpressionStep

LEMMA ReaderEvaluatorTypes == ReaderSpec => []EvaluatorTypes
<1>1. ReaderInit => EvaluatorTypes
  <2> SUFFICES ASSUME ReaderInit PROVE EvaluatorTypes
    OBVIOUS
  <2>1. /\ expression = "none" /\ position = 1 /\ operations = <<>> /\ stack = <<>>
        /\ exact = <<>> /\ offset = 0
    BY DEF ReaderInit, ExpressionInit
  <2>2. 0 \in Signed /\ Len(operations) = 0
    BY <2>1, RangeAssumption DEF Signed
  <2>3. stack \in Seq(SymbolicValues) /\ exact \in Seq(ExactValues)
    BY <2>1, EmptySeq
  <2> QED
    BY <2>1, <2>2, <2>3 DEF EvaluatorTypes
<1>2. OperandsFit /\ EvaluationInv /\ EvaluatorTypes
          /\ [ReaderNext]_<<readerVars, expressionVars>> => EvaluatorTypes'
  <2> SUFFICES ASSUME OperandsFit, EvaluationInv, EvaluatorTypes,
                      [ReaderNext]_<<readerVars, expressionVars>>
               PROVE  EvaluatorTypes'
    OBVIOUS
  <2>1. ExpressionMoves
    BY ReaderMovesExpressions DEF ExpressionMoves
  <2> QED
    BY <2>1, EvaluatorStep
<1>3. ReadingInv => OperandsFit
  BY DEF ReadingInv, DecodingInv, OperandsFit
<1> QED
  BY <1>1, <1>2, <1>3, ReaderReadingInv, ReaderEvaluationInv, PTL DEF ReaderSpec

LEMMA TypesOfExpressions ==
    ASSUME DecodingInv, EvaluatorTypes
    PROVE  ExpressionTypeOK
<1>1. operations \in Seq(OperationRecords)
  BY DEF DecodingInv
<1>2. \A i \in DOMAIN operations : operations[i] \in OperationRecords
  BY <1>1
<1> QED
  BY <1>2 DEF ExpressionTypeOK, EvaluatorTypes, DecodingInv, OperationRecords,
              SymbolicValues, ExactValues
=============================================================================

-------------------------- MODULE DwarfExpression --------------------------
(***************************************************************************)
(* Location expressions of DWARF (src/elf/dwarf_expression.cc): the bytes  *)
(* are decoded one operation at a time, and those that say where a member  *)
(* lies in its object are evaluated on a stack of symbolic values, the     *)
(* unknown address of the object with a constant added.                    *)
(*                                                                         *)
(* A byte carries a group of bits of a LEB128 number and the flag that     *)
(* another one follows.  HalfRange (2^63 in the code) is what the lowest   *)
(* bit of the last group stands for that a number may have.                *)
(***************************************************************************)
EXTENDS Arithmetic, Sequences, SequencesExt, FiniteSets

CONSTANTS
    SignBit,       \* the highest bit of a group: 0x40
    Groups,        \* that a LEB128 number may have: 10
    AddressSize,   \* current_address_size, in bytes
    OffsetSize,    \* current_offset_size, in bytes
    Opcodes,       \* a byte's operation: its atom and the number in it, as
                   \* of DW_OP_lit3 (0 where there is none)
    Expressions    \* the sequences of bytes found in the file

Payloads  == 2 * SignBit   \* the numbers of a group, and the flag
ByteRange == 2 * Payloads
Bytes     == 0..(ByteRange - 1)

\* What a group or a byte with n others below it is to be multiplied with:
\* the shifts by 7 n and by 8 n.
GroupWeight[n \in Nat] == IF n = 0 THEN 1 ELSE Payloads * GroupWeight[n - 1]
ByteWeight[n \in Nat]  == IF n = 0 THEN 1 ELSE ByteRange * ByteWeight[n - 1]

\* The operations by their operands; those of fixed width, with the width.
UnsignedWidth == [addr |-> AddressSize, const1u |-> 1, const2u |-> 2,
                  const4u |-> 4, const8u |-> 8, deref_size |-> 1,
                  xderef_size |-> 1, pick |-> 1, call4 |-> 4,
                  call_ref |-> OffsetSize]
SignedWidth   == [const1s |-> 1, const2s |-> 2, const4s |-> 4, const8s |-> 8,
                  bra |-> 2, skip |-> 2, call2 |-> 2]

UlebOperand == {"constu", "plus_uconst", "regx", "piece", "addrx", "constx",
                "GNU_addr_index"}
SlebOperand == {"consts", "fbreg"}
BlockOperand == {"implicit_value", "entry_value"}
NoOperand   == {"lit", "reg", "plus", "minus", "nop", "stack_value",
                "call_frame_cfa", "form_tls_address", "deref", "mul"}
TwoOperands == {"breg", "bregx", "bit_piece"}

AtomNames == UNION {DOMAIN UnsignedWidth, DOMAIN SignedWidth, UlebOperand,
                SlebOperand, BlockOperand, NoOperand, TwoOperands}

ASSUME ExpressionAssumption ==
    /\ SignBit \in Nat \ {0}
    /\ Groups \in Nat \ {0}
    /\ GroupWeight[Groups - 1] = HalfRange
    /\ AddressSize \in Nat \ {0} /\ ByteWeight[AddressSize] <= 2 * HalfRange
    /\ OffsetSize \in Nat
    /\ DOMAIN Opcodes \subseteq Bytes
    /\ \A byte \in DOMAIN Opcodes :
           /\ Opcodes[byte].atom \in AtomNames
           /\ Opcodes[byte].number \in 0..(HalfRange - 1)
    /\ Expressions \subseteq Seq(Bytes)

VARIABLES
    bytes,       \* what the cursor reads
    operations,  \* decoded so far, each with the bytes it was read from
    expression,  \* "none", "decoding", "broken", "decoded", "evaluating",
                 \* "refused" or "evaluated"
    stack,       \* of SymbolicValue
    position,    \* of the operation that is evaluated next
    offset,      \* evaluate_data_member_location's answer, when "evaluated"
    exact        \* history: the stack of an evaluator whose numbers have no
                 \* limits and which counts the objects' addresses in a value

expressionVars == <<bytes, operations, expression, stack, position, offset,
                    exact>>

-----------------------------------------------------------------------------
(* Numbers.  Each read returns the value and the place after it, or        *)
(* Nothing.                                                                *)

Nothing == [value |-> Absent, next |-> 0]

Payload(byte) == byte % Payloads
Follows(byte) == byte >= Payloads

\* One round of the loop of read_uleb128 and read_sleb128; shift counts the
\* groups so far.  Only the last payload may be too large, and last says
\* which ones are not.
Round(number, byte, last) ==
    IF number.state # "more" THEN number
    ELSE IF number.shift = Groups - 1 /\ Payload(byte) \notin last
    THEN [number EXCEPT !.state = "overflow"]
    ELSE [state |-> IF Follows(byte) THEN "more" ELSE "read",
          value |-> number.value + Wrap(Payload(byte) * GroupWeight[number.shift]),
          shift |-> number.shift + 1,
          byte  |-> byte]

ReadGroups(at, last) ==
    LET end == IF at + Groups - 1 < Len(bytes) THEN at + Groups - 1
               ELSE Len(bytes)
    IN  FoldLeft(LAMBDA number, byte : Round(number, byte, last),
                 [state |-> "more", value |-> 0, shift |-> 0, byte |-> 0],
                 SubSeq(bytes, at, end))

\* Mutant: the last group may have any bits, and those above are lost.
ReadUlebUnchecked(at) ==
    LET number == ReadGroups(at, 0..(Payloads - 1))
    IN  IF number.state = "read"
        THEN [value |-> Wrap(number.value), next |-> at + number.shift]
        ELSE Nothing

ReadUleb(at) ==
    LET number == ReadGroups(at, {0, 1})
    IN  IF number.state = "read"
        THEN [value |-> number.value, next |-> at + number.shift]
        ELSE Nothing

\* Mutants: negative numbers may not use the last group; the number is
\* converted where it is read.
ReadSlebUnsigned(at) ==
    LET number == ReadGroups(at, {0})
        ones   == IF Payload(number.byte) >= SignBit
                  THEN 2 * HalfRange - GroupWeight[number.shift] ELSE 0
    IN  IF number.state = "read"
        THEN [value |-> number.value + ones, next |-> at + number.shift]
        ELSE Nothing

ReadSlebSigned(at) ==
    LET number == ReadGroups(at, {0, Payloads - 1})
        ones   == IF Payload(number.byte) >= SignBit THEN GroupWeight[number.shift] ELSE 0
    IN  IF number.state = "read"
        THEN [value |-> number.value - ones, next |-> at + number.shift]
        ELSE Nothing

\* A negative number is continued with ones above its highest group.  The
\* value stays unsigned until it is used.
ReadSleb(at) ==
    LET number == ReadGroups(at, {0, Payloads - 1})
        ones   == IF number.shift < Groups /\ Payload(number.byte) >= SignBit
                  THEN 2 * HalfRange - GroupWeight[number.shift]
                  ELSE 0
    IN  IF number.state = "read"
        THEN [value |-> number.value + ones, next |-> at + number.shift]
        ELSE Nothing

\* read_unsigned, of a little-endian object: width bytes that fit into the
\* word and are there.
ReadUnsigned(at, width) ==
    IF \/ width = 0
       \/ ByteWeight[width] > 2 * HalfRange
       \/ width > Len(bytes) - at + 1
    THEN Nothing
    ELSE [value |-> FoldLeftDomain(
                        LAMBDA sum, i : sum + bytes[at + i - 1] * ByteWeight[i - 1],
                        0, SubSeq(bytes, at, at + width - 1)),
          next  |-> at + width]

\* read_signed_operand
ReadSigned(at, width) ==
    LET read == ReadUnsigned(at, width)
    IN  IF /\ read # Nothing
           /\ ByteWeight[width] < 2 * HalfRange
           /\ read.value >= ByteWeight[width] \div 2
        THEN [read EXCEPT !.value = @ + 2 * HalfRange - ByteWeight[width]]
        ELSE read

\* skip, of a block whose length was read before
Skip(read) ==
    IF read # Nothing /\ read.value <= Len(bytes) - read.next + 1
    THEN [read EXCEPT !.next = @ + read.value]
    ELSE Nothing

-----------------------------------------------------------------------------
(* Decoding.                                                               *)

\* The first operand of the operation whose opcode is at a place, and the
\* place after it.
FirstOperand(at) ==
    LET code == Opcodes[bytes[at]]
    IN  CASE code.atom \in NoOperand \cup {"breg"} ->
                 [value |-> code.number, next |-> at + 1]
          [] code.atom \in DOMAIN UnsignedWidth ->
                 ReadUnsigned(at + 1, UnsignedWidth[code.atom])
          [] code.atom \in DOMAIN SignedWidth ->
                 ReadSigned(at + 1, SignedWidth[code.atom])
          [] code.atom \in UlebOperand \cup {"bregx", "bit_piece"} ->
                 ReadUleb(at + 1)
          [] code.atom \in SlebOperand -> ReadSleb(at + 1)
          [] code.atom \in BlockOperand -> Skip(ReadUleb(at + 1))

SecondOperand(atom, at) ==
    CASE atom \in {"breg", "bregx"} -> ReadSleb(at)
      [] atom = "bit_piece" -> ReadUleb(at)
      [] OTHER -> [value |-> 0, next |-> at]

\* One round of decode_dwarf_expression's loop, or Nothing: an opcode the
\* code does not know, an operand cut off or out of range.
OperationAt(at) ==
    IF bytes[at] \notin DOMAIN Opcodes \/ FirstOperand(at) = Nothing
    THEN Nothing
    ELSE LET first  == FirstOperand(at)
             atom   == Opcodes[bytes[at]].atom
             second == SecondOperand(atom, first.next)
         IN  IF second = Nothing THEN Nothing
             ELSE [atom |-> atom, operand1 |-> first.value,
                   operand2 |-> second.value, from |-> at,
                   next |-> second.next]

\* The place of the next opcode
Cursor == IF operations = <<>> THEN 1 ELSE Last(operations).next

Begin(expr) ==
    /\ expression = "none"
    /\ bytes' = expr
    /\ operations' = <<>>
    /\ expression' = "decoding"
    /\ UNCHANGED <<stack, position, offset, exact>>

DecodeOperation ==
    /\ expression = "decoding"
    /\ Cursor <= Len(bytes)
    /\ OperationAt(Cursor) # Nothing
    /\ operations' = Append(operations, OperationAt(Cursor))
    /\ UNCHANGED <<bytes, expression, stack, position, offset, exact>>

\* What was decoded so far is dropped by read_location_expression.
DecodeFails ==
    /\ expression = "decoding"
    /\ Cursor <= Len(bytes)
    /\ OperationAt(Cursor) = Nothing
    /\ expression' = "broken"
    /\ UNCHANGED <<bytes, operations, stack, position, offset, exact>>

DecodeEnds ==
    /\ expression = "decoding"
    /\ Cursor > Len(bytes)
    /\ expression' = "decoded"
    /\ UNCHANGED <<bytes, operations, stack, position, offset, exact>>

-----------------------------------------------------------------------------
(* Evaluation: evaluate_data_member_location.                              *)

\* static_cast<std::int64_t>
AsSigned(n) == IF n >= HalfRange THEN n - 2 * HalfRange ELSE n

\* Mutants: checked_add lets through, or refuses, one value too many.
AddOverflowsLate(left, right) ==
    \/ right > 0 /\ left > HalfRange - right
    \/ right < 0 /\ left < -HalfRange - right

AddOverflowsEarly(left, right) ==
    \/ right > 0 /\ left >= HalfRange - 1 - right
    \/ right < 0 /\ left < -HalfRange - right

\* checked_add and checked_subtract give up.
AddOverflows(left, right) ==
    \/ right > 0 /\ left > HalfRange - 1 - right
    \/ right < 0 /\ left < -HalfRange - right

SubtractOverflows(left, right) ==
    \/ right > 0 /\ left < -HalfRange + right
    \/ right < 0 /\ left > HalfRange - 1 + right

UnsignedConstants == {"const1u", "const2u", "const4u", "const8u", "constu"}
SignedConstants   == {"const1s", "const2s", "const4s", "const8s", "consts"}
Pushing    == {"lit"} \cup UnsignedConstants \cup SignedConstants
Combining  == {"plus", "minus"}
Understood == Pushing \cup Combining \cup {"plus_uconst", "nop"}

Top    == stack[Len(stack)]
Second == stack[Len(stack) - 1]

\* SymbolicValue: the object's address is part of the value, or is not.
Symbolic(base, constant) == [base |-> base, constant |-> constant]

\* An operation that does not lead to std::nullopt
Accepts(op) ==
    /\ op.atom \in Understood
    /\ op.atom \in UnsignedConstants \cup {"plus_uconst"} =>
           op.operand1 <= HalfRange - 1
    /\ op.atom = "plus_uconst" =>
           stack # <<>> /\ ~AddOverflows(Top.constant, op.operand1)
    /\ op.atom \in Combining => Len(stack) >= 2
    /\ op.atom = "plus" =>
           /\ ~(Second.base /\ Top.base)
           /\ ~AddOverflows(Second.constant, Top.constant)
    /\ op.atom = "minus" =>
           /\ Second.base \/ ~Top.base
           /\ ~SubtractOverflows(Second.constant, Top.constant)

\* The stack after such an operation
StackAfter(op) ==
    LET below(n) == SubSeq(stack, 1, Len(stack) - n)
    IN  CASE op.atom \in Pushing ->
                 Append(stack, Symbolic(FALSE, AsSigned(op.operand1)))
          [] op.atom = "plus_uconst" ->
                 Append(below(1), Symbolic(Top.base, Top.constant + op.operand1))
          [] op.atom = "plus" ->
                 Append(below(2), Symbolic(Second.base \/ Top.base,
                                           Second.constant + Top.constant))
          [] op.atom = "minus" ->
                 Append(below(2), Symbolic(Second.base # Top.base,
                                           Second.constant - Top.constant))
          [] op.atom = "nop" -> stack

\* The same operation on values without limits: multiples of the object's
\* address with any constant added.  Only the history uses it.
ExactAfter(op) ==
    LET top      == exact[Len(exact)]
        second   == exact[Len(exact) - 1]
        below(n) == SubSeq(exact, 1, Len(exact) - n)
        constant == IF op.atom \in SignedConstants THEN AsSigned(op.operand1)
                    ELSE op.operand1
    IN  CASE op.atom \in Pushing -> Append(exact, Symbolic(0, constant))
          [] op.atom = "plus_uconst" ->
                 Append(below(1), Symbolic(top.base, top.constant + constant))
          [] op.atom = "plus" ->
                 Append(below(2), Symbolic(second.base + top.base,
                                           second.constant + top.constant))
          [] op.atom = "minus" ->
                 Append(below(2), Symbolic(second.base - top.base,
                                           second.constant - top.constant))
          [] op.atom = "nop" -> exact

\* Operands there are for an operation the evaluator understands
Applies(op) ==
    /\ op.atom \in Understood
    /\ op.atom \in Combining => Len(exact) >= 2
    /\ op.atom = "plus_uconst" => exact # <<>>

Evaluate ==
    /\ expression = "decoded"
    /\ expression' = "evaluating"
    /\ stack' = <<Symbolic(TRUE, 0)>>
    /\ exact' = <<Symbolic(1, 0)>>
    /\ position' = 1
    /\ UNCHANGED <<bytes, operations, offset>>

Operation == operations[position]

EvaluateOperation ==
    /\ expression = "evaluating"
    /\ position <= Len(operations)
    /\ Accepts(Operation)
    /\ stack' = StackAfter(Operation)
    /\ exact' = ExactAfter(Operation)
    /\ position' = position + 1
    /\ UNCHANGED <<bytes, operations, expression, offset>>

RefuseOperation ==
    /\ expression = "evaluating"
    /\ position <= Len(operations)
    /\ ~Accepts(Operation)
    /\ expression' = "refused"
    /\ exact' = IF Applies(Operation) THEN ExactAfter(Operation) ELSE exact
    /\ UNCHANGED <<bytes, operations, stack, position, offset>>

\* Mutant: what else is on the stack does not matter.
EvaluationEndsEarly ==
    /\ expression = "evaluating"
    /\ position > Len(operations)
    /\ IF stack[1].base
       THEN expression' = "evaluated" /\ offset' = stack[1].constant
       ELSE expression' = "refused" /\ UNCHANGED offset
    /\ UNCHANGED <<bytes, operations, stack, position, exact>>

\* One value that contains the address is left, or the answer is refused.
EvaluationEnds ==
    /\ expression = "evaluating"
    /\ position > Len(operations)
    /\ IF Len(stack) = 1 /\ stack[1].base
       THEN expression' = "evaluated" /\ offset' = stack[1].constant
       ELSE expression' = "refused" /\ UNCHANGED offset
    /\ UNCHANGED <<bytes, operations, stack, position, exact>>

\* The reader takes the operations or the offset and drops the rest.
Close ==
    /\ expression' = "none"
    /\ bytes' = <<>>
    /\ operations' = <<>>
    /\ stack' = <<>>
    /\ exact' = <<>>
    /\ position' = 1
    /\ offset' = 0

-----------------------------------------------------------------------------
ExpressionInit ==
    /\ bytes = <<>>
    /\ operations = <<>>
    /\ expression = "none"
    /\ stack = <<>>
    /\ position = 1
    /\ offset = 0
    /\ exact = <<>>

ExpressionStep ==
    \/ DecodeOperation
    \/ DecodeFails
    \/ DecodeEnds
    \/ Evaluate
    \/ EvaluateOperation
    \/ RefuseOperation
    \/ EvaluationEnds

ExpressionNext ==
    \/ expression = "none" /\ \E expr \in Expressions : Begin(expr)
    \/ ExpressionStep

ExpressionSpec == ExpressionInit /\ [][ExpressionNext]_expressionVars

-----------------------------------------------------------------------------
(* Properties.                                                             *)

ExpressionTypeOK ==
    /\ bytes \in Seq(Bytes)
    /\ \A i \in DOMAIN operations :
           operations[i].operand1 \in Unsigned /\ operations[i].operand2 \in Unsigned
    /\ expression \in {"none", "decoding", "broken", "decoded", "evaluating",
                       "refused", "evaluated"}
    /\ stack \in Seq([base : BOOLEAN, constant : Signed])
    /\ exact \in Seq([base : Int, constant : Int])
    /\ position \in 1..(Len(operations) + 1)
    /\ offset \in Signed

\* What the parts of a number mean, the lowest first, whatever the width of
\* a word.
NumberOf(parts, base) ==
    LET from[i \in 1..(Len(parts) + 1)] ==
            IF i > Len(parts) THEN 0 ELSE parts[i] + base * from[i + 1]
    IN  from[1]

LebValue(digits) ==
    NumberOf([i \in DOMAIN digits |-> Payload(digits[i])], Payloads)
SlebValue(digits) ==
    IF Payload(Last(digits)) >= SignBit
    THEN LebValue(digits) - GroupWeight[Len(digits)]
    ELSE LebValue(digits)
FixedValue(digits) == NumberOf(digits, ByteRange)
TwosComplement(digits) ==
    IF Last(digits) >= Payloads
    THEN FixedValue(digits) - ByteWeight[Len(digits)]
    ELSE FixedValue(digits)

\* A number that ends where digits do
IsLeb(digits) ==
    /\ digits # <<>>
    /\ \A i \in DOMAIN digits : Follows(digits[i]) <=> i < Len(digits)

\* The operations lie one behind the other over all the bytes, and each has
\* the number that its own bytes encode: no bit of a long LEB128 number is
\* shifted out, and no sign is lost or invented in widening it.
OperandsAreExact ==
    /\ \A i \in DOMAIN operations :
           operations[i].from = IF i = 1 THEN 1 ELSE operations[i - 1].next
    /\ expression \in {"decoded", "evaluating", "evaluated"} =>
           Cursor = Len(bytes) + 1
    /\ \A i \in DOMAIN operations :
           LET op     == operations[i]
               digits == SubSeq(bytes, op.from + 1, op.next - 1)
           IN  /\ op.atom \in UlebOperand => op.operand1 = LebValue(digits)
               /\ op.atom \in SlebOperand =>
                      AsSigned(op.operand1) = SlebValue(digits)
               /\ op.atom = "breg" => AsSigned(op.operand2) = SlebValue(digits)
               /\ op.atom \in DOMAIN UnsignedWidth =>
                      op.operand1 = FixedValue(digits)
               /\ op.atom \in DOMAIN SignedWidth =>
                      AsSigned(op.operand1) = TwosComplement(digits)

\* An expression is given up only at an opcode that is unknown or at a
\* number that is cut off, too large for a word or written with more groups
\* than a word needs.
BreaksForAReason ==
    expression = "broken" /\ bytes[Cursor] \in DOMAIN Opcodes =>
        LET atom   == Opcodes[bytes[Cursor]].atom
            digits == {SubSeq(bytes, Cursor + 1, end) :
                           end \in (Cursor + 1)..Len(bytes)}
        IN  /\ atom \notin NoOperand
            /\ atom \in UlebOperand =>
                   ~\E d \in digits :
                       IsLeb(d) /\ Len(d) <= Groups /\ LebValue(d) \in Unsigned
            /\ atom \in SlebOperand \cup {"breg"} =>
                   ~\E d \in digits :
                       IsLeb(d) /\ Len(d) <= Groups /\ SlebValue(d) \in Signed
            /\ \A d \in digits :
                   \/ atom \in DOMAIN UnsignedWidth /\ Len(d) = UnsignedWidth[atom]
                   \/ atom \in DOMAIN SignedWidth /\ Len(d) = SignedWidth[atom]
                   => ByteWeight[Len(d)] > 2 * HalfRange

\* A value a SymbolicValue can hold, and the one it is held by
Representable(value) == value.base \in {0, 1} /\ value.constant \in Signed
Held(value)          == Symbolic(value.base = 1, value.constant)

\* The stack in words of limited width follows the evaluation without limits
\* step by step: no constant has wrapped around and no address of the object
\* was cancelled or counted twice unnoticed.
StackIsExact ==
    expression \in {"evaluating", "evaluated"} =>
        /\ Len(exact) = Len(stack)
        /\ \A i \in DOMAIN exact :
               Representable(exact[i]) /\ stack[i] = Held(exact[i])

\* The offset of a member is the one its expression denotes.
OffsetIsExact ==
    expression = "evaluated" => exact = <<Symbolic(1, offset)>>

\* An evaluation is refused only for an operation that is not understood,
\* for want of operands, for a value that cannot be held, or for a result
\* that is not one place in the object.
RefusesForAReason ==
    expression = "refused" =>
        \/ position <= Len(operations) /\ ~Applies(Operation)
        \/ exact # <<>> /\ ~Representable(Last(exact))
        \/ position > Len(operations) /\ ~(Len(exact) = 1 /\ exact[1].base = 1)
        \/ /\ position <= Len(operations)
           /\ Operation.atom \in UnsignedConstants \cup {"plus_uconst"}
           /\ Operation.operand1 \notin Signed
=============================================================================

------------------------------- MODULE ScriptVM -------------------------------
(***************************************************************************)
(* The script interpreter of src/core/script_vm.py.  A stack element is a  *)
(* byte string or, as the result of OP_EQUAL only, a Python integer; the   *)
(* verdict compares the top of the stack with the integer 1.  Nothing      *)
(* jumps, so the script is the sequence of the operations chosen.          *)
(*                                                                         *)
(* Scaled: a byte is below Byte (256), a sum has Wide (8) bytes and a      *)
(* length Short (4) bytes.  A digest is any of Digests (20 or 32 bytes).   *)
(***************************************************************************)
EXTENDS Integers, Sequences, SequencesExt

CONSTANTS Byte, Wide, Short,
          Items,       \* the byte strings a script pushes
          Digests,     \* the byte strings a hash function returns
          MaxHeight    \* bound: elements on the stack

ASSUMPTION ScriptAssumption ==
    /\ Byte \in Nat \ {0, 1} /\ Wide \in Nat /\ Short \in Nat /\ MaxHeight \in Nat
    /\ Items \subseteq Seq(0 .. Byte - 1) /\ Digests \subseteq Seq(0 .. Byte - 1)

VARIABLES
    stack,      \* elements [int, bytes]; an integer keeps its value in bytes
    verdict,    \* "running", "true", "false" or "raised"
    equals      \* history: OP_EQUAL has found its operands equal

scvars == <<stack, verdict, equals>>

Bytes(b) == [int |-> FALSE, bytes |-> b]
Integer(n) == [int |-> TRUE, bytes |-> <<n>>]

ScriptTypeOK ==
    /\ stack \in Seq([int : BOOLEAN, bytes : Seq(0 .. Byte - 1)])
    /\ verdict \in {"running", "true", "false", "raised"}
    /\ equals \in BOOLEAN

\* execute empties the stack first.
ScriptInit == stack = <<>> /\ verdict = "running" /\ equals = FALSE

-----------------------------------------------------------------------------
Interpreting == verdict = "running"
Height == Len(stack)
Top(n) == stack[Height - n + 1]
Below(n) == SubSeq(stack, 1, Height - n)

\* int.from_bytes(..., 'little'), and to_bytes of the given width.
Unsigned(e) == FoldRight(LAMBDA b, acc : acc * Byte + b, e.bytes, 0)
Little(v, width) == Bytes([k \in 1 .. width |-> (v \div Byte ^ (k - 1)) % Byte])

Continue(s) == stack' = s /\ UNCHANGED <<verdict, equals>>
End(v, s) == verdict' = v /\ stack' = s /\ UNCHANGED equals

\* Data of 1 to 75 bytes, fewer when the script ends first; OP_0 to OP_16.
PushItem == Interpreting /\ Height < MaxHeight
            /\ \E b \in Items : Continue(Append(stack, Bytes(b)))

\* An operation with too few operands does nothing.
Shuffle ==
    /\ Interpreting
    /\ \/ Height >= 1 /\ Height < MaxHeight /\ Continue(Append(stack, Top(1)))       \* OP_DUP
       \/ Height >= 1 /\ Continue(Below(1))                                         \* OP_DROP
       \/ Height >= 2 /\ Continue(Below(2) \o <<Top(1), Top(2)>>)                    \* OP_SWAP
       \/ Height >= 2 /\ Height < MaxHeight /\ Continue(Append(stack, Top(2)))       \* OP_OVER
       \/ Height >= 2 /\ Continue(Below(2))                                         \* OP_2DROP
       \/ Height >= 2 /\ Height + 2 <= MaxHeight                                    \* OP_2DUP
          /\ Continue(stack \o <<Top(2), Top(1)>>)
       \/ Height < MaxHeight /\ Continue(Append(stack, Little(Height, Short)))       \* OP_DEPTH

\* The sum of the two topmost numbers, their difference (second minus top),
\* or the top plus one: to_bytes raises for a negative and for a wide one.
\* An integer operand has no from_bytes and raises; operands taken are gone.
Arithmetic ==
    /\ Interpreting
    /\ \E op \in {"OP_ADD", "OP_SUB", "OP_1ADD"} :
          LET n == IF op = "OP_1ADD" THEN 1 ELSE 2
              value == CASE op = "OP_ADD" -> Unsigned(Top(1)) + Unsigned(Top(2))
                         [] op = "OP_SUB" -> Unsigned(Top(2)) - Unsigned(Top(1))
                         [] op = "OP_1ADD" -> Unsigned(Top(1)) + 1
          IN /\ Height >= n
             /\ IF \E k \in 1 .. n : Top(k).int
                THEN End("raised", Below(IF Top(1).int THEN 1 ELSE n))
                ELSE IF value \in 0 .. Byte ^ Wide - 1
                THEN Continue(Append(Below(n), Little(value, Wide)))
                ELSE End("raised", Below(n))

\* The number whose every bit is op of the bits of a and b.
BitByBit(op, a, b) ==
    LET bit(v, k) == (v \div 2 ^ k) % 2
        is(k) == CASE op = "OP_AND" -> bit(a, k) + bit(b, k) = 2
                   [] op = "OP_OR" -> bit(a, k) + bit(b, k) >= 1
                   [] op = "OP_XOR" -> bit(a, k) # bit(b, k)
        num[k \in 0 .. a + b] ==
            IF k = 0 THEN 0 ELSE num[k - 1] + (IF is(k - 1) THEN 2 ^ (k - 1) ELSE 0)
    IN num[a + b]

Logic ==
    /\ Interpreting /\ Height >= 2
    /\ \E op \in {"OP_AND", "OP_OR", "OP_XOR"} :
          IF Top(1).int \/ Top(2).int
          THEN End("raised", Below(IF Top(1).int THEN 1 ELSE 2))
          ELSE LET v == BitByBit(op, Unsigned(Top(1)), Unsigned(Top(2)))
               IN IF v \in 0 .. Byte ^ Wide - 1
                  THEN Continue(Append(Below(2), Little(v, Wide)))
                  ELSE End("raised", Below(2))

\* OP_EQUAL pushes the integer 1 or 0: the only integers on the stack.
Equal ==
    /\ Interpreting /\ Height >= 2
    /\ stack' = Append(Below(2), Integer(IF Top(1) = Top(2) THEN 1 ELSE 0))
    /\ equals' = (equals \/ Top(1) = Top(2))
    /\ UNCHANGED verdict

\* OP_EQUALVERIFY pops both, OP_VERIFY one, and a failed test ends the script;
\* a byte string is never equal to 1, so OP_VERIFY passes only integers.
Verify ==
    /\ Interpreting
    /\ \/ Height >= 2 /\ (IF Top(1) = Top(2) THEN Continue(Below(2)) ELSE End("false", Below(2)))
       \/ Height >= 1 /\ (IF Top(1) = Integer(1) THEN Continue(Below(1)) ELSE End("false", Below(1)))

\* OP_SHA256, OP_HASH160 and OP_HASH256 of the top; an integer raises, and
\* so does OP_HASH160 where the library has no ripemd160.
Digest ==
    /\ Interpreting /\ Height >= 1
    /\ \/ End("raised", Below(1))
       \/ ~Top(1).int /\ \E d \in Digests : Continue(Append(Below(1), Bytes(d)))

\* OP_SIZE keeps its operand; an integer has no length.
Size ==
    /\ Interpreting /\ Height >= 1 /\ Height < MaxHeight
    /\ IF Top(1).int THEN End("raised", stack)
       ELSE Continue(Append(stack, Little(Len(Top(1).bytes), Short)))

ReturnFalse == Interpreting /\ End("false", stack)

\* Mutant: the verdict reads the top as a number.
ScriptEndsTruthy ==
    /\ Interpreting
    /\ End(IF Height > 0 /\ Unsigned(Top(1)) = 1 THEN "true" ELSE "false", stack)

\* The script is over: it succeeds with the integer 1 on top.
ScriptEnds ==
    /\ Interpreting
    /\ End(IF Height > 0 /\ Top(1) = Integer(1) THEN "true" ELSE "false", stack)

ScriptNext ==
    PushItem \/ Shuffle \/ Arithmetic \/ Logic \/ Equal \/ Verify \/ Digest \/ Size
    \/ ReturnFalse \/ ScriptEnds

ScriptSpec == ScriptInit /\ [][ScriptNext]_scvars

-----------------------------------------------------------------------------
\* A script succeeds only if an OP_EQUAL in it found two equal operands: a
\* true value left by any other operation (OP_1, a sum, a size) is a byte
\* string and the script that ends on it fails.
SuccessIsAnEquality == verdict = "true" => equals
=============================================================================

------------------------------ MODULE ContractVM ------------------------------
(***************************************************************************)
(* The stack machine of src/contracts/smart_contract_vm.py.  One           *)
(* SmartContractVM object runs one contract after another; execute resets  *)
(* the program counter and nothing else, so the stack, the memory and the  *)
(* stopped flag of one contract are what the next one starts from.         *)
(*                                                                         *)
(* The code's numbers are scaled: a byte is below Base (256) and a word    *)
(* has Width (32) bytes.  Room is the memory the process can allocate.     *)
(*                                                                         *)
(* Evaluating OpCode.DUP16 raises AttributeError, the enumeration has only *)
(* DUP1, and the test on it comes before every other one: an opcode of     *)
(* 0x80 or more ends the execution with an exception, RETURN and REVERT    *)
(* among them.  They are the cell "high" here.                             *)
(***************************************************************************)
EXTENDS Integers, Sequences

CONSTANTS Base, Width, Room,
          Contracts,   \* the programs a caller may run: sequences of cells
          Addresses,   \* what an address encodes to, as a number
          Depth,       \* bound: the stack is not pushed beyond it
          MaxCalls     \* bound on the executions of one object

ASSUMPTION MachineAssumption ==
    /\ Base \in Nat \ {0, 1} /\ Width \in Nat \ {0} /\ Room \in Nat
    /\ Contracts \subseteq Seq(STRING) /\ Addresses \subseteq Nat /\ Addresses # {}
    /\ Depth \in Nat /\ MaxCalls \in Nat

\* How many numbers n bytes can spell.
Power[n \in 0 .. Width] == IF n = 0 THEN 1 ELSE Power[n - 1] * Base
Word == Power[Width]

VARIABLES
    vm,       \* stack, memory, pc, stopped
    code,     \* the program being run, <<>> between executions
    self,     \* the address of the running contract
    calls,    \* executions begun
    answer,   \* "none", "success", "failure" or "raised" for the last one
    long      \* history: an address wider than a word was pushed

mvars == <<vm, code, self, calls, answer, long>>

MachineTypeOK ==
    /\ vm \in [stack : Seq(Nat), memory : Seq(0 .. Base - 1), pc : Nat, stopped : BOOLEAN]
    /\ code \in Contracts \cup {<<>>}
    /\ self \in Addresses
    /\ calls \in 0 .. MaxCalls
    /\ answer \in {"none", "success", "failure", "raised"}
    /\ long \in BOOLEAN

MachineInit ==
    /\ vm = [stack |-> <<>>, memory |-> <<>>, pc |-> 0, stopped |-> FALSE]
    /\ code = <<>> /\ self = (CHOOSE a \in Addresses : TRUE) /\ calls = 0 /\ answer = "none" /\ long = FALSE

-----------------------------------------------------------------------------
Running == code # <<>>

\* STOP and ADD are the bytes 0 and 1, so the immediates of a push spell
\* with them; a jump into an immediate runs it.
ByteOf(c) == IF c = "STOP" THEN 0 ELSE 1

Cell == code[vm.pc + 1]

\* The loop goes on: not stopped, and the counter is inside the code.
Fetching == Running /\ ~vm.stopped /\ vm.pc < Len(code)

Arg(n) == vm.stack[Len(vm.stack) - n + 1]
Rest(n) == SubSeq(vm.stack, 1, Len(vm.stack) - n)
Holds(n) == Len(vm.stack) >= n

Next1 == [vm EXCEPT !.pc = @ + 1]
Pushed(s, v) == [Next1 EXCEPT !.stack = Append(s, v)]

\* Mutant: execute starts with a fresh stopped flag.
CallContractResuming(c, a) ==
    /\ ~Running /\ calls < MaxCalls
    /\ code' = c /\ self' = a /\ calls' = calls + 1 /\ answer' = "none"
    /\ vm' = [vm EXCEPT !.pc = 0, !.stopped = FALSE]
    /\ UNCHANGED long

\* execute is entered with the code and its context.
CallContract(c, a) ==
    /\ ~Running /\ calls < MaxCalls
    /\ code' = c /\ self' = a /\ calls' = calls + 1 /\ answer' = "none"
    /\ vm' = [vm EXCEPT !.pc = 0]
    /\ UNCHANGED long

\* The number the next n cells spell, fewer at the end of the code.
Immediate(n) ==
    LET last == IF vm.pc + 1 + n < Len(code) THEN vm.pc + 1 + n ELSE Len(code)
        num[k \in vm.pc + 1 .. last] ==
            IF k = vm.pc + 1 THEN 0 ELSE num[k - 1] * Base + ByteOf(code[k])
    IN num[last]

\* PUSH1 to PUSH32: the immediate is pushed and skipped.
Push ==
    /\ Fetching /\ Cell \in {"PUSH1", "PUSH32"} /\ Len(vm.stack) < Depth
    /\ LET n == IF Cell = "PUSH1" THEN 1 ELSE Width
       IN vm' = [vm EXCEPT !.stack = Append(@, Immediate(n)), !.pc = @ + 1 + n]
    /\ UNCHANGED <<code, self, calls, answer, long>>

\* Mutant: a sum is not reduced to a word.
BinaryUnreduced(op, a, b) ==
    CASE op = "ADD" -> a + b
      [] op = "SUB" -> (a - b) % Word
      [] op = "MUL" -> (a * b) % Word
      [] op = "DIV" -> IF b = 0 THEN 0 ELSE a \div b
      [] op = "LT" -> IF a < b THEN 1 ELSE 0
      [] op = "GT" -> IF a > b THEN 1 ELSE 0
      [] op = "EQ" -> IF a = b THEN 1 ELSE 0

\* Both operands are taken from the top: a first, then b.
Binary(op, a, b) ==
    CASE op = "ADD" -> (a + b) % Word
      [] op = "SUB" -> (a - b) % Word
      [] op = "MUL" -> (a * b) % Word
      [] op = "DIV" -> IF b = 0 THEN 0 ELSE a \div b
      [] op = "LT" -> IF a < b THEN 1 ELSE 0
      [] op = "GT" -> IF a > b THEN 1 ELSE 0
      [] op = "EQ" -> IF a = b THEN 1 ELSE 0

\* An operation that finds too few operands is skipped.
Compute ==
    /\ Fetching /\ Cell \in {"ADD", "SUB", "MUL", "DIV", "LT", "GT", "EQ"}
    /\ vm' = IF Holds(2) THEN Pushed(Rest(2), Binary(Cell, Arg(1), Arg(2))) ELSE Next1
    /\ UNCHANGED <<code, self, calls, answer, long>>

Raise ==
    /\ answer' = "raised" /\ code' = <<>>
    /\ UNCHANGED <<vm, self, calls, long>>

\* The operands a raising operation has taken from the stack are gone.
RaiseTaking(n) ==
    /\ answer' = "raised" /\ code' = <<>>
    /\ vm' = [vm EXCEPT !.stack = Rest(n)]
    /\ UNCHANGED <<self, calls, long>>

\* SHA3 pushes the digest of a stretch of memory: any word.
Hash ==
    /\ Fetching /\ Cell = "SHA3"
    /\ \/ Holds(2) /\ \E v \in {0, Word - 1} : vm' = Pushed(Rest(2), v)
       \/ ~Holds(2) /\ vm' = Next1
    /\ UNCHANGED <<code, self, calls, answer, long>>

\* MLOAD of a stretch beyond the memory takes the offset and pushes nothing.
LoadWord ==
    /\ Fetching /\ Cell = "MLOAD"
    /\ LET num[k \in 0 .. Width] == IF k = 0 THEN 0
                                    ELSE num[k - 1] * Base + vm.memory[Arg(1) + k]
       IN vm' = IF ~Holds(1) THEN Next1
                ELSE IF Arg(1) + Width <= Len(vm.memory) THEN Pushed(Rest(1), num[Width])
                ELSE [Next1 EXCEPT !.stack = Rest(1)]
    /\ UNCHANGED <<code, self, calls, answer, long>>

\* The memory grows to the word's end, and the word replaces Width bytes.
Grown(offset, v) ==
    LET size == IF offset + Width > Len(vm.memory) THEN offset + Width ELSE Len(vm.memory)
    IN [k \in 1 .. size |->
          IF k \in offset + 1 .. offset + Width
          THEN (v \div Power[offset + Width - k]) % Base
          ELSE IF k <= Len(vm.memory) THEN vm.memory[k] ELSE 0]

\* MSTORE raises OverflowError for a value wider than a word, and a memory
\* error for an offset the process has no room for.
StoreWord ==
    /\ Fetching /\ Cell = "MSTORE"
    /\ IF Holds(2) /\ (Arg(2) >= Word \/ Arg(1) + Width > Room)
       THEN RaiseTaking(2)
       ELSE /\ vm' = IF Holds(2)
                     THEN [Next1 EXCEPT !.stack = Rest(2), !.memory = Grown(Arg(1), Arg(2))]
                     ELSE Next1
            /\ UNCHANGED <<code, self, calls, answer, long>>

\* A jump goes anywhere, a JUMPDEST or not; without operands it stops.
Jump ==
    /\ Fetching /\ Cell \in {"JUMP", "JUMPI"}
    /\ LET n == IF Cell = "JUMP" THEN 1 ELSE 2
       IN vm' = IF ~Holds(n) THEN [vm EXCEPT !.stopped = TRUE]
                ELSE [vm EXCEPT !.stack = Rest(n),
                                !.pc = IF n = 1 \/ Arg(2) # 0 THEN Arg(1) ELSE @ + 1]
    /\ UNCHANGED <<code, self, calls, answer, long>>

\* ADDRESS and CALLER push the text of an address as one number: an address
\* of more than Width characters does not fit a word.
PushAddress ==
    /\ Fetching /\ Cell = "ADDRESS" /\ Len(vm.stack) < Depth
    /\ vm' = Pushed(vm.stack, self)
    /\ long' = (long \/ self >= Word)
    /\ UNCHANGED <<code, self, calls, answer>>

\* BALANCE raises for a value wider than a word and for bytes that are not
\* text; for any other it pushes the balance found.
Balance ==
    /\ Fetching /\ Cell = "BALANCE"
    /\ \/ ~Holds(1) /\ vm' = Next1 /\ UNCHANGED <<code, self, calls, answer, long>>
       \/ /\ Holds(1) /\ Arg(1) < Word
          /\ vm' = Pushed(Rest(1), 0)
          /\ UNCHANGED <<code, self, calls, answer, long>>
       \/ Holds(1) /\ RaiseTaking(1)

\* STOP stops with the counter on it.
Stop ==
    /\ Fetching /\ Cell = "STOP"
    /\ vm' = [vm EXCEPT !.stopped = TRUE]
    /\ UNCHANGED <<code, self, calls, answer, long>>

\* JUMPDEST and every opcode below 0x80 without a branch are skipped.
Pass ==
    /\ Fetching /\ Cell \in {"JUMPDEST", "other"}
    /\ vm' = Next1
    /\ UNCHANGED <<code, self, calls, answer, long>>

\* Any opcode of 0x80 or more.
High == Fetching /\ Cell = "high" /\ Raise

\* The loop has ended: a run that stopped is reported as a failure.
Report ==
    /\ Running /\ ~Fetching
    /\ answer' = (IF vm.stopped THEN "failure" ELSE "success") /\ code' = <<>>
    /\ UNCHANGED <<vm, self, calls, long>>

MachineNext ==
    \/ \E c \in Contracts, a \in Addresses : CallContract(c, a)
    \/ Push \/ Compute \/ Hash \/ LoadWord \/ StoreWord \/ Jump \/ PushAddress
    \/ Balance \/ Stop \/ Pass \/ High \/ Report

MachineSpec == MachineInit /\ [][MachineNext]_mvars

-----------------------------------------------------------------------------
\* A value that does not fit a word is on the stack only after ADDRESS or
\* CALLER pushed an address longer than a word: every other operation of
\* execute keeps to words, whatever an earlier contract left behind.
WordsFit == \A k \in 1 .. Len(vm.stack) : vm.stack[k] >= Word => long

\* Once a contract has stopped, the object never runs another: execute does
\* not reset the flag, so every later answer is a failure that leaves the
\* stack and the memory as they were.
StoppedForGood ==
    [][vm.stopped => /\ vm'.stopped /\ vm'.stack = vm.stack /\ vm'.memory = vm.memory
                     /\ answer' \in {"none", "failure", answer}]_mvars

\* One object serves every contract: its words stay words from one to the
\* next, and the stop of one ends them all.
MachineKeepsState == []WordsFit /\ StoppedForGood
=============================================================================

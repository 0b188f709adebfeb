------------------------------ MODULE Bytecode ------------------------------
(***************************************************************************)
(* What the compiler and VM::run agree on: the bytes of the instructions,  *)
(* their lengths, and the globals, which code knows by number.             *)
(***************************************************************************)
EXTENDS Integers, Sequences, SequencesExt

Op == [MOVI8 |-> 0, MOVI32 |-> 1, MOVR |-> 2, MOVN |-> 3, MOVT |-> 4, MOVF |-> 5,
       SEND |-> 6, SEND_KW |-> 7, LATTR |-> 8, IVA |-> 9, IVR |-> 10, RET |-> 11,
       LOADS |-> 12, LOADC |-> 13, SELF |-> 14, JMPF |-> 15, JMPB |-> 16,
       JMPIT |-> 17, JMPIF |-> 18, REGE |-> 19, POPE |-> 20, LVAR |-> 21,
       SVAR |-> 22, SENDI |-> 23, SENDI_KW |-> 24, RAISE |-> 25, NOT |-> 26,
       TUPLE |-> 27, LIST |-> 28, LRET |-> 29, JMPHA |-> 30]

\* insn_len, and what Disassembler::print_one returns.
Length == [MOVI8 |-> 3, MOVI32 |-> 6, MOVR |-> 3, MOVN |-> 2, MOVT |-> 2, MOVF |-> 2,
           SEND |-> 5, SEND_KW |-> 6, LATTR |-> 4, IVA |-> 3, IVR |-> 3, RET |-> 2,
           LOADS |-> 3, LOADC |-> 3, SELF |-> 2, JMPF |-> 2, JMPB |-> 2,
           JMPIT |-> 3, JMPIF |-> 3, REGE |-> 3, POPE |-> 1, LVAR |-> 4,
           SVAR |-> 4, SENDI |-> 5, SENDI_KW |-> 6, RAISE |-> 2, NOT |-> 3,
           TUPLE |-> 4, LIST |-> 4, LRET |-> 2, JMPHA |-> 3]
OpName(byte) == CHOOSE o \in DOMAIN Op : Op[o] = byte
IsOp(byte) == \E o \in DOMAIN Op : Op[o] = byte

Globals == <<"Object", "io", "Class", "Importer", "Dictionary", "Integer", "sys",
             "Trait", "ArgumentError", "NoMethodError", "Exception", "List",
             "Dir", "Moment">>
=============================================================================

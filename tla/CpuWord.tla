------------------------------ MODULE CpuWord ------------------------------
(***************************************************************************)
(* The 6502's bytes and the addresses made of two of them.                 *)
(***************************************************************************)
EXTENDS Naturals

CONSTANT Radix  \* 256: values of a byte, and bytes of a page

ASSUME RadixAssumption == Radix \in Nat \ {0, 1}

ByteValue == 0 .. Radix - 1
WordSpace == Radix * Radix
Word      == 0 .. WordSpace - 1

High(addr) == addr \div Radix
Low(addr)  == addr % Radix

\* Every sum of addresses is a word again.
assemble_word(high, low) == high * Radix + low
=============================================================================

------------------------------ MODULE CpuStack ------------------------------
(***************************************************************************)
(* The hardware stack of cpu.c: a page of memory that SP points into, and  *)
(* every instruction and interrupt that keeps bytes there.                 *)
(*                                                                         *)
(* push_byte_to_stack and pop_byte both handle the ends of the page by     *)
(* hand, and skip a cell there.  The program is any program that pops what *)
(* it pushed: subroutines return, handlers end with RTI, pushed registers  *)
(* are pulled.  It loads the stack pointer, while the stack is empty, with *)
(* one of Tops.                                                            *)
(*                                                                         *)
(* A byte is a number below Radix, an address two of them.  Of STATUS the  *)
(* two bits that the operations below touch are kept: bit 0 is I, bit 1 is *)
(* B.  U is set wherever STATUS is written and is left out.                *)
(***************************************************************************)
EXTENDS CpuWord, Sequences

CONSTANTS
  StackSize,   \* 256
  ResetTop,    \* cpu_init's 0xFD
  Tops,        \* values the program gives TXS
  Sites,       \* where its code is: targets of jumps, calls and vectors
  Loads        \* values it loads into A

Last == StackSize - 1
Bits == 0 .. 3

ASSUME StackAssumption ==
  /\ StackSize \in Nat /\ StackSize > 2
  /\ Radix >= 4
  /\ Tops \subseteq 0 .. Last /\ ResetTop \in 0 .. Last
  /\ Sites \subseteq Word /\ Loads \subseteq ByteValue /\ 0 \in Loads

VARIABLES
  pc, A, STATUS, SP,   \* registers
  stack,    \* memory 0x0100 .. 0x01FF
  top,      \* SP when the stack was last empty
  frames    \* what the program has on the stack, latest first

stack_vars == <<pc, A, STATUS, SP, stack, top, frames>>

\* A frame is what the program expects back: a subroutine's resume address, an
\* interrupted program's address and status, or a pushed byte.
Frame == [kind : {"call", "interrupt", "data", "status"}, pc : Word, byte : ByteValue]

Size(frame) == CASE frame.kind = "call" -> 2 [] frame.kind = "interrupt" -> 3
                 [] OTHER -> 1

\* After reset: a random STATUS, the PC from the vector.
StackInit ==
  /\ pc \in Sites /\ A = 0 /\ STATUS \in Bits
  /\ SP = ResetTop /\ top = ResetTop
  /\ stack = [i \in 0 .. Last |-> 0]
  /\ frames = <<>>

----------------------------------------------------------------------------
ClearI(status) == IF status % 2 = 1 THEN status - 1 ELSE status
SetI(status)   == IF status % 2 = 0 THEN status + 1 ELSE status
SetB(status)   == IF status \in {0, 1} THEN status + 2 ELSE status
ClearB(status) == IF status \in {2, 3} THEN status - 2 ELSE status

Plus(addr, n) == (addr + n) % WordSpace

\* Mutant: the end of the page is handled one cell early.
PushCellEarly(sp) == IF sp <= 1 THEN Last ELSE sp

\* push_byte_to_stack: the cell it writes and the pointer it leaves.
PushCell(sp) == IF sp = 0 THEN Last ELSE sp
PushSP(sp)   == PushCell(sp) - 1

\* pop_byte: the cell it reads, which is the pointer it leaves.
PopCell(sp) ==
  LET up == (sp + 1) % StackSize IN IF up = Last THEN 0 ELSE up

\* The bytes of a sequence pushed one after the other.
PushBytes(bytes) ==
  LET sp[i \in 0 .. Len(bytes)] == IF i = 0 THEN SP ELSE PushSP(sp[i - 1])
      cells == {PushCell(sp[i - 1]) : i \in 1 .. Len(bytes)}
  IN /\ stack' = [c \in 0 .. Last |->
                    IF c \in cells
                    THEN bytes[CHOOSE i \in 1 .. Len(bytes) : PushCell(sp[i - 1]) = c]
                    ELSE stack[c]]
     /\ SP' = sp[Len(bytes)]

\* The i-th cell popped from here on, and its byte.
NthCell(n) == LET sp[i \in 0 .. n] == IF i = 0 THEN SP ELSE PopCell(sp[i - 1])
              IN sp[n]
Popped(n)  == stack[NthCell(n)]

----------------------------------------------------------------------------
(* The environment: a program that has room for what it pushes and pops    *)
(* what it pushed.                                                         *)

RoomFor(n) == n <= SP
Keeps(kind, resume, byte) ==
  frames' = <<[kind |-> kind, pc |-> resume, byte |-> byte]>> \o frames
Expects(kind) == frames # <<>> /\ Head(frames).kind = kind
Drops == frames' = Tail(frames)

----------------------------------------------------------------------------
\* Instructions that leave the stack alone: A is loaded, I set or cleared, and
\* the PC goes anywhere.
Run ==
  /\ pc' \in Sites /\ A' \in Loads
  /\ STATUS' \in {STATUS, SetI(STATUS), ClearI(STATUS)}
  /\ UNCHANGED <<SP, stack, top, frames>>

\* JSR pushes the address of its own last byte.
JSR ==
  /\ RoomFor(2)
  /\ PushBytes(<<High(Plus(pc, 2)), Low(Plus(pc, 2))>>)
  /\ pc' \in Sites
  /\ Keeps("call", Plus(pc, 3), 0)
  /\ UNCHANGED <<A, STATUS, top>>

\* Mutant: the popped address is not stepped over the JSR's last byte.
RTSToLastByte ==
  /\ Expects("call")
  /\ pc' = assemble_word(Popped(2), Popped(1))
  /\ SP' = NthCell(2)
  /\ Drops
  /\ UNCHANGED <<A, STATUS, stack, top>>

RTS ==
  /\ Expects("call")
  /\ pc' = Plus(assemble_word(Popped(2), Popped(1)), 1)
  /\ SP' = NthCell(2)
  /\ Drops
  /\ UNCHANGED <<A, STATUS, stack, top>>

\* STATUS as it is, then the vector.
Interrupted ==
  /\ RoomFor(3)
  /\ PushBytes(<<High(pc), Low(pc), STATUS>>)
  /\ STATUS' = SetI(STATUS)
  /\ pc' \in Sites
  /\ Keeps("interrupt", pc, STATUS)
  /\ UNCHANGED <<A, top>>

nmi == Interrupted

\* Nothing raises it yet.
irq == STATUS % 2 = 0 /\ Interrupted

\* BRK pushes the address of the byte behind its opcode, and B.
BRK ==
  /\ RoomFor(3)
  /\ PushBytes(<<High(Plus(pc, 1)), Low(Plus(pc, 1)), SetB(STATUS)>>)
  /\ STATUS' = SetI(ClearB(STATUS))
  /\ pc' \in Sites
  /\ Keeps("interrupt", Plus(pc, 1), STATUS)
  /\ UNCHANGED <<A, top>>

RTI ==
  /\ Expects("interrupt")
  /\ STATUS' = ClearB(Popped(1))
  /\ pc' = assemble_word(Popped(3), Popped(2))
  /\ SP' = NthCell(3)
  /\ Drops
  /\ UNCHANGED <<A, stack, top>>

\* These move the PC by their one byte.
Steps == pc' = Plus(pc, 1)

PHA ==
  /\ RoomFor(1)
  /\ PushBytes(<<A>>) /\ Keeps("data", 0, A)
  /\ Steps /\ UNCHANGED <<A, STATUS, top>>

PLA ==
  /\ Expects("data")
  /\ A' = Popped(1) /\ SP' = NthCell(1) /\ Drops
  /\ Steps /\ UNCHANGED <<STATUS, stack, top>>

PHP ==
  /\ RoomFor(1)
  /\ PushBytes(<<SetB(STATUS)>>) /\ Keeps("status", 0, STATUS)
  /\ Steps /\ UNCHANGED <<A, STATUS, top>>

PLP ==
  /\ Expects("status")
  /\ STATUS' = ClearB(Popped(1)) /\ SP' = NthCell(1) /\ Drops
  /\ Steps /\ UNCHANGED <<A, stack, top>>

TXS ==
  /\ frames = <<>>
  /\ SP' \in Tops /\ top' = SP'
  /\ Steps /\ UNCHANGED <<A, STATUS, stack, frames>>

StackNext == Run \/ JSR \/ RTS \/ nmi \/ irq \/ BRK \/ RTI \/ PHA \/ PLA \/ PHP \/ PLP \/ TXS

StackSpec == StackInit /\ [][StackNext]_stack_vars

----------------------------------------------------------------------------
\* Bytes of the frames, topmost first, and the cells they should be in.
Depth == top - SP

StackTypeOK ==
  /\ pc \in Word /\ A \in ByteValue /\ STATUS \in Bits
  /\ SP \in 0 .. Last /\ top \in 0 .. Last
  /\ stack \in [0 .. Last -> ByteValue]
  /\ \A i \in DOMAIN frames : frames[i] \in Frame

\* Control and data come back as they were left: RTS behind its JSR, RTI to
\* the instruction that the interrupt kept from running, with the status of
\* then (B is no flag of the processor and does not come back), a pulled
\* register with the value pushed.
ComesBack ==
  [][LET frame == Head(frames) IN
     /\ RTS => pc' = frame.pc
     /\ RTI => pc' = frame.pc /\ STATUS' = ClearB(frame.byte)
     /\ PLA => A' = frame.byte
     /\ PLP => STATUS' = ClearB(frame.byte)]_stack_vars

\* The pointer tells exactly how much is on the stack, across every nesting.
PointerCountsFrames ==
  LET sum[i \in 0 .. Len(frames)] ==
        IF i = 0 THEN 0 ELSE sum[i - 1] + Size(frames[i])
  IN top - SP = sum[Len(frames)]

\* In every nesting the pointer is where the frames put it, and each comes back.
FramesComeBack == []PointerCountsFrames /\ ComesBack

\* The cells between the pointer and the top are a stack, whatever was left in
\* the page below it, and nothing but the top of it changes.
Contents == [i \in 1 .. Depth |-> stack[SP + i]]

Stack == INSTANCE Lifo WITH
  Byte <- ByteValue, contents <- Contents, MaxPush <- 3

IsLifo == Stack!Spec

\* A subroutine returns behind the JSR that called it, from wherever in the
\* page TXS put the pointer.
SubroutinesReturn == [][RTS => pc' = Head(frames).pc]_stack_vars
=============================================================================

--------------------------- MODULE BranchFollower ---------------------------
(***************************************************************************)
(* How profiler.cpp follows a thread from one control transfer to the      *)
(* next: decoder walks the code from an address to the first transfer it   *)
(* cannot see through and watches it; when the thread gets there,          *)
(* OnBranchWatchPoint works out from the registers where the thread will   *)
(* go and calls decoder on that address.  basic_block_map remembers the    *)
(* transfer that a walk ended at.  Calls, returns and the stacks are the   *)
(* business of CallTracer; here they are transfers like any other.         *)
(***************************************************************************)
EXTENDS Integers

CONSTANTS MaxAddr,  (* code occupies the addresses 0..MaxAddr              *)
          Counts,   (* values of RCX, read as signed                       *)
          MaxPatches  (* bound: replacements of an instruction             *)

ASSUME BranchFollowerAssumption ==
    MaxAddr \in Nat /\ Counts \subseteq Int /\ MaxPatches \in Nat

VARIABLES
    code,     (* external: the instruction at every address                *)
    pc,       (* external: the thread's next instruction, None elsewhere   *)
    going,    (* external: where the trapped instruction will take it      *)
    watch,    (* the watched instruction, None when disarmed               *)
    bb,       (* basic_block_map: the WP_IP of a block's entry             *)
    dec,      (* decoder: sampleIP, TempIp and whether the find found it   *)
    patches,  (* replacements so far                                       *)
    fresh,    (* history: entries of bb made since the code last changed   *)
    astray    (* history: why the thread may have been lost, "no" if not   *)

vars == <<code, patches, pc, going, watch, bb, dec, fresh, astray>>

Addr == 0..MaxAddr
None == -1      (* no address                                              *)
Unset == -2     (* WP_IP of an entry whose walk was not finished           *)
Absent == -3    (* no entry in basic_block_map                             *)

-----------------------------------------------------------------------------
(* The registers a transfer depends on.  Flags are the set of bits that    *)
(* are 1 in EFLAGS.                                                        *)
CF == 0
PF == 2
ZF == 6
SF == 7
OF == 11
Flags == SUBSET {CF, PF, ZF, SF, OF}

Jumps == {"JB", "JBE", "JL", "JLE", "JNB", "JNBE", "JNL", "JNLE", "JNO", "JNP",
          "JNS", "JNZ", "JO", "JP", "JS", "JZ"}
Loops == {"LOOP", "LOOPE", "LOOPNE"}
Conditionals == Jumps \cup Loops \cup {"JRCXZ", "CALL"}

(* flag_set & mask.                                                        *)
Bits(f, mask) == f \cap mask # {}

(* The conditions of OnBranchWatchPoint, with its masks.                   *)
Taken(c, f, rcx) ==
    \/ c = "JB" /\ Bits(f, {0})
    \/ c = "JBE" /\ Bits(f, {0, 6})
    \/ c = "JL" /\ ~(Bits(f, {11}) <=> Bits(f, {7}))
    \/ c = "JLE" /\ (~(Bits(f, {11}) <=> Bits(f, {7})) \/ Bits(f, {6}))
    \/ c = "JNB" /\ ~Bits(f, {0})
    \/ c = "JNBE" /\ ~Bits(f, {0, 6})
    \/ c = "JNL" /\ (Bits(f, {11}) <=> Bits(f, {7}))
    \/ c = "JNLE" /\ (Bits(f, {11}) <=> Bits(f, {7})) /\ ~Bits(f, {6})
    \/ c = "JNO" /\ ~Bits(f, {11})
    \/ c = "JNP" /\ ~Bits(f, {2})
    \/ c = "JNS" /\ ~Bits(f, {7})
    \/ c = "JNZ" /\ ~Bits(f, {6})
    \/ c = "JO" /\ Bits(f, {11})
    \/ c = "JP" /\ Bits(f, {2})
    \/ c = "JS" /\ Bits(f, {7})
    \/ c = "JZ" /\ Bits(f, {6})
    \/ c = "CALL"
    \/ c = "JRCXZ" /\ rcx = 0
    \/ c = "LOOP" /\ rcx > 1
    \/ c = "LOOPE" /\ rcx > 1 /\ Bits(f, {6})
    \/ c = "LOOPNE" /\ rcx > 1 /\ ~Bits(f, {6})

(* External: what the processor does.  A negated jump is the complement of *)
(* its positive form; a loop decrements RCX and goes on unless it is 0.    *)
Negated == [JNB |-> "JB", JNBE |-> "JBE", JNL |-> "JL", JNLE |-> "JLE",
            JNO |-> "JO", JNP |-> "JP", JNS |-> "JS", JNZ |-> "JZ"]

Holds(c, f) ==
    \/ c = "JB" /\ CF \in f
    \/ c = "JBE" /\ (CF \in f \/ ZF \in f)
    \/ c = "JL" /\ (SF \in f <=> OF \notin f)
    \/ c = "JLE" /\ (ZF \in f \/ (SF \in f <=> OF \notin f))
    \/ c = "JO" /\ OF \in f
    \/ c = "JP" /\ PF \in f
    \/ c = "JS" /\ SF \in f
    \/ c = "JZ" /\ ZF \in f

Jumped(c, f, rcx) ==
    \/ Holds(c, f)
    \/ c \in DOMAIN Negated /\ ~Holds(Negated[c], f)
    \/ c = "CALL"
    \/ c = "JRCXZ" /\ rcx = 0
    \/ /\ c \in Loops /\ rcx # 1
       /\ c = "LOOPE" => ZF \in f
       /\ c = "LOOPNE" => ZF \notin f

(* A loop whose count is 0, or 2^63 and more, goes on, but the signed      *)
(* comparison of OnBranchWatchPoint says that it ends.                     *)
BigLoop(c, rcx) == c \in Loops /\ rcx < 1

(* What a conditional transfer can do to the tracer and the thread.  Which *)
(* condition it is and the registers are open until it is executed.        *)
Outcomes ==
    {[taken |-> Taken(c, f, n), jumped |-> Jumped(c, f, n), big |-> BigLoop(c, n)] :
        c \in Conditionals, f \in Flags, n \in Counts}

Registers == {"RAX", "RBP", "RDI"}

(* readReg; RAX stands for every other register.                           *)
ReadReg(regs, r) == regs[IF r = "RBP" THEN "RDI" ELSE r]

-----------------------------------------------------------------------------
(* "seq" is any instruction that is no transfer, "jmp" a jump whose target *)
(* is in the instruction, "cond" a conditional jump, a loop or a call with *)
(* such a target, "reg" a jump or call through a register, "ret" a return. *)
Instructions(a) ==
    [op : {"reg", "ret"}, to : {a}] \cup [op : {"jmp"}, to : Addr \ {a + 1}]
    \cup IF a = MaxAddr THEN {}
         ELSE [op : {"seq"}, to : {a}] \cup [op : {"cond"}, to : Addr \ {a + 1}]

Programs ==
    {c \in [Addr -> UNION {Instructions(a) : a \in Addr}] :
        \A a \in Addr : c[a] \in Instructions(a)}

IsTransfer(a) == code[a].op \notin {"seq", "jmp"}

(* Where an instruction that is no transfer takes the thread.              *)
Ahead(a) == IF code[a].op = "seq" THEN a + 1 ELSE code[a].to

(* t is the first transfer on the thread's way from a: a is in every set   *)
(* that holds t and the instructions that lead into it.                    *)
Leads(a, t) ==
    \A S \in SUBSET Addr :
        t \in S /\ (\A b \in Addr : ~IsTransfer(b) /\ Ahead(b) \in S => b \in S) => a \in S

Idle == [on |-> FALSE, entry |-> None, ip |-> None, found |-> FALSE]

Init ==
    /\ code \in Programs
    /\ pc = None /\ going = None /\ watch = None
    /\ bb = [a \in Addr |-> Absent]
    /\ dec = Idle /\ patches = 0 /\ fresh = {} /\ astray = "no"

-----------------------------------------------------------------------------
(* External: the thread enters the code, executes an instruction that is   *)
(* not watched, or one whose trap was handled.                             *)
Running == pc # None /\ ~dec.on /\ going = None

Enter(a) ==
    /\ pc = None /\ ~dec.on
    /\ pc' = a
    /\ UNCHANGED <<code, patches, going, watch, bb, dec, fresh, astray>>

Execute ==
    /\ Running /\ pc # watch
    /\ pc' \in CASE ~IsTransfer(pc) -> {Ahead(pc)}
                 [] code[pc].op = "cond" -> {code[pc].to, pc + 1}
                 [] OTHER -> Addr \cup {None}
    /\ UNCHANGED <<code, patches, going, watch, bb, dec, fresh, astray>>

Go ==
    /\ going # None /\ ~dec.on
    /\ pc' = going /\ going' = None
    /\ UNCHANGED <<code, patches, watch, bb, dec, fresh, astray>>

(* External: code is unloaded and its memory used again while the thread   *)
(* is elsewhere.                                                           *)
Replace(a, i) ==
    /\ pc = None /\ ~dec.on /\ code[a] # i /\ patches < MaxPatches
    /\ patches' = patches + 1
    /\ code' = [code EXCEPT ![a] = i]
    /\ fresh' = {}
    /\ UNCHANGED <<pc, going, watch, bb, dec, astray>>

-----------------------------------------------------------------------------
Start(a) == [on |-> TRUE, entry |-> a, ip |-> a, found |-> bb[a] # Absent]

(* The end of OnSample.                                                    *)
OnSample ==
    /\ Running
    /\ dec' = Start(pc)
    /\ astray' = "no"
    /\ UNCHANGED <<code, patches, pc, going, watch, bb, fresh>>

(* The watched instruction is reached; the trap disarms the watchpoint.    *)
Trapped == Running /\ pc = watch /\ watch' = None /\ UNCHANGED <<code, patches, pc, bb, fresh>>

TrapConditional ==
    /\ Trapped /\ code[pc].op = "cond"
    /\ \E o \in Outcomes :
          /\ dec' = Start(IF o.taken THEN code[pc].to ELSE pc + 1)
          /\ going' = IF o.jumped THEN code[pc].to ELSE pc + 1
          /\ astray' = IF o.big THEN "loop" ELSE "no"

TrapRegister ==
    /\ Trapped /\ code[pc].op = "reg"
    /\ \E r \in Registers, regs \in [Registers -> Addr] :
          /\ dec' = Start(ReadReg(regs, r))
          /\ going' = regs[r]
          /\ astray' = IF r = "RBP" THEN "rbp" ELSE "no"

(* The return address is on the stack.  After the last return of a trace   *)
(* nothing is decoded.                                                     *)
TrapReturn ==
    /\ Trapped /\ code[pc].op = "ret"
    /\ \E a \in Addr : going' = a /\ dec' \in {Start(a), Idle}
    /\ astray' = "no"

(* A lost watchpoint on a jump, or on an instruction that is no transfer   *)
(* or the middle of one: the trace ends unnoticed.                         *)
TrapLost ==
    /\ Trapped /\ ~IsTransfer(pc)
    /\ going' = Ahead(pc)
    /\ dec' = IF code[pc].op = "jmp" THEN Start(going') ELSE Idle
    /\ astray' = "no"

-----------------------------------------------------------------------------
(* WP_Subscribe: refused when an armed watchpoint is near, which depends   *)
(* on the lengths of the instructions.                                     *)
Subscribe(a, why) ==
    \/ /\ watch # None
       /\ watch' = watch
       /\ astray' = IF watch = a THEN why ELSE "refused"
    \/ watch' = a /\ astray' = why

(* Mutant: the test against -1 is dropped.                                 *)
DecodeKnown_Unset ==
    /\ dec.on /\ dec.found
    /\ Subscribe(bb[dec.entry], IF dec.entry \in fresh THEN astray ELSE "stale")
    /\ dec' = Idle
    /\ UNCHANGED <<code, patches, pc, going, bb, fresh>>

(* The loop of decoder when the block is known.                            *)
DecodeKnown ==
    /\ dec.on /\ dec.found /\ bb[dec.entry] # Unset
    /\ Subscribe(bb[dec.entry], IF dec.entry \in fresh THEN astray ELSE "stale")
    /\ dec' = Idle
    /\ UNCHANGED <<code, patches, pc, going, bb, fresh>>

Unknown == dec.on /\ ~(dec.found /\ bb[dec.entry] # Unset) /\ UNCHANGED <<code, patches, pc, going>>

(* insert leaves an entry that exists alone.                               *)
Inserted == IF bb[dec.entry] = Absent THEN [bb EXCEPT ![dec.entry] = Unset] ELSE bb

(* Mutant: the length of the instruction is not added.                     *)
DecodeSequential_Stays ==
    /\ Unknown /\ code[dec.ip].op = "seq"
    /\ bb' = Inserted
    /\ UNCHANGED <<dec, watch, fresh, astray>>

DecodeSequential ==
    /\ Unknown /\ code[dec.ip].op = "seq"
    /\ bb' = Inserted
    /\ dec' = [dec EXCEPT !.ip = @ + 1]
    /\ UNCHANGED <<watch, fresh, astray>>

(* Mutant: a jump ends the block like a transfer.                          *)
DecodeJump_Stored ==
    /\ Unknown /\ code[dec.ip].op = "jmp"
    /\ IF dec.found
       THEN bb' = [bb EXCEPT ![dec.entry] = dec.ip] /\ fresh' = fresh \cup {dec.entry}
       ELSE bb' = Inserted /\ UNCHANGED fresh
    /\ dec' = [dec EXCEPT !.ip = code[dec.ip].to]
    /\ UNCHANGED <<watch, astray>>

DecodeJump ==
    /\ Unknown /\ code[dec.ip].op = "jmp"
    /\ bb' = Inserted
    /\ dec' = [dec EXCEPT !.ip = code[dec.ip].to]
    /\ UNCHANGED <<watch, fresh, astray>>

(* The end of the walk is stored when the entry was found, which is on the *)
(* second walk from the address.                                           *)
DecodeTransfer ==
    /\ Unknown /\ IsTransfer(dec.ip)
    /\ IF dec.found
       THEN bb' = [bb EXCEPT ![dec.entry] = dec.ip] /\ fresh' = fresh \cup {dec.entry}
       ELSE bb' = Inserted /\ UNCHANGED fresh
    /\ Subscribe(dec.ip, astray)
    /\ dec' = Idle

Decode == DecodeKnown \/ DecodeSequential \/ DecodeJump \/ DecodeTransfer

Next ==
    \/ \E a \in Addr : Enter(a)
    \/ Execute \/ Go
    \/ \E a \in Addr : \E i \in Instructions(a) : Replace(a, i)
    \/ OnSample
    \/ TrapConditional \/ TrapRegister \/ TrapReturn \/ TrapLost
    \/ Decode

Spec == Init /\ [][Next]_vars

(* A thread in a signal handler is scheduled like any other.               *)
FairSpec == Spec /\ WF_vars(Decode)

-----------------------------------------------------------------------------
(* Types.                                                                  *)
TypeOK ==
    /\ code \in Programs
    /\ patches \in 0..MaxPatches
    /\ pc \in Addr \cup {None} /\ going \in Addr \cup {None} /\ watch \in Addr \cup {None}
    /\ bb \in [Addr -> Addr \cup {Unset, Absent}]
    /\ dec = Idle \/ dec \in [on : {TRUE}, entry : Addr, ip : Addr, found : BOOLEAN]
    /\ fresh \subseteq Addr
    /\ astray \in {"no", "loop", "rbp", "stale", "refused"}

(* The watched instruction is the next transfer the thread reaches: the    *)
(* conditions and targets that OnBranchWatchPoint computes are those of    *)
(* the processor, and what basic_block_map remembers is where the walk     *)
(* would end.  The thread is lost only by a loop whose count is not        *)
(* positive, a target in RBP, a block remembered from code that is gone,   *)
(* or a subscription that is refused.                                      *)
OnTrack ==
    watch # None /\ astray = "no" /\ ~dec.on =>
        /\ IsTransfer(watch)
        /\ Leads(IF going # None THEN going ELSE pc, watch)

(* decoder returns, in the signal handler, unless the thread itself would  *)
(* go round a circle of jumps for ever.                                    *)
DecoderReturns ==
    dec.on ~> ~dec.on \/ ~\E t \in Addr : IsTransfer(t) /\ Leads(dec.ip, t)

=============================================================================

------------------------ MODULE BranchFollowerProofs ------------------------
(***************************************************************************)
(* For code of any length and any register contents: the conditions that   *)
(* OnBranchWatchPoint evaluates are the processor's, and the watchpoint    *)
(* stays on the thread's next transfer.                                    *)
(***************************************************************************)
EXTENDS BranchFollower, TLAPS

(* What the masks of OnBranchWatchPoint select.                            *)
LEMMA Masks ==
    ASSUME NEW f \in Flags
    PROVE  /\ Bits(f, {0}) <=> CF \in f
           /\ Bits(f, {2}) <=> PF \in f
           /\ Bits(f, {6}) <=> ZF \in f
           /\ Bits(f, {7}) <=> SF \in f
           /\ Bits(f, {11}) <=> OF \in f
           /\ Bits(f, {0, 6}) <=> CF \in f \/ ZF \in f
  BY DEF Bits, CF, PF, ZF, SF, OF

(* For every condition, flags and count, the masks and comparisons of      *)
(* OnBranchWatchPoint decide as the processor does, except for a loop      *)
(* whose count is not positive as a signed number.                         *)
THEOREM ConditionsExact ==
    \A c \in Conditionals, f \in Flags, n \in Int :
        ~BigLoop(c, n) => (Taken(c, f, n) <=> Jumped(c, f, n))
<1> SUFFICES ASSUME NEW c \in Conditionals, NEW f \in Flags, NEW n \in Int, ~BigLoop(c, n)
             PROVE  Taken(c, f, n) <=> Jumped(c, f, n)
  OBVIOUS
<1>1. CASE c \in Loops
  <2>1. n > 1 <=> n # 1
    BY <1>1 DEF BigLoop
  <2>2. c \notin DOMAIN Negated /\ ~Holds(c, f)
    BY <1>1 DEF Loops, Negated, Holds
  <2>3. CASE c = "LOOP"
    BY <2>1, <2>2, <2>3 DEF Loops, Taken, Jumped
  <2>4. CASE c = "LOOPE"
    BY <2>1, <2>2, <2>4, Masks DEF Loops, Taken, Jumped
  <2>5. CASE c = "LOOPNE"
    BY <2>1, <2>2, <2>5, Masks DEF Loops, Taken, Jumped
  <2> QED
    BY <1>1, <2>3, <2>4, <2>5 DEF Loops
<1>2. CASE c \in {"JRCXZ", "CALL"}
  <2>1. c \notin DOMAIN Negated /\ ~Holds(c, f) /\ c \notin Loops
    BY <1>2 DEF Loops, Negated, Holds
  <2> QED
    BY <1>2, <2>1 DEF Taken, Jumped
<1>3. CASE c \in Jumps
  <2>1. c \notin Loops /\ c # "JRCXZ" /\ c # "CALL"
    BY <1>3 DEF Jumps, Loops
  <2>2. Jumped(c, f, n) <=> Holds(c, f) \/ (c \in DOMAIN Negated /\ ~Holds(Negated[c], f))
    BY <2>1, Zenon DEF Jumped
  <2>3. CASE c = "JB"
    <3>1. c \notin DOMAIN Negated
      BY <2>3 DEF Negated
    <3> QED
      BY <2>2, <2>3, <3>1, Masks DEF Taken, Holds
  <2>4. CASE c = "JBE"
    <3>1. c \notin DOMAIN Negated
      BY <2>4 DEF Negated
    <3> QED
      BY <2>2, <2>4, <3>1, Masks DEF Taken, Holds
  <2>5. CASE c = "JL"
    <3>1. c \notin DOMAIN Negated
      BY <2>5 DEF Negated
    <3> QED
      BY <2>2, <2>5, <3>1, Masks DEF Taken, Holds
  <2>6. CASE c = "JLE"
    <3>1. c \notin DOMAIN Negated
      BY <2>6 DEF Negated
    <3> QED
      BY <2>2, <2>6, <3>1, Masks DEF Taken, Holds
  <2>7. CASE c = "JO"
    <3>1. c \notin DOMAIN Negated
      BY <2>7 DEF Negated
    <3> QED
      BY <2>2, <2>7, <3>1, Masks DEF Taken, Holds
  <2>8. CASE c = "JP"
    <3>1. c \notin DOMAIN Negated
      BY <2>8 DEF Negated
    <3> QED
      BY <2>2, <2>8, <3>1, Masks DEF Taken, Holds
  <2>9. CASE c = "JS"
    <3>1. c \notin DOMAIN Negated
      BY <2>9 DEF Negated
    <3> QED
      BY <2>2, <2>9, <3>1, Masks DEF Taken, Holds
  <2>10. CASE c = "JZ"
    <3>1. c \notin DOMAIN Negated
      BY <2>10 DEF Negated
    <3> QED
      BY <2>2, <2>10, <3>1, Masks DEF Taken, Holds
  <2>11. CASE c = "JNB"
    <3>1. c \in DOMAIN Negated /\ Negated[c] = "JB"
      BY <2>11 DEF Negated
    <3> QED
      BY <2>2, <2>11, <3>1, Masks DEF Taken, Holds
  <2>12. CASE c = "JNBE"
    <3>1. c \in DOMAIN Negated /\ Negated[c] = "JBE"
      BY <2>12 DEF Negated
    <3> QED
      BY <2>2, <2>12, <3>1, Masks DEF Taken, Holds
  <2>13. CASE c = "JNL"
    <3>1. c \in DOMAIN Negated /\ Negated[c] = "JL"
      BY <2>13 DEF Negated
    <3> QED
      BY <2>2, <2>13, <3>1, Masks DEF Taken, Holds
  <2>14. CASE c = "JNLE"
    <3>1. c \in DOMAIN Negated /\ Negated[c] = "JLE"
      BY <2>14 DEF Negated
    <3> QED
      BY <2>2, <2>14, <3>1, Masks DEF Taken, Holds
  <2>15. CASE c = "JNO"
    <3>1. c \in DOMAIN Negated /\ Negated[c] = "JO"
      BY <2>15 DEF Negated
    <3> QED
      BY <2>2, <2>15, <3>1, Masks DEF Taken, Holds
  <2>16. CASE c = "JNP"
    <3>1. c \in DOMAIN Negated /\ Negated[c] = "JP"
      BY <2>16 DEF Negated
    <3> QED
      BY <2>2, <2>16, <3>1, Masks DEF Taken, Holds
  <2>17. CASE c = "JNS"
    <3>1. c \in DOMAIN Negated /\ Negated[c] = "JS"
      BY <2>17 DEF Negated
    <3> QED
      BY <2>2, <2>17, <3>1, Masks DEF Taken, Holds
  <2>18. CASE c = "JNZ"
    <3>1. c \in DOMAIN Negated /\ Negated[c] = "JZ"
      BY <2>18 DEF Negated
    <3> QED
      BY <2>2, <2>18, <3>1, Masks DEF Taken, Holds
  <2> QED
    BY <1>3, <2>3, <2>4, <2>5, <2>6, <2>7, <2>8, <2>9, <2>10,
       <2>11, <2>12, <2>13, <2>14, <2>15, <2>16, <2>17, <2>18 DEF Jumps
<1> QED
  BY <1>1, <1>2, <1>3 DEF Conditionals
-----------------------------------------------------------------------------
(* Transfers and blocks of the code c: IsTransfer, Ahead and Leads with    *)
(* the code as a parameter, so that the lemmas speak of one program.       *)
TransferIn(c, a) == c[a].op \notin {"seq", "jmp"}
AheadIn(c, a) == IF c[a].op = "seq" THEN a + 1 ELSE c[a].to
LeadsIn(c, a, t) ==
    \A S \in SUBSET Addr :
        t \in S /\ (\A b \in Addr : ~TransferIn(c, b) /\ AheadIn(c, b) \in S => b \in S) => a \in S

(* They are the operators of the model.                                    *)
LEMMA InCode ==
    /\ \A a : IsTransfer(a) <=> TransferIn(code, a)
    /\ \A a : Ahead(a) = AheadIn(code, a)
    /\ \A a, t : Leads(a, t) <=> LeadsIn(code, a, t)
  BY DEF IsTransfer, Ahead, Leads, TransferIn, AheadIn, LeadsIn

(* What the code of a program is: only transfers and jumps can be last, so *)
(* that a step over any other instruction stays inside.                    *)
LEMMA ProgramFacts ==
    ASSUME NEW c \in Programs, NEW a \in Addr
    PROVE  /\ c[a].op \in {"seq", "jmp", "cond", "reg", "ret"}
           /\ c[a].to \in Addr
           /\ c[a].op \in {"seq", "cond"} => a + 1 \in Addr
           /\ AheadIn(c, a) \in Addr
<1>1. c[a] \in Instructions(a) /\ MaxAddr \in Nat
  BY BranchFollowerAssumption DEF Programs
<1>2. /\ c[a].op \in {"seq", "jmp", "cond", "reg", "ret"}
      /\ c[a].to \in Addr
      /\ c[a].op \in {"seq", "cond"} => a # MaxAddr
  BY <1>1 DEF Instructions
<1>3. c[a].op \in {"seq", "cond"} => a + 1 \in Addr
  BY <1>1, <1>2 DEF Addr
<1> QED
  BY <1>2, <1>3 DEF AheadIn

(* A transfer is its own block.                                            *)
LEMMA LeadsSelf ==
    ASSUME NEW c, NEW t \in Addr
    PROVE  LeadsIn(c, t, t)
  BY DEF LeadsIn

(* Nothing but an address leads anywhere.                                  *)
LEMMA LeadsFromCode ==
    ASSUME NEW c, NEW a, NEW t \in Addr, LeadsIn(c, a, t)
    PROVE  a \in Addr
  BY DEF LeadsIn

(* The block of an instruction's successor is its own block.               *)
LEMMA LeadsBack ==
    ASSUME NEW c, NEW a \in Addr, NEW t \in Addr,
           ~TransferIn(c, a), LeadsIn(c, AheadIn(c, a), t)
    PROVE  LeadsIn(c, a, t)
  BY DEF LeadsIn

(* A transfer leads to itself only.                                        *)
LEMMA LeadsStops ==
    ASSUME NEW c, NEW a \in Addr, NEW t \in Addr,
           TransferIn(c, a), LeadsIn(c, a, t)
    PROVE  a = t
<1> SUFFICES ASSUME a # t PROVE FALSE
  OBVIOUS
<1> DEFINE S == Addr \ {a}
<1>1. t \in S /\ S \in SUBSET Addr /\ a \notin S
  OBVIOUS
<1>2. \A b \in Addr : ~TransferIn(c, b) => b \in S
  OBVIOUS
<1> HIDE DEF S
<1> QED
  BY <1>1, <1>2 DEF LeadsIn

(* Executing an instruction that is no transfer stays in the block.        *)
LEMMA LeadsOn ==
    ASSUME NEW c, NEW a \in Addr, NEW t \in Addr, a # t,
           ~TransferIn(c, a), LeadsIn(c, a, t)
    PROVE  LeadsIn(c, AheadIn(c, a), t)
<1> SUFFICES ASSUME NEW S \in SUBSET Addr, t \in S,
                    \A b \in Addr : ~TransferIn(c, b) /\ AheadIn(c, b) \in S => b \in S,
                    AheadIn(c, a) \notin S
             PROVE  FALSE
  BY DEF LeadsIn
<1> DEFINE R == S \ {a}
<1>1. t \in R /\ R \in SUBSET Addr /\ a \notin R
  OBVIOUS
<1>2. \A b \in Addr : ~TransferIn(c, b) /\ AheadIn(c, b) \in R => b \in R
  OBVIOUS
<1> HIDE DEF R
<1> QED
  BY <1>1, <1>2 DEF LeadsIn

-----------------------------------------------------------------------------
(* Where the thread goes next.                                             *)
Now == IF going # None THEN going ELSE pc

(* The watched instruction ends the thread's block (OnTrack).              *)
WatchInv ==
    watch # None /\ astray = "no" /\ ~dec.on =>
        TransferIn(code, watch) /\ LeadsIn(code, Now, watch)

(* The tracer works only for a thread that is in the code.                 *)
ThreadInv == (going # None => pc # None) /\ (dec.on => pc # None)

(* A block remembered since the code last changed ends where it says.      *)
KnownInv ==
    \A e \in fresh : bb[e] \in Addr /\ TransferIn(code, bb[e]) /\ LeadsIn(code, e, bb[e])

(* The walk of decoder has not left the block it started in, and it        *)
(* started where the thread goes next.                                     *)
WalkInv ==
    dec.on =>
        /\ \A t \in Addr : TransferIn(code, t) /\ LeadsIn(code, dec.ip, t) => LeadsIn(code, dec.entry, t)
        /\ dec.found => bb[dec.entry] # Absent
        /\ astray = "no" => dec.entry = Now

IInv == TypeOK /\ WatchInv /\ ThreadInv /\ KnownInv /\ WalkInv

(* The special values are no addresses.                                    *)
LEMMA NoAddresses == None \notin Addr /\ Unset \notin Addr /\ Absent \notin Addr
  BY DEF None, Unset, Absent, Addr

(* What the start of a walk establishes.                                   *)
LEMMA StartFacts ==
    ASSUME TypeOK, NEW a \in Addr
    PROVE  /\ Start(a) \in [on : {TRUE}, entry : Addr, ip : Addr, found : BOOLEAN]
           /\ Start(a).on /\ Start(a).entry = a /\ Start(a).ip = a
           /\ Start(a).found => bb[a] # Absent
  BY DEF Start

LEMMA InitInv == Init => IInv
<1> SUFFICES ASSUME Init PROVE IInv
  OBVIOUS
<1> USE DEF Init
<1>1. TypeOK
  BY BranchFollowerAssumption DEF TypeOK
<1>2. WatchInv /\ ThreadInv /\ KnownInv /\ WalkInv
  BY DEF WatchInv, ThreadInv, KnownInv, WalkInv, Idle
<1> QED
  BY <1>1, <1>2 DEF IInv

(* The processor's and the thread's steps: the thread meets the watched    *)
(* instruction or stays in the block that it ends.                         *)
LEMMA ThreadSteps ==
    ASSUME IInv,
           \/ \E a \in Addr : Enter(a)
           \/ Execute \/ Go
           \/ \E a \in Addr : \E i \in Instructions(a) : Replace(a, i)
    PROVE  IInv'
<1> USE NoAddresses
<1>t. TypeOK /\ ~dec.on
  BY DEF IInv, Enter, Execute, Running, Go, Replace
<1>o. pc = None => ~(watch # None /\ astray = "no")
  BY <1>t, LeadsFromCode DEF IInv, WatchInv, ThreadInv, Now, TypeOK
<1>1. ASSUME NEW a \in Addr, Enter(a) PROVE IInv'
  BY <1>1, <1>t, <1>o DEF Enter, IInv, TypeOK, WatchInv, ThreadInv, KnownInv, WalkInv
<1>2. CASE Execute
  <2>1. pc \in Addr /\ going = None /\ pc # watch /\ code \in Programs
    BY <1>2, <1>t DEF Execute, Running, TypeOK
  <2>2. pc' \in Addr \cup {None}
    BY <1>2, <2>1, InCode, ProgramFacts DEF Execute, IsTransfer
  <2>3. ASSUME watch # None, astray = "no"
        PROVE  LeadsIn(code, pc', watch)
    <3>1. watch \in Addr /\ LeadsIn(code, pc, watch)
      BY <1>t, <2>1, <2>3 DEF TypeOK, IInv, WatchInv, Now
    <3>2. ~TransferIn(code, pc)
      BY <2>1, <3>1, LeadsStops
    <3>3. pc' = Ahead(pc)
      BY <1>2, <3>2, InCode DEF Execute, IsTransfer
    <3> QED
      BY <2>1, <3>1, <3>2, <3>3, InCode, LeadsOn
  <2>4. TypeOK'
    BY <1>2, <1>t, <2>2 DEF Execute, TypeOK
  <2>5. WatchInv'
    BY <1>2, <2>1, <2>3 DEF Execute, IInv, WatchInv, Now
  <2> QED
    BY <1>2, <1>t, <2>1, <2>4, <2>5 DEF Execute, IInv, ThreadInv, KnownInv, WalkInv
<1>3. CASE Go
  BY <1>3, <1>t DEF Go, IInv, TypeOK, WatchInv, ThreadInv, KnownInv, WalkInv, Now
<1>4. ASSUME NEW a \in Addr, NEW i \in Instructions(a), Replace(a, i) PROVE IInv'
  <2>1. code' \in Programs
    BY <1>4, <1>t DEF Replace, TypeOK, Programs
  <2>2. TypeOK'
    <3>1. patches' \in 0..MaxPatches
      BY <1>4, <1>t, BranchFollowerAssumption DEF Replace, TypeOK
    <3>2. /\ UNCHANGED <<pc, going, watch, bb, dec, astray>>
          /\ fresh' = {}
      BY <1>4 DEF Replace
    <3> QED
      BY <1>t, <2>1, <3>1, <3>2 DEF TypeOK
  <2> QED
    BY <1>4, <1>t, <1>o, <2>2 DEF Replace, IInv, WatchInv, ThreadInv, KnownInv, WalkInv
<1> QED
  BY <1>1, <1>2, <1>3, <1>4

(* A sample and the traps: the walk starts where the thread goes next.     *)
LEMMA HandlerSteps ==
    ASSUME IInv, OnSample \/ TrapConditional \/ TrapRegister \/ TrapReturn \/ TrapLost
    PROVE  IInv'
<1> USE NoAddresses
<1>t. TypeOK /\ ~dec.on /\ pc \in Addr /\ going = None /\ code \in Programs
  BY DEF IInv, TypeOK, OnSample, TrapConditional, TrapRegister, TrapReturn, TrapLost,
         Trapped, Running
<1>u. UNCHANGED <<code, patches, pc, bb, fresh>>
  BY DEF OnSample, TrapConditional, TrapRegister, TrapReturn, TrapLost, Trapped
<1>k. KnownInv'
  BY <1>u DEF KnownInv, IInv
<1>w. ASSUME NEW a \in Addr, dec' = Start(a), going' \in Addr \cup {None},
             watch' \in Addr \cup {None},
             astray' \in {"no", "loop", "rbp", "stale", "refused"},
             astray' = "no" => a = Now'
      PROVE  IInv'
  <2>1. dec'.on /\ dec'.entry = a /\ dec'.ip = a /\ (dec'.found => bb[a] # Absent)
    BY <1>t, <1>w, StartFacts
  <2>2. TypeOK'
    BY <1>t, <1>u, <1>w, StartFacts DEF TypeOK
  <2>3. WalkInv'
    BY <1>u, <1>w, <2>1 DEF WalkInv
  <2> QED
    BY <1>t, <1>u, <1>k, <2>1, <2>2, <2>3 DEF IInv, WatchInv, ThreadInv
<1>1. CASE OnSample
  <2>1. Now' = pc
    BY <1>1, <1>t DEF OnSample, Now
  <2> QED
    BY <1>1, <1>t, <1>w, <2>1 DEF OnSample, TypeOK
<1>2. CASE TrapConditional
  <2>1. PICK c \in Conditionals, f \in Flags, n \in Counts :
            /\ dec' = Start(IF Taken(c, f, n) THEN code[pc].to ELSE pc + 1)
            /\ going' = IF Jumped(c, f, n) THEN code[pc].to ELSE pc + 1
            /\ astray' = IF BigLoop(c, n) THEN "loop" ELSE "no"
    BY <1>2 DEF TrapConditional, Outcomes
  <2>2. code[pc].to \in Addr /\ pc + 1 \in Addr
    BY <1>2, <1>t, ProgramFacts DEF TrapConditional
  <2>3. going' \in Addr
    BY <2>1, <2>2
  <2>4. Now' = going'
    BY <2>3 DEF Now
  <2>5. astray' = "no" => (Taken(c, f, n) <=> Jumped(c, f, n))
    BY <2>1, ConditionsExact, BranchFollowerAssumption
  <2>6. watch' = None
    BY <1>2 DEF TrapConditional, Trapped
  <2> DEFINE a == IF Taken(c, f, n) THEN code[pc].to ELSE pc + 1
  <2>7. a \in Addr /\ dec' = Start(a)
    BY <2>1, <2>2
  <2>8. astray' = "no" => a = Now'
    BY <2>1, <2>4, <2>5
  <2>9. astray' \in {"no", "loop", "rbp", "stale", "refused"}
    BY <2>1
  <2> HIDE DEF a
  <2> QED
    BY <1>w, <2>3, <2>6, <2>7, <2>8, <2>9
<1>3. CASE TrapRegister
  <2>1. PICK r \in Registers, regs \in [Registers -> Addr] :
            /\ dec' = Start(ReadReg(regs, r))
            /\ going' = regs[r]
            /\ astray' = IF r = "RBP" THEN "rbp" ELSE "no"
    BY <1>3 DEF TrapRegister
  <2>2. ReadReg(regs, r) \in Addr /\ going' \in Addr
    BY <2>1 DEF ReadReg, Registers
  <2>3. astray' = "no" => ReadReg(regs, r) = Now'
    BY <2>1, <2>2 DEF ReadReg, Now
  <2>4. watch' = None
    BY <1>3 DEF TrapRegister, Trapped
  <2> QED
    BY <1>w, <2>1, <2>2, <2>3, <2>4
<1>4. CASE TrapReturn
  <2>1. PICK a \in Addr : going' = a /\ dec' \in {Start(a), Idle}
    BY <1>4 DEF TrapReturn
  <2>2. watch' = None /\ astray' = "no" /\ Now' = a
    BY <1>4, <2>1 DEF TrapReturn, Trapped, Now
  <2>3. CASE dec' = Start(a)
    BY <1>w, <2>1, <2>2, <2>3
  <2>4. CASE dec' = Idle
    BY <1>t, <1>u, <1>k, <2>1, <2>2, <2>4
       DEF IInv, TypeOK, WatchInv, ThreadInv, WalkInv, Idle
  <2> QED
    BY <2>1, <2>3, <2>4
<1>5. CASE TrapLost
  <2>1. going' \in Addr
    BY <1>5, <1>t, InCode, ProgramFacts DEF TrapLost
  <2>2. watch' = None /\ astray' = "no" /\ Now' = going'
    BY <1>5, <2>1 DEF TrapLost, Trapped, Now
  <2>3. CASE dec' = Start(going')
    BY <1>w, <2>1, <2>2, <2>3
  <2>4. CASE dec' = Idle
    BY <1>t, <1>u, <1>k, <2>1, <2>2, <2>4
       DEF IInv, TypeOK, WatchInv, ThreadInv, WalkInv, Idle
  <2> QED
    BY <1>5, <2>3, <2>4 DEF TrapLost
<1> QED
  BY <1>1, <1>2, <1>3, <1>4, <1>5

-----------------------------------------------------------------------------
(* What a subscription leaves: the old watchpoint or the new one, and the  *)
(* history says when it is the wrong one.                                  *)
LEMMA SubscribeFacts ==
    ASSUME TypeOK, NEW a \in Addr, NEW why \in {"no", "loop", "rbp", "stale", "refused"},
           Subscribe(a, why)
    PROVE  /\ watch' \in Addr
           /\ astray' \in {"no", "loop", "rbp", "stale", "refused"}
           /\ astray' = "no" => watch' = a /\ why = "no"
  BY DEF Subscribe, TypeOK

(* The steps of decoder: the walk stays in the block, and it is the end of *)
(* the block that is watched and remembered.                               *)
LEMMA DecodeSteps ==
    ASSUME IInv, Decode
    PROVE  IInv'
<1> USE NoAddresses
<1>t. /\ TypeOK /\ dec.on /\ code \in Programs
      /\ dec.entry \in Addr /\ dec.ip \in Addr /\ dec.found \in BOOLEAN
      /\ dec \in [on : {TRUE}, entry : Addr, ip : Addr, found : BOOLEAN]
      /\ bb \in [Addr -> Addr \cup {Unset, Absent}] /\ fresh \subseteq Addr
      /\ astray \in {"no", "loop", "rbp", "stale", "refused"}
  <2>1. dec.on
    BY DEF Decode, DecodeKnown, DecodeSequential, DecodeJump, DecodeTransfer, Unknown
  <2>2. dec # Idle
    BY <2>1 DEF Idle
  <2>3. TypeOK
    BY DEF IInv
  <2>4. dec \in [on : {TRUE}, entry : Addr, ip : Addr, found : BOOLEAN]
    BY <2>2, <2>3 DEF TypeOK
  <2> QED
    BY <2>1, <2>3, <2>4 DEF TypeOK
<1>u. UNCHANGED <<code, patches, pc, going>> /\ Now' = Now
  BY DEF Decode, DecodeKnown, DecodeSequential, DecodeJump, DecodeTransfer, Unknown, Now
<1>e. ASSUME dec' = Idle, bb' \in [Addr -> Addr \cup {Unset, Absent}], fresh' \subseteq Addr,
             watch' \in Addr, astray' \in {"no", "loop", "rbp", "stale", "refused"},
             KnownInv',
             astray' = "no" => TransferIn(code, watch') /\ LeadsIn(code, dec.entry, watch')
                               /\ dec.entry = Now
      PROVE  IInv'
  <2>1. TypeOK'
    BY <1>t, <1>u, <1>e DEF TypeOK
  <2>2. WatchInv'
    BY <1>u, <1>e DEF WatchInv
  <2> QED
    BY <1>t, <1>u, <1>e, <2>1, <2>2 DEF IInv, ThreadInv, WalkInv, Idle
<1>i. /\ Inserted \in [Addr -> Addr \cup {Unset, Absent}]
      /\ Inserted[dec.entry] # Absent
      /\ \A b \in Addr : bb[b] # Absent => Inserted[b] = bb[b]
  BY <1>t DEF Inserted, Unset, Absent
<1>k. ASSUME bb' = Inserted, fresh' = fresh PROVE KnownInv'
  BY <1>t, <1>u, <1>i, <1>k DEF KnownInv, IInv
<1>1. CASE DecodeKnown
  <2>1. bb[dec.entry] \in Addr
    BY <1>1, <1>t DEF DecodeKnown, IInv, WalkInv
  <2> DEFINE why == IF dec.entry \in fresh THEN astray ELSE "stale"
  <2>2. why \in {"no", "loop", "rbp", "stale", "refused"}
    BY <1>t
  <2>3. Subscribe(bb[dec.entry], why)
    BY <1>1 DEF DecodeKnown
  <2>4. why = "no" => dec.entry \in fresh /\ astray = "no"
    OBVIOUS
  <2> HIDE DEF why
  <2>5. /\ watch' \in Addr
        /\ astray' \in {"no", "loop", "rbp", "stale", "refused"}
        /\ astray' = "no" => watch' = bb[dec.entry] /\ why = "no"
    BY <1>t, <2>1, <2>2, <2>3, SubscribeFacts
  <2>6. dec' = Idle /\ bb' = bb /\ fresh' = fresh
    BY <1>1 DEF DecodeKnown
  <2>7. KnownInv'
    BY <1>u, <2>6 DEF KnownInv, IInv
  <2>8. astray' = "no" => /\ TransferIn(code, watch') /\ LeadsIn(code, dec.entry, watch')
                          /\ dec.entry = Now
    BY <1>t, <2>4, <2>5 DEF IInv, KnownInv, WalkInv
  <2> QED
    BY <1>e, <1>t, <2>5, <2>6, <2>7, <2>8
<1>2. CASE DecodeSequential \/ DecodeJump
  <2>1. /\ ~TransferIn(code, dec.ip)
        /\ dec' = [dec EXCEPT !.ip = AheadIn(code, dec.ip)]
        /\ bb' = Inserted /\ UNCHANGED <<watch, fresh, astray>>
    BY <1>2, <1>t DEF DecodeSequential, DecodeJump, TransferIn, AheadIn
  <2>2. AheadIn(code, dec.ip) \in Addr
    BY <1>t, ProgramFacts
  <2>3. /\ dec' \in [on : {TRUE}, entry : Addr, ip : Addr, found : BOOLEAN]
        /\ dec'.on /\ dec'.entry = dec.entry /\ dec'.found = dec.found
        /\ dec'.ip = AheadIn(code, dec.ip)
    BY <1>t, <2>1, <2>2
  <2>4. TypeOK'
    BY <1>t, <1>u, <1>i, <2>1, <2>3 DEF TypeOK
  <2>5. \A t \in Addr : LeadsIn(code, dec'.ip, t) => LeadsIn(code, dec.ip, t)
    BY <1>t, <2>1, <2>3, LeadsBack
  <2>6. WalkInv'
    BY <1>t, <1>u, <1>i, <2>1, <2>3, <2>5 DEF WalkInv, IInv
  <2>7. KnownInv'
    BY <1>k, <2>1
  <2> QED
    BY <1>t, <1>u, <2>1, <2>3, <2>4, <2>6, <2>7 DEF IInv, WatchInv, ThreadInv
<1>3. CASE DecodeTransfer
  <2>1. TransferIn(code, dec.ip) /\ Subscribe(dec.ip, astray) /\ dec' = Idle
    BY <1>3, InCode DEF DecodeTransfer
  <2>2. LeadsIn(code, dec.entry, dec.ip)
    BY <1>t, <2>1, LeadsSelf DEF IInv, WalkInv
  <2>3. /\ watch' \in Addr
        /\ astray' \in {"no", "loop", "rbp", "stale", "refused"}
        /\ astray' = "no" => watch' = dec.ip /\ astray = "no"
    BY <1>t, <2>1, SubscribeFacts
  <2>4. /\ bb' \in [Addr -> Addr \cup {Unset, Absent}] /\ fresh' \subseteq Addr
        /\ KnownInv'
    <3>1. CASE dec.found
      <4>1. /\ bb' = [bb EXCEPT ![dec.entry] = dec.ip]
            /\ fresh' = fresh \cup {dec.entry}
        BY <1>3, <3>1 DEF DecodeTransfer
      <4> QED
        BY <1>t, <1>u, <2>1, <2>2, <4>1 DEF KnownInv, IInv
    <3>2. CASE ~dec.found
      BY <1>3, <1>t, <1>i, <1>k, <3>2 DEF DecodeTransfer
    <3> QED
      BY <3>1, <3>2
  <2>5. astray' = "no" => /\ TransferIn(code, watch') /\ LeadsIn(code, dec.entry, watch')
                          /\ dec.entry = Now
    BY <1>t, <2>1, <2>2, <2>3 DEF IInv, WalkInv
  <2> QED
    BY <1>e, <2>1, <2>3, <2>4, <2>5
<1> QED
  BY <1>1, <1>2, <1>3 DEF Decode

(* The inductive invariant holds in every state.                           *)
LEMMA Invariance == Spec => []IInv
<1>1. IInv /\ UNCHANGED vars => IInv'
  BY DEF vars, IInv, TypeOK, WatchInv, ThreadInv, KnownInv, WalkInv, Now
<1>2. IInv /\ [Next]_vars => IInv'
  BY <1>1, ThreadSteps, HandlerSteps, DecodeSteps DEF Next
<1> QED
  BY InitInv, <1>2, PTL DEF Spec

(* Types: every step of decoder and of the handlers keeps the shapes of    *)
(* the watchpoint, of basic_block_map and of the walk.                     *)
THEOREM TypeCorrect == Spec => []TypeOK
<1>1. IInv => TypeOK
  BY DEF IInv
<1> QED
  BY Invariance, <1>1, PTL

(* The watchpoint is on the next transfer that the thread reaches, for     *)
(* code of any length and any register contents, except after one of the   *)
(* four losses that OnTrack names.                                         *)
THEOREM FollowsThread == Spec => []OnTrack
<1>1. IInv => OnTrack
  BY InCode DEF IInv, WatchInv, OnTrack, Now
<1> QED
  BY Invariance, <1>1, PTL
=============================================================================

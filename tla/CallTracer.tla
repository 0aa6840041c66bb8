----------------------------- MODULE CallTracer -----------------------------
(***************************************************************************)
(* How one Java thread is traced after a sample.  OnSample opens a trace   *)
(* on the sampled frame; decoder walks the machine code to the next        *)
(* control transfer and arms the thread's one watchpoint there; every trap *)
(* (OnRetWatchPoint, OnBranchWatchPoint) moves two stacks and a pair of    *)
(* counter stacks by one call level and decodes on, until Threshold calls  *)
(* were decoded.  From then on the tracer only unwinds the frames that are *)
(* still open.                                                             *)
(*                                                                         *)
(* All of this state is thread local: a trap is one step.  What the thread *)
(* executes, and so which transfer the decoder meets, is left open.        *)
(***************************************************************************)
EXTENDS Integers, Sequences

CONSTANTS Threshold,   (* decodeThreshold: calls decoded after a sample    *)
          MaxStack,    (* MAX_STACK: depth of the counter stacks           *)
          Overlaps,    (* whether two transfers can lie within 8 bytes     *)
          MaxSamples,  (* bound: samples in a behaviour                    *)
          MaxWork      (* bound: counted events in a behaviour             *)

ASSUME CallTracerAssumption ==
    /\ Threshold \in Nat
    /\ MaxStack \in Nat \ {0}
    /\ Overlaps \in BOOLEAN
    /\ MaxSamples \in Nat
    /\ MaxWork \in Nat

(* Call levels: 0 is the sampled frame.                                    *)
Levels == 0..(MaxStack - 1)

(* What decoder can meet: a return, any other jump, a call.                *)
Transfers == {"ret", "branch", "call"}

VARIABLES
    decodeInsCounter,  (* calls decoded since the sample                   *)
    wpStack,           (* WP_Stack: the levels still to be watched         *)
    retStack,          (* the size of retCtxtStack                         *)
    top,               (* CPUEventStack.top and CPUEventCntStack.top       *)
    start,             (* CPUEventStack.value                              *)
    count,             (* CPUEventCntStack.value                           *)
    rdCnt,             (* eventRDCnt                                       *)
    runtimeCnt,        (* RuntimeCallCount                                 *)
    watch,             (* the watchpoint slot of the thread                *)
    fault,             (* the assertion or bound that stopped the process  *)
    pending,           (* external: events since the counter was last read *)
    truth,             (* history: events of each open level, callees in,  *)
                       (* runtime calls out                                *)
    rec,               (* history: the instance recorded last              *)
    samples, work      (* what is left of the bounds                       *)

traceVars == <<decodeInsCounter, wpStack, retStack, top, watch, fault>>
countVars == <<start, count, rdCnt, runtimeCnt, pending, truth, rec>>
vars == <<traceVars, countVars, samples, work>>

(* A slot: the instruction or stack word watched, the call level of its    *)
(* calleeCtxtFrame (-3 for a runtime call, -2 for other code), and whether *)
(* that frame belongs to an earlier trace.                                 *)
Kinds == {"stack", "ret", "branch", "call", "runtime"}
NoWatch == [active |-> FALSE, kind |-> "stack", frame |-> 0, old |-> FALSE]
Armed(k, f) == [active |-> TRUE, kind |-> k, frame |-> f, old |-> FALSE]

NoRec == [level |-> 0, frame |-> 0, old |-> FALSE, value |-> 0, truth |-> 0]

Init ==
    /\ decodeInsCounter = 0
    /\ wpStack = <<>>
    /\ retStack = 0
    /\ top = -1
    /\ start = [l \in Levels |-> 0]
    /\ count = [l \in Levels |-> 0]
    /\ rdCnt = 0
    /\ runtimeCnt = 0
    /\ watch = NoWatch
    /\ fault = "none"
    /\ pending = 0
    /\ truth = [l \in Levels |-> 0]
    /\ rec = NoRec
    /\ samples = MaxSamples
    /\ work = MaxWork

-----------------------------------------------------------------------------
Pop(s) == SubSeq(s, 1, Len(s) - 1)
Peek(s) == s[Len(s)]

(* The test decoder and OnRetWatchPoint share.                             *)
OverThreshold(c) == c >= Threshold

(* Mutant: a call is not counted.                                          *)
Decoded_NotCounted(c, x) == c

Decoded(c, x) == IF x = "call" THEN c + 1 ELSE c

(* decoder: the state after walking to a transfer x with stacks w and r.   *)
Decoder(w, r, c, x) ==
    IF w = <<>> THEN [w |-> w, r |-> r, c |-> c, watch |-> NoWatch, fault |-> "underflow"]
    ELSE IF OverThreshold(c)
    THEN [w |-> Pop(w), r |-> r, c |-> c, watch |-> Armed("stack", Peek(w)), fault |-> "none"]
    ELSE IF x = "ret" /\ Len(w) = 1
    THEN [w |-> Pop(w), r |-> r - 1, c |-> c, watch |-> Armed("stack", Peek(w)),
          fault |-> IF r = 0 THEN "underflow" ELSE "none"]
    ELSE IF x = "ret"
    THEN [w |-> Pop(w), r |-> r, c |-> c, watch |-> Armed("ret", Peek(w)), fault |-> "none"]
    ELSE [w |-> w, r |-> r, c |-> Decoded(c, x), watch |-> Armed(x, -2),
          fault |-> "none"]

(* IsOverlapped: the address of d can overlap the one watched when both    *)
(* are stack words, or two transfers less than 8 bytes apart.  (Refused on *)
(* the very same transfer, the slot is what it would have become.)         *)
CanOverlap(d) ==
    /\ watch.active
    /\ (watch.kind = "stack") = (d.kind = "stack")
    /\ d.kind = "stack" \/ Overlaps

(* keep: WP_Subscribe refuses an address that overlaps the one watched.    *)
(* It returns before it writes the slot: the old watchpoint stays, and so  *)
(* does its calleeCtxtFrame.  No caller looks at the result.               *)
DecodeKeeping(w, r, c, x, keep) ==
    LET d == Decoder(w, r, c, x)
    IN  /\ keep => CanOverlap(d.watch)
        /\ wpStack' = d.w
        /\ retStack' = d.r
        /\ decodeInsCounter' = d.c
        /\ watch' = IF keep THEN [watch EXCEPT !.old = TRUE] ELSE d.watch
        /\ fault' = d.fault

(* In a trap the slot is free and the subscription succeeds.               *)
Decode(w, r, c, x) == DecodeKeeping(w, r, c, x, FALSE)

(* OnWatchPoint disables the slot and reads the counter.                   *)
Trapped(kinds) ==
    /\ fault = "none"
    /\ watch.active
    /\ watch.kind \in kinds
    /\ pending' = 0

Read == rdCnt + pending

(* The instance at the top level ends: its count includes what was read,   *)
(* and so does the count of its caller.  The context is built on the       *)
(* calleeCtxtFrame of the slot.                                            *)
Record(slot) ==
    LET value == count[top] + Read
    IN  /\ top' = top - 1
        /\ count' = [l \in Levels |-> IF l \in {top, top - 1} THEN count[l] + Read ELSE count[l]]
        /\ start' = IF top = 0 THEN [start EXCEPT ![0] = @ + value] ELSE start
        /\ rec' = [level |-> top, frame |-> slot.frame, old |-> slot.old,
                   value |-> value, truth |-> truth[top]]

-----------------------------------------------------------------------------
(* External: the thread executes and the counted event occurs.             *)
Work ==
    /\ fault = "none"
    /\ work > 0
    /\ work' = work - 1
    /\ pending' = pending + 1
    /\ truth' = IF watch.active /\ watch.kind = "runtime" THEN truth
                ELSE [l \in Levels |-> IF l <= top THEN truth[l] + 1 ELSE truth[l]]
    /\ UNCHANGED <<traceVars, start, count, rdCnt, runtimeCnt, rec, samples>>

(* Mutant: WP_Stack is not cleared.                                        *)
OnSample_KeepsWatchStack(x, keep) ==
    /\ fault = "none"
    /\ samples > 0
    /\ samples' = samples - 1
    /\ DecodeKeeping(Append(wpStack, 0), 1, 0, x, keep)
    /\ top' = 0
    /\ count' = [count EXCEPT ![0] = 0]
    /\ truth' = [truth EXCEPT ![0] = 0]
    /\ rdCnt' = 0
    /\ pending' = 0
    /\ UNCHANGED <<start, runtimeCnt, rec, work>>

(* OnSample in a compiled, selected method; x is the next transfer.  The   *)
(* watchpoint of an earlier trace may still be armed: a subscription that  *)
(* overlaps it is refused, and the new trace goes on with the old slot.    *)
OnSample(x, keep) ==
    /\ fault = "none"
    /\ samples > 0
    /\ samples' = samples - 1
    /\ DecodeKeeping(<<0>>, 1, 0, x, keep)
    /\ top' = 0
    /\ count' = [count EXCEPT ![0] = 0]
    /\ truth' = [truth EXCEPT ![0] = 0]
    /\ rdCnt' = 0
    /\ pending' = 0
    /\ UNCHANGED <<start, runtimeCnt, rec, work>>

(* The trap came while the thread was inside the agent.                    *)
TrapInsideAgent ==
    /\ Trapped(Kinds)
    /\ watch' = NoWatch
    /\ rdCnt' = Read
    /\ UNCHANGED <<decodeInsCounter, wpStack, retStack, top, fault, start, count,
                   runtimeCnt, truth, rec, samples, work>>

(* No compiled method at the trapped pc; no pc at all.                     *)
TrapOutsideJava ==
    /\ Trapped(Kinds)
    /\ watch' = NoWatch
    /\ top' \in {top - 1, -1}
    /\ rdCnt' = Read
    /\ UNCHANGED <<decodeInsCounter, wpStack, retStack, fault, start, count,
                   runtimeCnt, truth, rec, samples, work>>

(* Mutant: the time of the call is taken off instead of dropped.           *)
TrapRuntimeReturn_Subtracts(x) ==
    /\ Trapped({"runtime"})
    /\ rdCnt' = runtimeCnt - Read
    /\ Decode(wpStack, retStack, decodeInsCounter, x)
    /\ UNCHANGED <<top, start, count, runtimeCnt, truth, rec, samples, work>>

(* A runtime call returned: its events are dropped, decoding resumes.      *)
TrapRuntimeReturn(x) ==
    /\ Trapped({"runtime"})
    /\ rdCnt' = runtimeCnt
    /\ Decode(wpStack, retStack, decodeInsCounter, x)
    /\ UNCHANGED <<top, start, count, runtimeCnt, truth, rec, samples, work>>

(* Mutant: the frame is read before the slot is armed.                     *)
TrapOverThreshold_ReadsFirst(sane) ==
    LET next == IF wpStack = <<>> THEN [watch EXCEPT !.active = FALSE]
                ELSE Armed("stack", Peek(wpStack))
    IN  /\ Trapped(Kinds \ {"runtime"})
        /\ OverThreshold(decodeInsCounter)
        /\ retStack # 0
        /\ wpStack' = IF wpStack = <<>> THEN wpStack ELSE Pop(wpStack)
        /\ IF sane
           THEN /\ Record(watch)
                /\ rdCnt' = 0
                /\ retStack' = retStack - 1
                /\ watch' = next
           ELSE /\ top' = top - 1
                /\ rdCnt' = Read
                /\ watch' = NoWatch
                /\ UNCHANGED <<start, count, rec, retStack>>
        /\ fault' = IF top \in Levels THEN "none" ELSE "underflow"
        /\ UNCHANGED <<decodeInsCounter, runtimeCnt, truth, samples, work>>

(* Past the threshold: watch the next open frame, then record.  The slot   *)
(* is armed first, and the frame recorded is read from the slot.           *)
TrapOverThreshold(sane) ==
    LET next == IF wpStack = <<>> THEN [watch EXCEPT !.active = FALSE]
                ELSE Armed("stack", Peek(wpStack))
    IN  /\ Trapped(Kinds \ {"runtime"})
        /\ OverThreshold(decodeInsCounter)
        /\ retStack # 0
        /\ wpStack' = IF wpStack = <<>> THEN wpStack ELSE Pop(wpStack)
        /\ IF sane
           THEN /\ Record(next)
                /\ rdCnt' = 0
                /\ retStack' = retStack - 1
                /\ watch' = next
           ELSE /\ top' = top - 1
                /\ rdCnt' = Read
                /\ watch' = NoWatch
                /\ UNCHANGED <<start, count, rec, retStack>>
        /\ fault' = IF top \in Levels THEN "none" ELSE "underflow"
        /\ UNCHANGED <<decodeInsCounter, runtimeCnt, truth, samples, work>>

(* Past the threshold with nothing left to return to: assert(0).           *)
TrapOverThresholdAssert ==
    /\ Trapped(Kinds \ {"runtime"})
    /\ OverThreshold(decodeInsCounter)
    /\ retStack = 0
    /\ fault' = "retCtxtEmpty"
    /\ watch' = NoWatch
    /\ rdCnt' = Read
    /\ UNCHANGED <<decodeInsCounter, wpStack, retStack, top, start, count,
                   runtimeCnt, truth, rec, samples, work>>

(* A traced callee is about to return.                                     *)
TrapRet(x) ==
    /\ Trapped({"ret"})
    /\ ~OverThreshold(decodeInsCounter)
    /\ IF top \in Levels /\ retStack # 0
       THEN /\ Record(watch)
            /\ rdCnt' = 0
            /\ IF wpStack = <<>>
               THEN /\ retStack' = retStack - 1
                    /\ watch' = NoWatch
                    /\ UNCHANGED <<wpStack, decodeInsCounter, fault>>
               ELSE Decode(wpStack, retStack - 1, decodeInsCounter, x)
       ELSE /\ fault' = "underflow"
            /\ UNCHANGED <<top, start, count, rec, rdCnt, retStack, wpStack,
                           decodeInsCounter, watch>>
    /\ UNCHANGED <<runtimeCnt, truth, samples, work>>

(* A branch resolved; x is the first transfer on the path taken.           *)
TrapBranch(x) ==
    /\ Trapped({"branch"})
    /\ ~OverThreshold(decodeInsCounter)
    /\ rdCnt' = Read
    /\ Decode(wpStack, retStack, decodeInsCounter, x)
    /\ UNCHANGED <<top, start, count, runtimeCnt, truth, rec, samples, work>>

(* A call into the runtime: watch its return address.                      *)
TrapRuntimeCall ==
    /\ Trapped({"call"})
    /\ ~OverThreshold(decodeInsCounter)
    /\ rdCnt' = 0
    /\ runtimeCnt' = 0
    /\ watch' = Armed("runtime", -3)
    /\ UNCHANGED <<decodeInsCounter, wpStack, retStack, top, fault, start, count,
                   truth, rec, samples, work>>

(* Mutant: the callee inherits the count of an earlier one.                *)
TrapJavaCall_KeepsCount(x) ==
    LET new == top + 1
    IN  /\ Trapped({"call"})
        /\ ~OverThreshold(decodeInsCounter)
        /\ IF new \in Levels
           THEN /\ top' = new
                /\ rdCnt' = 0
                /\ count' = [count EXCEPT ![top] = @ + Read]
                /\ start' = [start EXCEPT ![new] = start[top] + count[top] + Read]
                /\ truth' = [truth EXCEPT ![new] = 0]
                /\ Decode(Append(wpStack, new), retStack + 1, decodeInsCounter, x)
           ELSE /\ fault' = "overflow"
                /\ UNCHANGED <<top, rdCnt, count, start, truth, wpStack,
                               retStack, decodeInsCounter, watch>>
        /\ UNCHANGED <<runtimeCnt, rec, samples, work>>

(* A call of a compiled method opens a level; nothing bounds the level.    *)
TrapJavaCall(x) ==
    LET new == top + 1
    IN  /\ Trapped({"call"})
        /\ ~OverThreshold(decodeInsCounter)
        /\ IF new \in Levels
           THEN /\ top' = new
                /\ rdCnt' = 0
                /\ count' = [count EXCEPT ![top] = @ + Read, ![new] = 0]
                /\ start' = [start EXCEPT ![new] = start[top] + count[top] + Read]
                /\ truth' = [truth EXCEPT ![new] = 0]
                /\ Decode(Append(wpStack, new), retStack + 1, decodeInsCounter, x)
           ELSE /\ fault' = "overflow"
                /\ UNCHANGED <<top, rdCnt, count, start, truth, wpStack,
                               retStack, decodeInsCounter, watch>>
        /\ UNCHANGED <<runtimeCnt, rec, samples, work>>

(* The word at the sampled frame's stack pointer was touched.  The frame   *)
(* must be the only one open.                                              *)
TrapRoot(sane) ==
    /\ Trapped({"stack"})
    /\ ~OverThreshold(decodeInsCounter)
    /\ watch' = NoWatch
    /\ rdCnt' = Read
    /\ fault' = IF sane /\ top # 0 THEN "rootDepth" ELSE "none"
    /\ IF sane /\ top = 0
       THEN Record(watch)
       ELSE top' = top - 1 /\ UNCHANGED <<start, count, rec>>
    /\ UNCHANGED <<decodeInsCounter, wpStack, retStack, runtimeCnt, truth,
                   samples, work>>

-----------------------------------------------------------------------------
Trap ==
    \/ TrapInsideAgent
    \/ TrapOutsideJava
    \/ TrapOverThresholdAssert
    \/ TrapRuntimeCall
    \/ \E sane \in BOOLEAN : TrapOverThreshold(sane) \/ TrapRoot(sane)
    \/ \E x \in Transfers :
          TrapRuntimeReturn(x) \/ TrapRet(x) \/ TrapBranch(x) \/ TrapJavaCall(x)

Next == Work \/ (\E x \in Transfers, keep \in BOOLEAN : OnSample(x, keep)) \/ Trap

Spec == Init /\ [][Next]_vars

-----------------------------------------------------------------------------
(* Properties.                                                             *)

Faults == {"none", "underflow", "overflow", "retCtxtEmpty", "rootDepth"}

(* Every variable of the tracer keeps its shape.                           *)
TypeOK ==
    /\ decodeInsCounter \in 0..Threshold
    /\ wpStack \in Seq(Levels)
    /\ retStack \in Nat
    /\ top \in -2..(MaxStack - 1)
    /\ start \in [Levels -> Nat]
    /\ count \in [Levels -> Nat]
    /\ rdCnt \in Nat
    /\ runtimeCnt \in Nat
    /\ watch \in [active : BOOLEAN, kind : Kinds, frame : -3..(MaxStack - 1), old : BOOLEAN]
    /\ fault \in Faults
    /\ pending \in Nat
    /\ truth \in [Levels -> Nat]
    /\ rec \in [level : Levels, frame : -3..(MaxStack - 1), old : BOOLEAN,
                value : Nat, truth : Nat]
    /\ samples \in 0..MaxSamples
    /\ work \in 0..MaxWork

(* Whatever order samples, traps and dropped traps come in, the tracer     *)
(* never reads or pops a stack that is empty, and the assertion that the   *)
(* sampled frame is the only one open when it returns holds                *)
(* (decoder, OnBranchWatchPoint, OnRetWatchPoint).                         *)
NoStackUnderflow == fault \notin {"underflow", "rootDepth"}

(* The counter stacks never hold more levels than calls were decoded, so   *)
(* that a threshold within MAX_STACK keeps the index inside the arrays.    *)
DepthWithinThreshold ==
    /\ fault = "overflow" => Threshold > MaxStack
    /\ top <= 0 \/ top < Threshold

(* An interval taken off level l of the counter stacks is filed under this *)
(* trace's calleeCtxtFrame of level l, although past the threshold the     *)
(* slot the frame is read from has just been armed for another one.  Only  *)
(* the interval of the sampled frame itself can go to a frame of an        *)
(* earlier trace, whose watchpoint a refused subscription left in place.   *)
RecordedFrameMatches == IF rec.old THEN rec.level = 0 ELSE rec.frame = rec.level

(* No instance is charged more events than occurred while it was open.     *)
NoOverattribution == rec.value <= rec.truth

(* decodeThreshold = 0, the default: no assertion can fail.                *)
NoFault == fault = "none"

(* The assertion at the head of the over-threshold path: whoever returns   *)
(* has an entry on retCtxtStack.                                           *)
RetCtxtAssertHolds == fault # "retCtxtEmpty"

=============================================================================

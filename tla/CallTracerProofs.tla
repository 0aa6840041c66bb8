-------------------------- MODULE CallTracerProofs --------------------------
(***************************************************************************)
(* Proofs about the tracer of one thread, for every tracing depth and      *)
(* every size of the counter stacks.  What the two stacks and the counter  *)
(* index have in common depends on what the armed watchpoint is for.       *)
(***************************************************************************)
EXTENDS CallTracer, SequenceTheorems, TLAPS

(* No subscription for an instruction is refused: transfers lie far apart, *)
(* or none is ever watched.  One for a stack word may be.                  *)
NoNearTransfers == Overlaps = FALSE \/ Threshold = 0

WatchType == [active : BOOLEAN, kind : Kinds, frame : -3..(MaxStack - 1), old : BOOLEAN]
RecType == [level : Levels, frame : -3..(MaxStack - 1), old : BOOLEAN, value : Nat, truth : Nat]

(* WP_Stack holds one entry for every level up to its length.              *)
Staircase(w) == \A i \in 1..Len(w) : w[i] = i - 1

(* The stacks, the counter index and the armed watchpoint agree.           *)
Shape(w, r, c, tp, wt) ==
    /\ wt.kind = "ret" =>
          c < Threshold /\ tp >= 1 /\ Len(w) = tp /\ r = tp + 1 /\ wt.frame = tp /\ ~wt.old
    /\ wt.kind \in {"branch", "runtime"} => c < Threshold /\ tp >= 0 /\ Len(w) = tp + 1 /\ r = tp + 1
    /\ wt.kind = "call" => tp >= 0 /\ tp + 1 <= c /\ Len(w) = tp + 1 /\ r = tp + 1
    /\ wt.kind = "stack" /\ c < Threshold =>
          w = <<>> /\ r = 0 /\ tp = 0 /\ (wt.old \/ wt.frame = 0)
    /\ wt.kind = "stack" /\ c >= Threshold /\ Threshold = 0 =>
          w = <<>> /\ r = 1 /\ tp = 0 /\ (wt.old \/ wt.frame = 0)
    /\ wt.kind = "stack" /\ c >= Threshold /\ Threshold > 0 =>
          tp >= -1 /\ Len(w) = tp + 1 /\ r = tp + 1
    /\ Threshold = 0 => wt.kind = "stack"
    /\ tp <= c

TraceInv ==
    /\ watch.active =>
          /\ Staircase(wpStack)
          /\ Shape(wpStack, retStack, decodeInsCounter, top, watch)
    /\ fault \in {"none", "overflow", "retCtxtEmpty"}
    /\ Threshold = 0 => fault = "none"

(* What is counted for an open level has happened since it was opened.     *)
AttributionInv ==
    /\ runtimeCnt = 0
    /\ watch.active => \A l \in Levels : l <= top =>
          count[l] + (IF watch.kind = "runtime" THEN 0 ELSE rdCnt + pending) <= truth[l]

IInv ==
    /\ TypeOK
    /\ TraceInv
    /\ DepthWithinThreshold
    /\ RecordedFrameMatches
    /\ AttributionInv
    /\ NoOverattribution

-----------------------------------------------------------------------------
(* Popping a stack.                                                        *)
LEMMA PopSeq ==
    ASSUME NEW S, NEW w \in Seq(S), w # <<>>
    PROVE  Pop(w) \in Seq(S) /\ \A i \in 1..(Len(w) - 1) : Pop(w)[i] = w[i]
<1>1. Pop(w) \in Seq(S)
  BY DEF Pop
<1>2. \A i \in 1..(Len(w) - 1) : Pop(w)[i] = w[i]
  BY DEF Pop
<1> QED
  BY <1>1, <1>2

LEMMA PeekSeq ==
    ASSUME NEW S, NEW w \in Seq(S), w # <<>>
    PROVE  Peek(w) \in S /\ Len(w) \in Nat /\ Len(w) >= 1
  BY DEF Peek

LEMMA PopLen ==
    ASSUME NEW S, NEW w \in Seq(S), w # <<>>
    PROVE  Len(Pop(w)) = Len(w) - 1
<1>1. Len(w) \in Nat /\ Len(w) >= 1
  BY PeekSeq
<1>2. \A i \in 1..(Len(w) - 1) : w[i] \in S
  BY <1>1
<1>3. Len(w) - 1 \in Int /\ 1 \in Int
  BY <1>1
<1>4. Len(SubSeq(w, 1, Len(w) - 1)) = IF 1 <= Len(w) - 1 THEN (Len(w) - 1) - 1 + 1 ELSE 0
  BY <1>2, <1>3, SubSeqProperties, SMT
<1>5. (IF 1 <= Len(w) - 1 THEN (Len(w) - 1) - 1 + 1 ELSE 0) = Len(w) - 1
  <2>1. \A n \in Nat : n >= 1 => (IF 1 <= n - 1 THEN (n - 1) - 1 + 1 ELSE 0) = n - 1
    OBVIOUS
  <2> QED
    BY <1>1, <2>1, Zenon
<1>6. Pop(w) = SubSeq(w, 1, Len(w) - 1)
  BY DEF Pop
<1> QED
  BY <1>4, <1>5, <1>6, Zenon

(* The top of a staircase is its highest level.                            *)
LEMMA PopStaircase ==
    ASSUME NEW w \in Seq(Levels), w # <<>>, Staircase(w)
    PROVE  Staircase(Pop(w)) /\ Peek(w) = Len(w) - 1
<1>1. Len(Pop(w)) = Len(w) - 1 /\ Len(w) \in Nat /\ Len(w) >= 1
  BY PopLen, PeekSeq
<1>2. \A i \in 1..(Len(w) - 1) : Pop(w)[i] = w[i]
  BY PopSeq
<1>3. \A i \in 1..Len(w) : w[i] = i - 1
  BY DEF Staircase
<1>4. \A i \in 1..(Len(w) - 1) : Pop(w)[i] = i - 1
  BY <1>1, <1>2, <1>3
<1>5. Staircase(Pop(w))
  BY <1>1, <1>4 DEF Staircase
<1> QED
  BY <1>1, <1>3, <1>5 DEF Peek

LEMMA AppendStaircase ==
    ASSUME NEW w \in Seq(Levels), Staircase(w), NEW l \in Levels, l = Len(w)
    PROVE  /\ Append(w, l) \in Seq(Levels)
           /\ Len(Append(w, l)) = l + 1
           /\ Staircase(Append(w, l))
  BY DEF Staircase

(* What a result d of decoder has to be when tp is the counter index.      *)
WellDecoded(d, tp) ==
    /\ d.w \in Seq(Levels) /\ Staircase(d.w)
    /\ d.r \in Nat /\ d.c \in 0..Threshold
    /\ d.watch \in WatchType /\ d.watch.active /\ d.watch.kind # "runtime"
    /\ Shape(d.w, d.r, d.c, tp, d.watch)
    /\ d.fault = "none"

(* decoder leaves the stacks in the shape its watchpoint calls for.        *)
LEMMA DecoderShape ==
    ASSUME NEW w \in Seq(Levels), NEW c \in 0..Threshold, NEW tp \in Nat, NEW x \in Transfers,
           Staircase(w), tp <= c, Len(w) = tp + 1,
           c < Threshold \/ (Threshold = 0 /\ tp = 0)
    PROVE  WellDecoded(Decoder(w, tp + 1, c, x), tp)
<1> DEFINE d == Decoder(w, tp + 1, c, x)
<1>1. w # <<>> /\ Threshold \in Nat /\ MaxStack \in Nat \ {0}
  BY CallTracerAssumption
<1>2. /\ Pop(w) \in Seq(Levels) /\ Len(Pop(w)) = tp /\ Peek(w) \in Levels
      /\ Staircase(Pop(w)) /\ Peek(w) = tp
  <2>1. Len(Pop(w)) = Len(w) - 1 /\ Len(w) - 1 = tp
    BY <1>1, PopLen
  <2>2. Pop(w) \in Seq(Levels) /\ Peek(w) \in Levels
    BY <1>1, PopSeq, PeekSeq
  <2>3. Staircase(Pop(w)) /\ Peek(w) = Len(w) - 1
    BY <1>1, PopStaircase
  <2> QED
    BY <2>1, <2>2, <2>3
<1>3. \A k \in Kinds, f \in Levels \cup {-2} :
         /\ Armed(k, f) \in WatchType
         /\ Armed(k, f).active /\ Armed(k, f).kind = k /\ Armed(k, f).frame = f
         /\ Armed(k, f).old = FALSE
  BY <1>1 DEF Armed, Levels, WatchType
<1>4. tp = 0 => Pop(w) = <<>>
  BY <1>2, EmptySeq
<1>5. "stack" \in Kinds /\ "ret" \in Kinds /\ "branch" \in Kinds /\ "call" \in Kinds
  BY DEF Kinds
<1> DEFINE p == Pop(w)
           wt(k) == Armed(k, Peek(w))
<1>6. /\ wt("stack") \in WatchType /\ wt("stack").active
      /\ wt("stack").kind = "stack" /\ wt("stack").frame = tp
  BY <1>2, <1>3, <1>5
<1>7. CASE c >= Threshold
  <2>1. d = [w |-> p, r |-> tp + 1, c |-> c, watch |-> wt("stack"), fault |-> "none"]
    BY <1>1, <1>7 DEF Decoder, OverThreshold
  <2>2. /\ d.w = p /\ d.r = tp + 1 /\ d.c = c /\ d.watch = wt("stack") /\ d.fault = "none"
    BY <2>1
  <2>3. Threshold = 0 /\ tp = 0
    BY <1>1, <1>7
  <2> HIDE DEF p, wt
  <2>4. Shape(p, tp + 1, c, tp, wt("stack"))
    BY <1>1, <1>4, <1>6, <1>7, <2>3 DEF Shape, p
  <2> QED
    BY <1>1, <1>2, <1>6, <2>2, <2>4 DEF p, WellDecoded
<1>8. CASE c < Threshold /\ x = "ret" /\ Len(w) = 1
  <2>1. d = [w |-> p, r |-> tp, c |-> c, watch |-> wt("stack"), fault |-> "none"]
    <3>1. ~OverThreshold(c) /\ tp + 1 # 0 /\ (tp + 1) - 1 = tp
      BY <1>1, <1>8 DEF OverThreshold
    <3> QED
      BY <1>1, <1>8, <3>1, Zenon DEF Decoder
  <2>2. /\ d.w = p /\ d.r = tp /\ d.c = c /\ d.watch = wt("stack") /\ d.fault = "none"
    BY <2>1
  <2>3. tp = 0
    <3>1. tp + 1 = 1
      BY <1>8, Zenon
    <3> QED
      BY <3>1
  <2> HIDE DEF p, wt
  <2>4. Shape(p, tp, c, tp, wt("stack"))
    BY <1>1, <1>4, <1>6, <1>8, <2>3 DEF Shape, p
  <2> QED
    BY <1>1, <1>2, <1>6, <2>2, <2>4 DEF p, WellDecoded
<1>9. CASE c < Threshold /\ x = "ret" /\ Len(w) # 1
  <2>1. d = [w |-> p, r |-> tp + 1, c |-> c, watch |-> wt("ret"), fault |-> "none"]
    BY <1>1, <1>9 DEF Decoder, OverThreshold
  <2>2. /\ d.w = p /\ d.r = tp + 1 /\ d.c = c /\ d.watch = wt("ret") /\ d.fault = "none"
    BY <2>1
  <2>3. /\ wt("ret") \in WatchType /\ wt("ret").active
        /\ wt("ret").kind = "ret" /\ wt("ret").frame = tp /\ wt("ret").old = FALSE
    BY <1>2, <1>3, <1>5
  <2>4. tp >= 1
    <3>1. tp + 1 # 1
      BY <1>9, Zenon
    <3> QED
      BY <3>1
  <2> HIDE DEF p, wt
  <2>5. Shape(p, tp + 1, c, tp, wt("ret"))
    BY <1>1, <1>2, <1>9, <2>3, <2>4 DEF Shape, p
  <2> QED
    BY <1>1, <1>2, <2>2, <2>3, <2>5 DEF p, WellDecoded
<1>10. CASE c < Threshold /\ x # "ret"
  <2>1. d = [w |-> w, r |-> tp + 1, c |-> Decoded(c, x), watch |-> Armed(x, -2), fault |-> "none"]
    BY <1>1, <1>10 DEF Decoder, OverThreshold
  <2>2. /\ d.w = w /\ d.r = tp + 1 /\ d.c = Decoded(c, x) /\ d.watch = Armed(x, -2)
        /\ d.fault = "none"
    BY <2>1
  <2>3. x \in {"branch", "call"} /\ x \in Kinds
    BY <1>10 DEF Transfers, Kinds
  <2>4. /\ Armed(x, -2) \in WatchType /\ Armed(x, -2).active /\ Armed(x, -2).kind = x
    BY <1>3, <2>3
  <2>5. Decoded(c, x) \in 0..Threshold /\ (x = "branch" => Decoded(c, x) = c)
        /\ (x = "call" => Decoded(c, x) = c + 1)
    BY <1>1, <1>10 DEF Decoded
  <2>6. Shape(w, tp + 1, Decoded(c, x), tp, Armed(x, -2))
    BY <1>1, <1>10, <2>3, <2>4, <2>5 DEF Shape
  <2> QED
    BY <1>1, <2>2, <2>3, <2>4, <2>5, <2>6 DEF WellDecoded
<1> QED
  BY <1>1, <1>7, <1>8, <1>9, <1>10

-----------------------------------------------------------------------------
(* A call of decoder establishes the trace invariant.                      *)
LEMMA DecodeStep ==
    ASSUME NoNearTransfers,
           NEW w \in Seq(Levels), NEW c \in 0..Threshold, NEW tp \in Nat, NEW x \in Transfers,
           NEW keep \in BOOLEAN, watch \in WatchType,
           Staircase(w), tp <= c, Len(w) = tp + 1,
           c < Threshold \/ (Threshold = 0 /\ tp = 0),
           NEW r, r = tp + 1,
           DecodeKeeping(w, r, c, x, keep)
    PROVE  /\ wpStack' \in Seq(Levels) /\ Staircase(wpStack')
           /\ retStack' \in Nat /\ decodeInsCounter' \in 0..Threshold
           /\ watch' \in WatchType /\ watch'.active /\ watch'.kind # "runtime"
           /\ Shape(wpStack', retStack', decodeInsCounter', tp, watch')
           /\ fault' = "none"
<1> DEFINE d == Decoder(w, r, c, x)
<1>1. WellDecoded(d, tp)
  BY DecoderShape
<1>2. /\ keep => CanOverlap(d.watch)
      /\ wpStack' = d.w /\ retStack' = d.r /\ decodeInsCounter' = d.c
      /\ watch' = (IF keep THEN [watch EXCEPT !.old = TRUE] ELSE d.watch) /\ fault' = d.fault
  BY DEF DecodeKeeping
<1> HIDE DEF d
<1>3. Threshold = 0 => d.watch.kind = "stack"
  BY <1>1 DEF WellDecoded, Shape
(* The slot kept is a stack word like the one refused.                     *)
<1>4. CASE keep
  <2>1. watch.active /\ watch.kind = "stack" /\ d.watch.kind = "stack"
    BY <1>2, <1>3, <1>4 DEF NoNearTransfers, CanOverlap
  <2>2. /\ watch' = [watch EXCEPT !.old = TRUE]
        /\ watch' \in WatchType /\ watch'.active /\ watch'.kind = "stack" /\ watch'.old
    BY <1>2, <1>4, <2>1 DEF WatchType
  <2>3. Shape(d.w, d.r, d.c, tp, watch')
    <3>1. Shape(d.w, d.r, d.c, tp, d.watch)
      BY <1>1 DEF WellDecoded
    <3> QED
      BY <2>1, <2>2, <3>1 DEF Shape
  <2> QED
    BY <1>1, <1>2, <2>2, <2>3 DEF WellDecoded
<1>5. CASE ~keep
  BY <1>1, <1>2, <1>5 DEF WellDecoded
<1> QED
  BY <1>4, <1>5

(* The parts of TypeOK.                                                    *)
TypeTrace ==
    /\ decodeInsCounter \in 0..Threshold
    /\ wpStack \in Seq(Levels)
    /\ retStack \in Nat
    /\ top \in -2..(MaxStack - 1)
    /\ watch \in WatchType
    /\ fault \in Faults

TypeCount ==
    /\ start \in [Levels -> Nat]
    /\ count \in [Levels -> Nat]
    /\ rdCnt \in Nat
    /\ runtimeCnt \in Nat
    /\ pending \in Nat
    /\ truth \in [Levels -> Nat]
    /\ rec \in RecType
    /\ samples \in 0..MaxSamples
    /\ work \in 0..MaxWork

LEMMA TypeParts == TypeOK <=> TypeTrace /\ TypeCount
  BY DEF TypeOK, TypeTrace, TypeCount, WatchType, RecType

LEMMA TypePartsNext == TypeTrace' /\ TypeCount' => TypeOK'
  BY DEF TypeOK, TypeTrace, TypeCount, WatchType, RecType

LEMMA ConstantFacts ==
    /\ Threshold \in Nat /\ MaxStack \in Nat /\ MaxStack >= 1
    /\ MaxSamples \in Nat /\ MaxWork \in Nat /\ 0 \in Levels
  BY CallTracerAssumption DEF Levels

LEMMA NoWatchType == NoWatch \in WatchType /\ NoWatch.active = FALSE
  BY ConstantFacts DEF NoWatch, WatchType, Kinds

LEMMA InitIInv == Init => IInv
<1> SUFFICES ASSUME Init PROVE IInv
  OBVIOUS
<1>1. TypeTrace
  BY ConstantFacts, NoWatchType DEF Init, TypeTrace, Faults
<1>2. TypeCount
  BY ConstantFacts DEF Init, TypeCount, NoRec, RecType
<1>3. TraceInv
  BY NoWatchType DEF Init, TraceInv
<1>4. DepthWithinThreshold /\ RecordedFrameMatches /\ NoOverattribution
  BY DEF Init, DepthWithinThreshold, RecordedFrameMatches, NoOverattribution, NoRec
<1>5. AttributionInv
  BY NoWatchType DEF Init, AttributionInv
<1> QED
  BY <1>1, <1>2, <1>3, <1>4, <1>5, TypeParts DEF IInv

(* Between two traps.                                                      *)
LEMMA WorkStep == IInv /\ Work => IInv'
<1> SUFFICES ASSUME IInv, Work PROVE IInv'
  OBVIOUS
<1> USE ConstantFacts
<1>1. TypeTrace /\ TypeCount
  BY TypeParts DEF IInv
<1>2. TypeTrace'
  BY <1>1 DEF Work, traceVars, TypeTrace
<1>3. TypeCount'
  <2>1. truth' \in [Levels -> Nat]
    BY <1>1 DEF Work, TypeCount
  <2>2. pending' \in Nat /\ work' \in 0..MaxWork
    BY <1>1 DEF Work, TypeCount
  <2> QED
    BY <1>1, <2>1, <2>2 DEF Work, TypeCount
<1>4. TraceInv'
  BY DEF IInv, Work, traceVars, TraceInv
<1>5. DepthWithinThreshold' /\ RecordedFrameMatches' /\ NoOverattribution'
  BY DEF IInv, Work, traceVars, DepthWithinThreshold, RecordedFrameMatches, NoOverattribution
<1>6. AttributionInv'
  <2>1. runtimeCnt' = 0
    BY DEF IInv, Work, AttributionInv
  <2>2. ASSUME watch'.active, NEW l \in Levels, l <= top'
        PROVE  count'[l] + (IF watch'.kind = "runtime" THEN 0 ELSE rdCnt' + pending') <= truth'[l]
    <3>1. watch' = watch /\ top' = top /\ count' = count /\ rdCnt' = rdCnt /\ pending' = pending + 1
      BY DEF Work, traceVars
    <3>2. count[l] + (IF watch.kind = "runtime" THEN 0 ELSE rdCnt + pending) <= truth[l]
      BY <2>2, <3>1 DEF IInv, AttributionInv
    <3>3. count[l] \in Nat /\ rdCnt \in Nat /\ pending \in Nat /\ truth[l] \in Nat
      BY <1>1 DEF TypeCount
    <3>4. truth'[l] = IF watch.kind = "runtime" THEN truth[l] ELSE truth[l] + 1
      BY <2>2, <3>1 DEF Work
    <3> QED
      BY <3>1, <3>2, <3>3, <3>4
  <2> QED
    BY <2>1, <2>2 DEF AttributionInv
<1> QED
  BY <1>2, <1>3, <1>4, <1>5, <1>6, TypePartsNext DEF IInv

(* A sample starts from empty stacks.                                      *)
LEMMA SampleStep ==
    ASSUME NoNearTransfers, IInv, NEW x \in Transfers, NEW keep \in BOOLEAN, OnSample(x, keep)
    PROVE  IInv'
<1> USE ConstantFacts
<1>1. TypeTrace /\ TypeCount
  BY TypeParts DEF IInv
<1>2. <<0>> \in Seq(Levels) /\ Len(<<0>>) = 0 + 1 /\ Staircase(<<0>>)
  BY DEF Staircase
<1>3. /\ wpStack' \in Seq(Levels) /\ Staircase(wpStack')
      /\ retStack' \in Nat /\ decodeInsCounter' \in 0..Threshold
      /\ watch' \in WatchType /\ watch'.active /\ watch'.kind # "runtime"
      /\ Shape(wpStack', retStack', decodeInsCounter', 0, watch')
      /\ fault' = "none"
  <2>1. DecodeKeeping(<<0>>, 1, 0, x, keep) /\ watch \in WatchType
    BY <1>1 DEF OnSample, TypeTrace
  <2>2. 0 \in 0..Threshold /\ 0 \in Nat /\ 1 = 0 + 1 /\ 0 <= 0
        /\ (0 < Threshold \/ (Threshold = 0 /\ 0 = 0))
    OBVIOUS
  <2> QED
    BY <1>2, <2>1, <2>2, DecodeStep
<1>4. top' = 0
  BY DEF OnSample
<1>5. TypeTrace'
  BY <1>3, <1>4 DEF TypeTrace, Faults
<1>6. TypeCount'
  BY <1>1 DEF OnSample, TypeCount
<1>7. TraceInv'
  BY <1>3, <1>4 DEF TraceInv
<1>8. DepthWithinThreshold' /\ RecordedFrameMatches' /\ NoOverattribution'
  BY <1>3, <1>4 DEF IInv, OnSample, DepthWithinThreshold, RecordedFrameMatches, NoOverattribution
<1>9. AttributionInv'
  <2>1. runtimeCnt' = 0 /\ count'[0] = 0 /\ truth'[0] = 0 /\ rdCnt' = 0 /\ pending' = 0
    BY <1>1 DEF OnSample, IInv, AttributionInv, TypeCount
  <2>2. \A l \in Levels : l <= 0 => l = 0
    BY DEF Levels
  <2> QED
    BY <1>3, <1>4, <2>1, <2>2 DEF AttributionInv
<1> QED
  BY <1>5, <1>6, <1>7, <1>8, <1>9, TypePartsNext DEF IInv

(* What the armed watchpoint says of the stacks.                           *)
LEMMA ShapeFacts ==
    ASSUME IInv, watch.active
    PROVE  /\ Staircase(wpStack)
           /\ Shape(wpStack, retStack, decodeInsCounter, top, watch)
           /\ top \in Int /\ top >= -1 /\ top <= MaxStack - 1
           /\ decodeInsCounter \in Nat /\ retStack \in Nat /\ top <= decodeInsCounter
           /\ decodeInsCounter <= Threshold /\ wpStack \in Seq(Levels)
<1> USE ConstantFacts
<1>1. TypeTrace
  BY TypeParts DEF IInv
<1>2. Staircase(wpStack) /\ Shape(wpStack, retStack, decodeInsCounter, top, watch)
  BY DEF IInv, TraceInv
<1>3. top >= -1
  BY <1>1, <1>2 DEF Shape, TypeTrace, WatchType, Kinds
<1> QED
  BY <1>1, <1>2, <1>3 DEF TypeTrace, Shape

(* Events read so far belong to every open level.                          *)
LEMMA ReadFacts ==
    ASSUME IInv
    PROVE  /\ Read \in Nat
           /\ watch.active /\ watch.kind # "runtime" =>
                 \A l \in Levels : l <= top => count[l] + Read <= truth[l]
           /\ watch.active => \A l \in Levels : l <= top => count[l] <= truth[l]
           /\ \A l \in Levels : count[l] \in Nat /\ truth[l] \in Nat /\ start[l] \in Nat
<1>1. TypeCount
  BY TypeParts DEF IInv
<1>2. Read \in Nat /\ rdCnt + pending = Read
  BY <1>1 DEF TypeCount, Read
<1>3. \A l \in Levels : count[l] \in Nat /\ truth[l] \in Nat /\ start[l] \in Nat
  BY <1>1 DEF TypeCount
<1>4. watch.active /\ watch.kind # "runtime" =>
         \A l \in Levels : l <= top => count[l] + Read <= truth[l]
  BY <1>2 DEF IInv, AttributionInv
<1>5. watch.active => \A l \in Levels : l <= top => count[l] <= truth[l]
  <2>1. watch.active => \A l \in Levels : l <= top =>
           count[l] + (IF watch.kind = "runtime" THEN 0 ELSE Read) <= truth[l]
    BY <1>2 DEF IInv, AttributionInv
  <2> QED
    BY <1>2, <1>3, <2>1
<1> QED
  BY <1>2, <1>3, <1>4, <1>5

(* Recording the instance at the top level.                                *)
LEMMA RecordStep ==
    ASSUME IInv, watch.active, watch.kind # "runtime", top \in Levels,
           truth' = truth, NEW slot \in WatchType, Record(slot)
    PROVE  /\ top' = top - 1
           /\ start' \in [Levels -> Nat] /\ count' \in [Levels -> Nat]
           /\ rec' \in RecType
           /\ rec'.level = top /\ rec'.frame = slot.frame /\ rec'.old = slot.old
           /\ rec'.value <= rec'.truth
           /\ \A l \in Levels : l <= top - 1 => count'[l] <= truth'[l]
<1> USE ConstantFacts
<1>1. TypeTrace /\ TypeCount
  BY TypeParts DEF IInv
<1> DEFINE value == count[top] + Read
<1>2. value \in Nat /\ Read \in Nat
  BY ReadFacts
<1>3. value <= truth[top] /\ truth[top] \in Nat
  <2>1. top <= top
    BY <1>1 DEF TypeTrace
  <2> QED
    BY <2>1, ReadFacts
<1>4. /\ top' = top - 1
      /\ count' = [l \in Levels |-> IF l \in {top, top - 1} THEN count[l] + Read ELSE count[l]]
      /\ start' = (IF top = 0 THEN [start EXCEPT ![0] = @ + value] ELSE start)
      /\ rec' = [level |-> top, frame |-> slot.frame, old |-> slot.old,
                 value |-> value, truth |-> truth[top]]
  BY DEF Record
<1> HIDE DEF value
<1>5. count' \in [Levels -> Nat]
  BY <1>2, <1>4, ReadFacts
<1>6. start' \in [Levels -> Nat]
  BY <1>1, <1>2, <1>4 DEF TypeCount
<1>7. \A l \in Levels : l <= top - 1 => count'[l] <= truth'[l]
  <2> SUFFICES ASSUME NEW l \in Levels, l <= top - 1
               PROVE  count'[l] <= truth[l]
    OBVIOUS
  <2>1. l <= top /\ l \in Int
    BY <1>1 DEF TypeTrace, Levels
  <2>2. count[l] + Read <= truth[l] /\ count[l] \in Nat /\ truth[l] \in Nat /\ Read \in Nat
    BY <2>1, ReadFacts
  <2> QED
    BY <1>4, <2>2
<1>8. slot.frame \in -3..(MaxStack - 1) /\ slot.old \in BOOLEAN
  BY DEF WatchType
<1>9. rec' \in RecType
  BY <1>2, <1>3, <1>4, <1>8 DEF RecType
<1> QED
  BY <1>2, <1>3, <1>4, <1>5, <1>6, <1>7, <1>9

-----------------------------------------------------------------------------
(* The traps.                                                              *)
LEMMA InsideAgentStep == ASSUME IInv, TrapInsideAgent PROVE IInv'
<1> USE ConstantFacts
<1>1. TypeTrace /\ TypeCount
  BY TypeParts DEF IInv
<1>2. Read \in Nat
  BY ReadFacts
<1>5. TypeTrace'
  BY <1>1, NoWatchType DEF TrapInsideAgent, TypeTrace
<1>6. TypeCount'
  BY <1>1, <1>2 DEF TrapInsideAgent, Trapped, TypeCount
<1>7. TraceInv'
  BY NoWatchType DEF IInv, TrapInsideAgent, TraceInv
<1>8. DepthWithinThreshold' /\ RecordedFrameMatches' /\ NoOverattribution'
  BY DEF IInv, TrapInsideAgent, DepthWithinThreshold, RecordedFrameMatches, NoOverattribution
<1>9. AttributionInv'
  BY NoWatchType DEF IInv, TrapInsideAgent, AttributionInv
<1> QED
  BY <1>5, <1>6, <1>7, <1>8, <1>9, TypePartsNext DEF IInv

LEMMA OutsideJavaStep == ASSUME IInv, TrapOutsideJava PROVE IInv'
<1> USE ConstantFacts
<1>1. TypeTrace /\ TypeCount
  BY TypeParts DEF IInv
<1>2. Read \in Nat
  BY ReadFacts
<1>3. top' \in -2..(MaxStack - 1) /\ top' <= (IF top >= 0 THEN top ELSE 0) /\ top \in Int
  <2>1. top \in Int /\ top >= -1 /\ top <= MaxStack - 1
    BY ShapeFacts DEF TrapOutsideJava, Trapped
  <2>2. top' = top - 1 \/ top' = -1
    BY DEF TrapOutsideJava
  <2> QED
    BY <2>1, <2>2
<1>5. TypeTrace'
  BY <1>1, <1>3, NoWatchType DEF TrapOutsideJava, TypeTrace
<1>6. TypeCount'
  BY <1>1, <1>2 DEF TrapOutsideJava, Trapped, TypeCount
<1>7. TraceInv'
  BY NoWatchType DEF IInv, TrapOutsideJava, TraceInv
<1>8. DepthWithinThreshold' /\ RecordedFrameMatches' /\ NoOverattribution'
  BY <1>3 DEF IInv, TrapOutsideJava, DepthWithinThreshold, RecordedFrameMatches, NoOverattribution
<1>9. AttributionInv'
  BY NoWatchType DEF IInv, TrapOutsideJava, AttributionInv
<1> QED
  BY <1>5, <1>6, <1>7, <1>8, <1>9, TypePartsNext DEF IInv

LEMMA OverThresholdAssertStep == ASSUME IInv, TrapOverThresholdAssert PROVE IInv'
<1> USE ConstantFacts
<1>1. TypeTrace /\ TypeCount
  BY TypeParts DEF IInv
<1>2. Read \in Nat
  BY ReadFacts
<1>3. Threshold # 0
  <2>1. /\ Shape(wpStack, retStack, decodeInsCounter, top, watch)
        /\ retStack = 0 /\ decodeInsCounter \in Nat
    BY ShapeFacts DEF TrapOverThresholdAssert, Trapped
  <2> QED
    BY <2>1 DEF Shape
<1>5. TypeTrace'
  BY <1>1, NoWatchType DEF TrapOverThresholdAssert, TypeTrace, Faults
<1>6. TypeCount'
  BY <1>1, <1>2 DEF TrapOverThresholdAssert, Trapped, TypeCount
<1>7. TraceInv'
  BY <1>3, NoWatchType DEF IInv, TrapOverThresholdAssert, TraceInv
<1>8. DepthWithinThreshold' /\ RecordedFrameMatches' /\ NoOverattribution'
  BY DEF IInv, TrapOverThresholdAssert, DepthWithinThreshold, RecordedFrameMatches,
         NoOverattribution
<1>9. AttributionInv'
  BY NoWatchType DEF IInv, TrapOverThresholdAssert, AttributionInv
<1> QED
  BY <1>5, <1>6, <1>7, <1>8, <1>9, TypePartsNext DEF IInv

LEMMA RuntimeCallStep == ASSUME IInv, TrapRuntimeCall PROVE IInv'
<1> USE ConstantFacts
<1>1. TypeTrace /\ TypeCount
  BY TypeParts DEF IInv
<1>2. /\ Armed("runtime", -3) \in WatchType /\ Armed("runtime", -3).active
      /\ Armed("runtime", -3).kind = "runtime"
  BY DEF Armed, WatchType, Kinds
<1>3. /\ watch.active /\ watch.kind = "call" /\ decodeInsCounter < Threshold
      /\ Staircase(wpStack) /\ Shape(wpStack, retStack, decodeInsCounter, top, watch)
      /\ top \in Int /\ top <= decodeInsCounter
  BY <1>1, ShapeFacts DEF TrapRuntimeCall, Trapped, OverThreshold, TypeTrace
<1>4. Shape(wpStack, retStack, decodeInsCounter, top, Armed("runtime", -3))
  BY <1>2, <1>3 DEF Shape
<1>5. TypeTrace'
  BY <1>1, <1>2 DEF TrapRuntimeCall, TypeTrace
<1>6. TypeCount'
  BY <1>1 DEF TrapRuntimeCall, Trapped, TypeCount
<1>7. TraceInv'
  BY <1>3, <1>4 DEF IInv, TrapRuntimeCall, TraceInv
<1>8. DepthWithinThreshold' /\ RecordedFrameMatches' /\ NoOverattribution'
  BY DEF IInv, TrapRuntimeCall, DepthWithinThreshold, RecordedFrameMatches, NoOverattribution
<1>9. AttributionInv'
  <2>1. \A l \in Levels : l <= top => count[l] + 0 <= truth[l]
    BY <1>3, ReadFacts
  <2>2. /\ watch'.kind = "runtime" /\ runtimeCnt' = 0 /\ top' = top
        /\ count' = count /\ truth' = truth
    BY <1>2 DEF TrapRuntimeCall
  <2> QED
    BY <2>1, <2>2 DEF AttributionInv
<1> QED
  BY <1>5, <1>6, <1>7, <1>8, <1>9, TypePartsNext DEF IInv


LEMMA RuntimeReturnStep ==
    ASSUME NoNearTransfers, IInv, NEW x \in Transfers, TrapRuntimeReturn(x)
    PROVE  IInv'
<1> USE ConstantFacts
<1>1. TypeTrace /\ TypeCount
  BY TypeParts DEF IInv
<1>2. /\ watch.active /\ watch.kind = "runtime" /\ wpStack \in Seq(Levels)
      /\ Staircase(wpStack) /\ Shape(wpStack, retStack, decodeInsCounter, top, watch)
      /\ top \in Int /\ top <= decodeInsCounter /\ decodeInsCounter \in 0..Threshold
  BY <1>1, ShapeFacts DEF TrapRuntimeReturn, Trapped, TypeTrace
<1>3. /\ decodeInsCounter < Threshold /\ top \in Nat
      /\ Len(wpStack) = top + 1 /\ retStack = top + 1
  BY <1>2 DEF Shape
<1>4. /\ wpStack' \in Seq(Levels) /\ Staircase(wpStack')
      /\ retStack' \in Nat /\ decodeInsCounter' \in 0..Threshold
      /\ watch' \in WatchType /\ watch'.active /\ watch'.kind # "runtime"
      /\ Shape(wpStack', retStack', decodeInsCounter', top, watch')
      /\ fault' = "none"
  <2>1. DecodeKeeping(wpStack, retStack, decodeInsCounter, x, FALSE) /\ watch \in WatchType
    BY <1>1 DEF TrapRuntimeReturn, Decode, TypeTrace
  <2> QED
    BY <1>2, <1>3, <2>1, DecodeStep
<1>5. TypeTrace'
  BY <1>1, <1>4 DEF TrapRuntimeReturn, TypeTrace, Faults
<1>6. TypeCount'
  BY <1>1 DEF TrapRuntimeReturn, Trapped, TypeCount
<1>7. TraceInv'
  BY <1>4 DEF TrapRuntimeReturn, TraceInv
<1>8. DepthWithinThreshold' /\ RecordedFrameMatches' /\ NoOverattribution'
  BY <1>4 DEF IInv, TrapRuntimeReturn, DepthWithinThreshold, RecordedFrameMatches,
              NoOverattribution
<1>9. AttributionInv'
  <2>1. \A l \in Levels : l <= top => count[l] <= truth[l] /\ count[l] \in Nat
    BY <1>2, ReadFacts
  <2>2. /\ runtimeCnt' = 0 /\ rdCnt' = 0 /\ pending' = 0 /\ top' = top
        /\ count' = count /\ truth' = truth
    BY DEF TrapRuntimeReturn, Trapped, IInv, AttributionInv
  <2> QED
    BY <2>1, <2>2 DEF AttributionInv
<1> QED
  BY <1>5, <1>6, <1>7, <1>8, <1>9, TypePartsNext DEF IInv

LEMMA BranchStep ==
    ASSUME NoNearTransfers, IInv, NEW x \in Transfers, TrapBranch(x)
    PROVE  IInv'
<1> USE ConstantFacts
<1>1. TypeTrace /\ TypeCount
  BY TypeParts DEF IInv
<1>2. /\ watch.active /\ watch.kind = "branch" /\ wpStack \in Seq(Levels)
      /\ Staircase(wpStack) /\ Shape(wpStack, retStack, decodeInsCounter, top, watch)
      /\ top \in Int /\ top <= decodeInsCounter /\ decodeInsCounter \in 0..Threshold
  BY <1>1, ShapeFacts DEF TrapBranch, Trapped, TypeTrace
<1>3. /\ decodeInsCounter < Threshold /\ top \in Nat
      /\ Len(wpStack) = top + 1 /\ retStack = top + 1
  BY <1>2 DEF Shape
<1>4. /\ wpStack' \in Seq(Levels) /\ Staircase(wpStack')
      /\ retStack' \in Nat /\ decodeInsCounter' \in 0..Threshold
      /\ watch' \in WatchType /\ watch'.active /\ watch'.kind # "runtime"
      /\ Shape(wpStack', retStack', decodeInsCounter', top, watch')
      /\ fault' = "none"
  <2>1. DecodeKeeping(wpStack, retStack, decodeInsCounter, x, FALSE) /\ watch \in WatchType
    BY <1>1 DEF TrapBranch, Decode, TypeTrace
  <2> QED
    BY <1>2, <1>3, <2>1, DecodeStep
<1>5. TypeTrace'
  BY <1>1, <1>4 DEF TrapBranch, TypeTrace, Faults
<1>6. TypeCount'
  BY <1>1, ReadFacts DEF TrapBranch, Trapped, TypeCount
<1>7. TraceInv'
  BY <1>4 DEF TrapBranch, TraceInv
<1>8. DepthWithinThreshold' /\ RecordedFrameMatches' /\ NoOverattribution'
  BY <1>4 DEF IInv, TrapBranch, DepthWithinThreshold, RecordedFrameMatches, NoOverattribution
<1>9. AttributionInv'
  <2>1. Read \in Nat /\ \A l \in Levels : l <= top => count[l] + Read <= truth[l]
    BY <1>2, ReadFacts
  <2>2. /\ runtimeCnt' = 0 /\ rdCnt' = Read /\ pending' = 0 /\ top' = top
        /\ count' = count /\ truth' = truth
    BY DEF TrapBranch, Trapped, IInv, AttributionInv
  <2>3. rdCnt' + pending' = Read
    BY <2>1, <2>2
  <2> QED
    BY <1>4, <2>1, <2>2, <2>3 DEF AttributionInv
<1> QED
  BY <1>5, <1>6, <1>7, <1>8, <1>9, TypePartsNext DEF IInv

LEMMA RetStep ==
    ASSUME NoNearTransfers, IInv, NEW x \in Transfers, TrapRet(x)
    PROVE  IInv'
<1> USE ConstantFacts
<1>1. TypeTrace /\ TypeCount
  BY TypeParts DEF IInv
<1>2. /\ watch.active /\ watch.kind = "ret" /\ wpStack \in Seq(Levels)
      /\ Staircase(wpStack) /\ Shape(wpStack, retStack, decodeInsCounter, top, watch)
      /\ top \in Int /\ top <= decodeInsCounter /\ decodeInsCounter \in 0..Threshold
      /\ top <= MaxStack - 1
  BY <1>1, ShapeFacts DEF TrapRet, Trapped, TypeTrace
<1>3. /\ decodeInsCounter < Threshold /\ top >= 1 /\ top \in Levels /\ top - 1 \in Nat
      /\ Len(wpStack) = top /\ retStack = top + 1 /\ watch.frame = top /\ ~watch.old
  BY <1>2 DEF Shape, Levels
<1>4. /\ Record(watch) /\ rdCnt' = 0 /\ pending' = 0 /\ truth' = truth
      /\ DecodeKeeping(wpStack, retStack - 1, decodeInsCounter, x, FALSE)
  <2>1. wpStack # <<>> /\ retStack # 0
    BY <1>3
  <2> QED
    BY <1>3, <2>1 DEF TrapRet, Trapped, Decode
<1>10. /\ wpStack' \in Seq(Levels) /\ Staircase(wpStack')
      /\ retStack' \in Nat /\ decodeInsCounter' \in 0..Threshold
      /\ watch' \in WatchType /\ watch'.active /\ watch'.kind # "runtime"
      /\ Shape(wpStack', retStack', decodeInsCounter', top - 1, watch')
      /\ fault' = "none"
  <2>1. retStack - 1 = (top - 1) + 1 /\ Len(wpStack) = (top - 1) + 1 /\ top - 1 <= decodeInsCounter
    BY <1>2, <1>3
  <2>2. retStack - 1 \in Int /\ watch \in WatchType
    BY <1>1, <1>2, <1>3 DEF TypeTrace
  <2> QED
    BY <1>2, <1>3, <1>4, <2>1, <2>2, DecodeStep
<1>11. /\ top' = top - 1
       /\ start' \in [Levels -> Nat] /\ count' \in [Levels -> Nat]
       /\ rec' \in RecType
       /\ rec'.level = top /\ rec'.frame = watch.frame /\ rec'.old = watch.old
       /\ rec'.value <= rec'.truth
       /\ \A l \in Levels : l <= top - 1 => count'[l] <= truth'[l]
  <2>1. watch \in WatchType
    BY <1>1 DEF TypeTrace
  <2> QED
    BY <1>2, <1>3, <1>4, <2>1, RecordStep
<1>5. TypeTrace'
  BY <1>1, <1>2, <1>3, <1>10, <1>11 DEF TypeTrace, Faults
<1>6. TypeCount'
  BY <1>1, <1>4, <1>11 DEF TrapRet, TypeCount
<1>7. TraceInv'
  BY <1>10, <1>11 DEF TraceInv
<1>8. DepthWithinThreshold' /\ RecordedFrameMatches' /\ NoOverattribution'
  <2>1. top - 1 <= 0 \/ top - 1 < Threshold
    BY <1>2, <1>3
  <2> QED
    BY <1>3, <1>10, <1>11, <2>1 DEF DepthWithinThreshold, RecordedFrameMatches, NoOverattribution
<1>9. AttributionInv'
  <2>1. runtimeCnt' = 0
    BY DEF IInv, TrapRet, AttributionInv
  <2>2. \A l \in Levels : count'[l] \in Nat
    BY <1>11
  <2>3. \A l \in Levels : l <= top' => count'[l] + (rdCnt' + pending') <= truth'[l]
    BY <1>4, <1>11, <2>2
  <2> QED
    BY <1>10, <2>1, <2>3 DEF AttributionInv
<1> QED
  BY <1>5, <1>6, <1>7, <1>8, <1>9, TypePartsNext DEF IInv

LEMMA JavaCallStep ==
    ASSUME NoNearTransfers, IInv, NEW x \in Transfers, TrapJavaCall(x)
    PROVE  IInv'
<1> USE ConstantFacts
<1>1. TypeTrace /\ TypeCount
  BY TypeParts DEF IInv
<1>2. /\ watch.active /\ watch.kind = "call" /\ wpStack \in Seq(Levels)
      /\ Staircase(wpStack) /\ Shape(wpStack, retStack, decodeInsCounter, top, watch)
      /\ top \in Int /\ top <= decodeInsCounter /\ decodeInsCounter \in 0..Threshold
      /\ top <= MaxStack - 1 /\ decodeInsCounter < Threshold
  BY <1>1, ShapeFacts DEF TrapJavaCall, Trapped, TypeTrace, OverThreshold
<1>3. /\ top >= 0 /\ top \in Levels /\ top + 1 \in Nat /\ top + 1 <= decodeInsCounter
      /\ Len(wpStack) = top + 1 /\ retStack = top + 1
  BY <1>2 DEF Shape, Levels
<1>4. CASE top + 1 \in Levels
  <2> DEFINE new == top + 1
  <2>1. /\ top' = new /\ rdCnt' = 0 /\ pending' = 0
        /\ count' = [count EXCEPT ![top] = @ + Read, ![new] = 0]
        /\ start' = [start EXCEPT ![new] = start[top] + count[top] + Read]
        /\ truth' = [truth EXCEPT ![new] = 0]
        /\ DecodeKeeping(Append(wpStack, new), retStack + 1, decodeInsCounter, x, FALSE)
        /\ runtimeCnt' = runtimeCnt /\ rec' = rec /\ samples' = samples /\ work' = work
    BY <1>4 DEF TrapJavaCall, Trapped, Decode
  <2>2. new \in Levels /\ new \in Nat /\ new # top
    BY <1>2, <1>3, <1>4
  <2>3. /\ Append(wpStack, new) \in Seq(Levels) /\ Len(Append(wpStack, new)) = new + 1
        /\ Staircase(Append(wpStack, new))
    BY <1>2, <1>3, <2>2, AppendStaircase
  <2>4. /\ wpStack' \in Seq(Levels) /\ Staircase(wpStack')
        /\ retStack' \in Nat /\ decodeInsCounter' \in 0..Threshold
        /\ watch' \in WatchType /\ watch'.active /\ watch'.kind # "runtime"
        /\ Shape(wpStack', retStack', decodeInsCounter', new, watch')
        /\ fault' = "none"
    <3>1. retStack + 1 = new + 1 /\ new <= decodeInsCounter
      BY <1>2, <1>3
    <3>2. retStack + 1 \in Int /\ watch \in WatchType
      BY <1>1, <1>2, <1>3 DEF TypeTrace
    <3> QED
      BY <1>2, <2>1, <2>2, <2>3, <3>1, <3>2, DecodeStep
  <2>5. TypeTrace'
    BY <1>1, <2>1, <2>2, <2>4 DEF TypeTrace, Faults, Levels
  <2>6. start[top] + count[top] + Read \in Nat /\ count[top] + Read \in Nat
    BY <1>3, ReadFacts
  <2>7. TypeCount'
    BY <1>1, <1>3, <2>1, <2>2, <2>6 DEF TypeCount
  <2>8. TraceInv'
    BY <2>1, <2>4 DEF TraceInv
  <2>9. DepthWithinThreshold' /\ RecordedFrameMatches' /\ NoOverattribution'
    <3>1. new < Threshold
      BY <1>2, <1>3
    <3> QED
      BY <2>1, <2>4, <3>1 DEF IInv, DepthWithinThreshold, RecordedFrameMatches, NoOverattribution
  <2>10. AttributionInv'
    <3>1. runtimeCnt' = 0
      BY <2>1 DEF IInv, AttributionInv
    <3>2. ASSUME NEW l \in Levels, l <= new
          PROVE  count'[l] + (0 + 0) <= truth'[l]
      <4>1. CASE l = new
        BY <1>1, <2>1, <2>2, <4>1 DEF TypeCount
      <4>2. CASE l # new
        <5>1. l <= top
          BY <1>2, <3>2, <4>2 DEF Levels
        <5>2. /\ count[l] + Read <= truth[l] /\ count[l] \in Nat /\ Read \in Nat
              /\ truth[l] \in Nat
          BY <1>2, <5>1, ReadFacts
        <5>3. truth'[l] = truth[l] /\ count'[l] \in {count[l], count[l] + Read}
          BY <1>1, <2>1, <2>2, <4>2 DEF TypeCount
        <5> QED
          BY <5>2, <5>3
      <4> QED
        BY <4>1, <4>2
    <3> QED
      BY <2>1, <2>4, <3>1, <3>2 DEF AttributionInv
  <2> QED
    BY <2>5, <2>7, <2>8, <2>9, <2>10, TypePartsNext DEF IInv
<1>5. CASE top + 1 \notin Levels
  <2>1. /\ fault' = "overflow"
        /\ UNCHANGED <<top, rdCnt, count, start, truth, wpStack, retStack,
                       decodeInsCounter, watch, runtimeCnt, rec, samples, work>>
        /\ pending' = 0
    BY <1>5 DEF TrapJavaCall, Trapped
  <2>2. Threshold > MaxStack /\ Threshold # 0
    BY <1>2, <1>3, <1>5 DEF Levels
  <2>3. TypeTrace'
    BY <1>1, <2>1 DEF TypeTrace, Faults
  <2>4. TypeCount'
    BY <1>1, <2>1 DEF TypeCount
  <2>5. TraceInv'
    BY <2>1, <2>2 DEF IInv, TraceInv
  <2>6. DepthWithinThreshold' /\ RecordedFrameMatches' /\ NoOverattribution'
    BY <2>1, <2>2 DEF IInv, DepthWithinThreshold, RecordedFrameMatches, NoOverattribution
  <2>7. AttributionInv'
    <3>1. /\ \A l \in Levels : l <= top => count[l] + Read <= truth[l]
          /\ \A l \in Levels : count[l] \in Nat /\ truth[l] \in Nat
      BY <1>2, ReadFacts
    <3>2. rdCnt \in Nat /\ pending \in Nat
      BY <1>1 DEF TypeCount
    <3>3. \A l \in Levels : l <= top => count[l] + (rdCnt + 0) <= truth[l]
      BY <3>1, <3>2 DEF Read
    <3> QED
      BY <1>2, <2>1, <3>3 DEF IInv, AttributionInv
  <2> QED
    BY <2>3, <2>4, <2>5, <2>6, <2>7, TypePartsNext DEF IInv
<1> QED
  BY <1>4, <1>5
LEMMA RootStep ==
    ASSUME IInv, NEW sane \in BOOLEAN, TrapRoot(sane)
    PROVE  IInv'
<1> USE ConstantFacts
<1>1. TypeTrace /\ TypeCount
  BY TypeParts DEF IInv
<1>2. /\ watch.active /\ watch.kind = "stack" /\ decodeInsCounter < Threshold
      /\ Shape(wpStack, retStack, decodeInsCounter, top, watch)
  BY <1>1, ShapeFacts DEF TrapRoot, Trapped, OverThreshold, TypeTrace
<1>3. top = 0 /\ (watch.old \/ watch.frame = 0)
  BY <1>2 DEF Shape
<1>4. /\ fault' = "none" /\ watch' = NoWatch /\ rdCnt' = Read /\ pending' = 0
      /\ UNCHANGED <<decodeInsCounter, wpStack, retStack, runtimeCnt, truth, samples, work>>
      /\ IF sane THEN Record(watch) ELSE top' = top - 1 /\ UNCHANGED <<start, count, rec>>
  BY <1>3 DEF TrapRoot, Trapped
<1>10. /\ top' = -1
       /\ start' \in [Levels -> Nat] /\ count' \in [Levels -> Nat]
       /\ rec' \in RecType
       /\ RecordedFrameMatches' /\ NoOverattribution'
  <2>1. CASE sane
    <3>1. watch \in WatchType /\ top \in Levels /\ watch.kind # "runtime"
      BY <1>1, <1>2, <1>3 DEF TypeTrace
    <3>2. /\ top' = top - 1
          /\ start' \in [Levels -> Nat] /\ count' \in [Levels -> Nat]
          /\ rec' \in RecType
          /\ rec'.level = top /\ rec'.frame = watch.frame /\ rec'.old = watch.old
          /\ rec'.value <= rec'.truth
      BY <1>2, <1>4, <2>1, <3>1, RecordStep
    <3> QED
      BY <1>3, <3>2 DEF RecordedFrameMatches, NoOverattribution
  <2>2. CASE ~sane
    BY <1>1, <1>3, <1>4, <2>2 DEF IInv, TypeCount, RecordedFrameMatches, NoOverattribution
  <2> QED
    BY <2>1, <2>2
<1>5. TypeTrace'
  BY <1>1, <1>4, <1>10, NoWatchType DEF TypeTrace, Faults
<1>6. TypeCount'
  BY <1>1, <1>4, <1>10, ReadFacts DEF TypeCount
<1>7. TraceInv'
  BY <1>4, NoWatchType DEF TraceInv
<1>8. DepthWithinThreshold' /\ RecordedFrameMatches' /\ NoOverattribution'
  BY <1>4, <1>10 DEF DepthWithinThreshold
<1>9. AttributionInv'
  BY <1>4, NoWatchType DEF IInv, AttributionInv
<1> QED
  BY <1>5, <1>6, <1>7, <1>8, <1>9, TypePartsNext DEF IInv

LEMMA OverThresholdStep ==
    ASSUME IInv, NEW sane \in BOOLEAN, TrapOverThreshold(sane)
    PROVE  IInv'
<1> USE ConstantFacts
<1>1. TypeTrace /\ TypeCount
  BY TypeParts DEF IInv
<1> DEFINE next == IF wpStack = <<>> THEN [watch EXCEPT !.active = FALSE]
                   ELSE Armed("stack", Peek(wpStack))
<1>2. /\ watch.active /\ watch.kind # "runtime" /\ decodeInsCounter = Threshold /\ retStack # 0
      /\ Staircase(wpStack) /\ Shape(wpStack, retStack, decodeInsCounter, top, watch)
      /\ top \in Int /\ top <= MaxStack - 1 /\ retStack \in Nat /\ top <= Threshold
      /\ wpStack \in Seq(Levels) /\ watch.kind \in Kinds
  BY <1>1, ShapeFacts DEF TrapOverThreshold, Trapped, OverThreshold, TypeTrace, WatchType
<1>3. /\ watch.kind \in {"stack", "call"}
      /\ top >= 0 /\ top \in Levels
      /\ Threshold = 0 => wpStack = <<>> /\ (watch.old \/ watch.frame = 0) /\ top = 0
      /\ Threshold > 0 => Len(wpStack) = top + 1 /\ retStack = top + 1
  BY <1>2 DEF Shape, Kinds, Levels
(* The slot after the trap, and the level whose frame it holds.            *)
<1>4. /\ next \in WatchType
      /\ IF next.old THEN top = 0 ELSE next.frame = top
      /\ wpStack = <<>> => ~next.active
      /\ wpStack # <<>> =>
            /\ Threshold > 0 /\ next.kind = "stack"
            /\ Pop(wpStack) \in Seq(Levels) /\ Staircase(Pop(wpStack))
            /\ Len(Pop(wpStack)) = top
  <2>1. CASE wpStack = <<>>
    <3>1. next = [watch EXCEPT !.active = FALSE]
      BY <2>1
    <3>2. Threshold = 0
      BY <1>2, <1>3, <2>1
    <3> QED
      BY <1>1, <1>3, <2>1, <3>1, <3>2 DEF TypeTrace, WatchType
  <2>2. CASE wpStack # <<>>
    <3>1. next = Armed("stack", Peek(wpStack))
      BY <2>2
    <3>2. Threshold > 0
      BY <1>3, <2>2
    <3>3. Staircase(Pop(wpStack)) /\ Peek(wpStack) = Len(wpStack) - 1
      BY <1>2, <2>2, PopStaircase
    <3>4. Pop(wpStack) \in Seq(Levels) /\ Len(Pop(wpStack)) = Len(wpStack) - 1
      BY <1>2, <2>2, PopSeq, PopLen
    <3>5. Len(wpStack) - 1 = top
      BY <1>2, <1>3, <3>2
    <3>6. Armed("stack", top) \in WatchType /\ Armed("stack", top).frame = top
          /\ Armed("stack", top).kind = "stack" /\ Armed("stack", top).old = FALSE
      BY <1>2, <1>3 DEF Armed, WatchType, Kinds
    <3> QED
      BY <2>2, <3>1, <3>2, <3>3, <3>4, <3>5, <3>6
  <2> QED
    BY <2>1, <2>2
<1>10. /\ wpStack' = (IF wpStack = <<>> THEN wpStack ELSE Pop(wpStack))
       /\ IF sane
          THEN Record(next) /\ rdCnt' = 0 /\ retStack' = retStack - 1 /\ watch' = next
          ELSE /\ top' = top - 1 /\ rdCnt' = Read /\ watch' = NoWatch
               /\ UNCHANGED <<start, count, rec, retStack>>
       /\ fault' = "none" /\ pending' = 0
       /\ UNCHANGED <<decodeInsCounter, runtimeCnt, truth, samples, work>>
  BY <1>3 DEF TrapOverThreshold, Trapped
<1> HIDE DEF next
<1>11. /\ top' = top - 1
       /\ start' \in [Levels -> Nat] /\ count' \in [Levels -> Nat]
       /\ rec' \in RecType
       /\ RecordedFrameMatches' /\ NoOverattribution'
       /\ sane => \A l \in Levels : l <= top - 1 => count'[l] <= truth'[l]
  <2>1. CASE sane
    <3>1. next \in WatchType
      BY <1>4
    <3>2. /\ top' = top - 1
          /\ start' \in [Levels -> Nat] /\ count' \in [Levels -> Nat]
          /\ rec' \in RecType
          /\ rec'.level = top /\ rec'.frame = next.frame /\ rec'.old = next.old
          /\ rec'.value <= rec'.truth
          /\ \A l \in Levels : l <= top - 1 => count'[l] <= truth'[l]
      BY <1>2, <1>3, <1>10, <2>1, <3>1, RecordStep
    <3> QED
      BY <1>4, <3>2 DEF RecordedFrameMatches, NoOverattribution
  <2>2. CASE ~sane
    BY <1>1, <1>10, <2>2 DEF IInv, TypeCount, RecordedFrameMatches, NoOverattribution
  <2> QED
    BY <2>1, <2>2
<1>12. rdCnt' \in Nat /\ retStack' \in Nat /\ watch' \in WatchType /\ (watch'.active => sane)
  BY <1>2, <1>4, <1>10, ReadFacts, NoWatchType
<1>13. wpStack' \in Seq(Levels)
  BY <1>2, <1>4, <1>10
<1>5. TypeTrace'
  <2>1. top - 1 \in -2..(MaxStack - 1)
    BY <1>2, <1>3
  <2> QED
    BY <1>1, <1>10, <1>11, <1>12, <1>13, <2>1 DEF TypeTrace, Faults
<1>6. TypeCount'
  BY <1>1, <1>10, <1>11, <1>12 DEF TypeCount
<1>7. TraceInv'
  <2>1. ASSUME watch'.active
        PROVE  Staircase(wpStack') /\ Shape(wpStack', retStack', decodeInsCounter', top', watch')
    <3>1. sane /\ watch' = next /\ wpStack # <<>> /\ wpStack' = Pop(wpStack)
      BY <1>4, <1>10, <1>12, <2>1
    <3>2. retStack' = top /\ top' = top - 1 /\ Len(wpStack') = top /\ decodeInsCounter' = Threshold
      BY <1>2, <1>3, <1>4, <1>10, <1>11, <3>1
    <3>3. Staircase(wpStack') /\ watch'.kind = "stack" /\ Threshold > 0
      BY <1>4, <3>1
    <3> QED
      BY <1>2, <1>3, <3>2, <3>3 DEF Shape
  <2> QED
    BY <1>10, <2>1 DEF TraceInv
<1>8. DepthWithinThreshold' /\ RecordedFrameMatches' /\ NoOverattribution'
  <2>1. top - 1 <= 0 \/ top - 1 < Threshold
    BY <1>2
  <2> QED
    BY <1>10, <1>11, <2>1 DEF DepthWithinThreshold
<1>9. AttributionInv'
  <2>1. runtimeCnt' = 0
    BY <1>10 DEF IInv, AttributionInv
  <2>2. sane => \A l \in Levels : l <= top' => count'[l] + 0 <= truth'[l]
    BY <1>11
  <2>3. sane => rdCnt' + pending' = 0
    BY <1>10
  <2> QED
    BY <1>12, <2>1, <2>2, <2>3 DEF AttributionInv
<1> QED
  BY <1>5, <1>6, <1>7, <1>8, <1>9, TypePartsNext DEF IInv

-----------------------------------------------------------------------------
LEMMA StutterStep == IInv /\ UNCHANGED vars => IInv'
<1> SUFFICES ASSUME IInv, UNCHANGED vars PROVE IInv'
  OBVIOUS
<1>1. TypeTrace' /\ TypeCount'
  BY TypeParts DEF IInv, vars, traceVars, countVars, TypeTrace, TypeCount
<1>2. TraceInv' /\ AttributionInv'
  BY DEF IInv, vars, traceVars, countVars, TraceInv, AttributionInv
<1>3. DepthWithinThreshold' /\ RecordedFrameMatches' /\ NoOverattribution'
  BY DEF IInv, vars, traceVars, countVars, DepthWithinThreshold, RecordedFrameMatches,
         NoOverattribution
<1> QED
  BY <1>1, <1>2, <1>3, TypePartsNext DEF IInv

LEMMA TrapStep == ASSUME NoNearTransfers, IInv, Trap PROVE IInv'
<1>1. ASSUME NEW sane \in BOOLEAN, TrapOverThreshold(sane) \/ TrapRoot(sane)
      PROVE  IInv'
  BY <1>1, OverThresholdStep, RootStep
<1>2. ASSUME NEW x \in Transfers,
             TrapRuntimeReturn(x) \/ TrapRet(x) \/ TrapBranch(x) \/ TrapJavaCall(x)
      PROVE  IInv'
  BY <1>2, RuntimeReturnStep, RetStep, BranchStep, JavaCallStep
<1> QED
  BY <1>1, <1>2, InsideAgentStep, OutsideJavaStep, OverThresholdAssertStep, RuntimeCallStep
     DEF Trap

LEMMA NextStep == NoNearTransfers /\ IInv /\ [Next]_vars => IInv'
  BY WorkStep, SampleStep, TrapStep, StutterStep DEF Next

(* The inductive invariant: stacks, counter index, watchpoint and counts   *)
(* agree between any two traps.                                            *)
THEOREM Invariance == ASSUME NoNearTransfers PROVE Spec => []IInv
<1>1. NoNearTransfers /\ IInv /\ [Next]_vars => IInv'
  BY NextStep
<1> QED
  BY <1>1, InitIInv, PTL DEF Spec

(* Type correctness of the tracer (OnSample and the trap handlers).        *)
THEOREM TypeCorrect == ASSUME NoNearTransfers PROVE Spec => []TypeOK
<1>1. IInv => TypeOK
  BY DEF IInv
<1> QED
  BY <1>1, Invariance, PTL

(* decoder, OnBranchWatchPoint and OnRetWatchPoint never pop or read an    *)
(* empty stack, for every threshold and every size of the stacks.          *)
THEOREM NoUnderflow == ASSUME NoNearTransfers PROVE Spec => []NoStackUnderflow
<1>1. IInv => NoStackUnderflow
  BY DEF IInv, TraceInv, NoStackUnderflow
<1> QED
  BY <1>1, Invariance, PTL

(* OnBranchWatchPoint never indexes the counter stacks deeper than the     *)
(* threshold: with decodeThreshold <= MAX_STACK there is no overflow.      *)
THEOREM DepthBounded == ASSUME NoNearTransfers PROVE Spec => []DepthWithinThreshold
<1>1. IInv => DepthWithinThreshold
  BY DEF IInv
<1> QED
  BY <1>1, Invariance, PTL

(* OnRetWatchPoint files every interval under the frame it was taken for,  *)
(* but for the sampled frame's after a refused subscription.               *)
THEOREM FramesMatch == ASSUME NoNearTransfers PROVE Spec => []RecordedFrameMatches
<1>1. IInv => RecordedFrameMatches
  BY DEF IInv
<1> QED
  BY <1>1, Invariance, PTL

(* No instance is recorded with more events than it executed.              *)
THEOREM NeverOvercounts == ASSUME NoNearTransfers PROVE Spec => []NoOverattribution
<1>1. IInv => NoOverattribution
  BY DEF IInv
<1> QED
  BY <1>1, Invariance, PTL

(* With the default decodeThreshold of 0 no assertion of the tracer fails, *)
(* also when the stack word of a sample is still watched for another.      *)
THEOREM DefaultNeverAborts == ASSUME Threshold = 0 PROVE Spec => []NoFault
<1>1. IInv => NoFault
  BY DEF IInv, TraceInv, NoFault
<1>2. NoNearTransfers
  BY DEF NoNearTransfers
<1> QED
  BY <1>1, <1>2, Invariance, PTL

=============================================================================

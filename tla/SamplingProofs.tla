--------------------------- MODULE SamplingProofs ---------------------------
(***************************************************************************)
(* Proofs about Sampling for every size of the ring buffer and every       *)
(* number of overflows: the guard of the agent, the faults, what a run of  *)
(* the handler passes to OnSample, and the refinement of SampleQueue.      *)
(***************************************************************************)
EXTENDS Sampling, TLAPS

-----------------------------------------------------------------------------
(* The inductive invariant.  Its parts take the state they speak about as  *)
(* parameters, so that the same lemma serves a state and its successor.    *)

(* The word at a position of the stream, and the record that starts there. *)
WordAt(r, p) == r[p % Size]

Covers(r, h, p, fields) ==
    /\ p + Len(fields) <= h
    /\ \A k \in 1..Len(fields) : WordAt(r, p + k - 1) = <<WordAt(r, p)[1], fields[k]>>

(* A word that is the first of a record is followed by all of it, the      *)
(* record of lost samples by the sample it was written with, the samples   *)
(* are numbered in their order, and none is older than the last one taken. *)
SampleAt(r, p) == WordAt(r, p)[2] = "type"
LostAt(r, p) == WordAt(r, p)[2] = "lost_type"

Records(r, h, t, n, seen) ==
    /\ h - t < Size
    /\ \A p \in t..(h - 1) :
          SampleAt(r, p) => /\ Covers(r, h, p, SampleFields)
                            /\ seen < WordAt(r, p)[1] /\ WordAt(r, p)[1] <= n
    /\ \A p \in t..(h - 1) :
          LostAt(r, p) => /\ Covers(r, h, p, LostFields)
                          /\ p + Len(LostFields) < h
                          /\ SampleAt(r, p + Len(LostFields))
    /\ \A p, q \in t..(h - 1) :
          p < q /\ SampleAt(r, p) /\ SampleAt(r, q) => WordAt(r, p)[1] < WordAt(r, q)[1]

(* Where the reader can stand: at a record or at the end, or after the     *)
(* part of a sample that perf_read_record_sample takes.                    *)
AtRecord(r, h, t) == t = h \/ SampleAt(r, t) \/ LostAt(r, t)
AfterSample(r, h, t) ==
    t + 7 <= h /\ WordAt(r, t)[2] = "addr_hi" /\ WordAt(r, t + 1)[2] = "cpu"

Taken == last.ip[1][1]

BufferInv ==
    /\ Records(ring, head, tail, count, Taken)
    /\ hnd # "sample" =>
          \/ AtRecord(ring, head, tail)
          \/ (hnd = "parse" /\ AfterSample(ring, head, tail))
    /\ hnd = "sample" => AfterSample(ring, head, tail)
    /\ Taken <= count

(* The thread's events exist while a handler or a trap of it is active,    *)
(* and the flag is set; callbacks and handlers exclude each other.         *)
GuardInv ==
    keyLive =>
        /\ td.perf => base \in {"setup", "started", "java", "callback", "end"}
        /\ hnd # "none" => td.perf /\ td.inside /\ base \notin {"callback", "end"}
        /\ trap # "none" => td.perf /\ td.inside
        /\ trap = "client" => hnd = "none" /\ base \notin {"callback", "end"}
        /\ base \in {"callback", "end"} => td.inside
        /\ td.perf /\ td.inside =>
              \/ hnd # "none" \/ trap = "client"
              \/ base \in {"setup", "started", "callback", "end"}

(* Whom a watchpoint can hit.                                              *)
WatchInv ==
    /\ keyLive /\ armed => td.perf \/ base = "closed"
    /\ keyLive /\ wpData => td.perf \/ base \in {"alloc", "closed"}
    /\ base \in {"alloc", "setup", "started", "java", "callback", "end", "closed"} =>
          wpData \/ attached

(* Every overflow is at most one of: a signal on its way, a signal being   *)
(* handled that was not answered yet, a unit of the limit.                 *)
Unanswered == IF hnd \in {"enter", "parse", "sample", "restart"} THEN 1 ELSE 0
SignalInv ==
    /\ queue + limit + Unanswered <= count
    /\ hnd = "exit" => ev = "on" \/ queue > 0

(* The handler's count and what an undisturbed run has done so far.        *)
InSample == IF hnd = "sample" THEN 1 ELSE 0
RunInv ==
    /\ run.cnt + InSample <= Taken
    /\ hnd \in {"parse", "sample", "restart"} /\ ~run.disturbed => ev = "off"
    /\ hnd = "parse" /\ ~run.disturbed =>
          \/ (/\ run.cnt = 0 /\ run.oldest = Oldest(WaitingSamples)
              /\ AtRecord(ring, head, tail))
          \/ (/\ run.cnt = 1 /\ run.oldest # 0 /\ last = SampleOf(run.oldest)
              /\ (tail = head \/ AfterSample(ring, head, tail)))
    /\ hnd = "sample" /\ ~run.disturbed =>
          run.cnt = 0 /\ run.oldest # 0 /\ last = SampleOf(run.oldest)

IInv ==
    /\ TypeOK /\ BufferInv /\ GuardInv /\ WatchInv /\ SignalInv /\ RunInv
    /\ FaultsExplained /\ OneSamplePerRun

-----------------------------------------------------------------------------
(* Positions of the stream and words of the ring.                          *)

(* A quotient and a remainder.                                             *)
LEMMA DivMod ==
    ASSUME NEW S \in Nat \ {0}, NEW x \in Int
    PROVE  /\ x % S \in 0..(S - 1)
           /\ x \div S \in Int
           /\ x = (S * (x \div S)) + (x % S)
BY SMT

(* The remainder is determined by being small enough.                      *)
LEMMA ModUnique ==
    ASSUME NEW S \in Nat \ {0}, NEW q \in Int, NEW r \in 0..(S - 1)
    PROVE  ((S * q) + r) % S = r
BY SMT

(* A remainder below the divisor and one just below zero.                  *)
LEMMA ModSmall ==
    ASSUME NEW S \in Nat \ {0}, NEW x \in (-S)..(S - 1)
    PROVE  x % S = IF x < 0 THEN x + S ELSE x
<1>1. CASE x < 0
  BY <1>1, SMT
<1>2. CASE ~(x < 0)
  BY <1>2, SMT
<1> QED BY <1>1, <1>2

(* Reducing before a subtraction changes nothing.                          *)
LEMMA ModShift ==
    ASSUME NEW S \in Nat \ {0}, NEW x \in Int, NEW h \in Int
    PROVE  ((x % S) - h) % S = (x - h) % S
<1> DEFINE r == x % S
           q == x \div S
           y == r - h
           r2 == y % S
           q2 == y \div S
<1>1. r \in 0..(S - 1) /\ q \in Int /\ x = (S * q) + r
  BY DivMod
<1>2. r2 \in 0..(S - 1) /\ q2 \in Int /\ y = (S * q2) + r2
  <2>1. y \in Int
    BY <1>1
  <2> HIDE DEF y, r, q
  <2> QED BY <2>1, DivMod, Zenon
<1>3. S * (q + q2) = (S * q) + (S * q2)
  BY <1>1, <1>2, SMT
<1>4. x - h = (S * (q + q2)) + r2
  <2> HIDE DEF r, q, r2, q2
  <2> QED BY <1>1, <1>2, <1>3, SMT
<1>5. q + q2 \in Int
  BY <1>1, <1>2
<1> HIDE DEF q, q2, r2
<1>6. ((S * (q + q2)) + r2) % S = r2
  BY <1>5, <1>2, ModUnique
<1> QED BY <1>4, <1>6 DEF r2

(* Going forward by less than the divisor wraps at most once.              *)
LEMMA ModAdd ==
    ASSUME NEW S \in Nat \ {0}, NEW x \in Int, NEW j \in 0..(S - 1)
    PROVE  (x + j) % S = IF (x % S) + j < S THEN (x % S) + j ELSE (x % S) + j - S
<1> DEFINE r == x % S
<1>1. r \in 0..(S - 1)
  BY DivMod
<1>2. ((x % S) - (-j)) % S = (x - (-j)) % S
  <2>1. -j \in Int
    BY SMT
  <2> QED BY <2>1, ModShift, Zenon
<1>3. (r + j) % S = (x + j) % S
  BY <1>1, <1>2
<1>4. CASE r + j < S
  <2>1. r + j \in (-S)..(S - 1)
    BY <1>1, <1>4
  <2>2. ~(r + j < 0)
    BY <1>1
  <2>3. (r + j) % S = r + j
    BY <2>1, <2>2, ModSmall, Zenon
  <2> QED BY <1>3, <2>3, <1>4
<1>5. CASE ~(r + j < S)
  <2>1. r + j - S \in 0..(S - 1)
    BY <1>1, <1>5
  <2>2. ((S * 1) + (r + j - S)) % S = r + j - S
    BY <2>1, ModUnique
  <2>3. (S * 1) + (r + j - S) = r + j
    BY <1>1
  <2> QED BY <1>3, <2>2, <2>3, <1>5
<1> QED BY <1>4, <1>5

(* The ring after a write of len words from the head on.                   *)
Written(r, r2, h, ws, len) ==
    r2 = [i \in 0..(Size - 1) |->
             IF 1 + ((i - h) % Size) <= len THEN ws[1 + ((i - h) % Size)] ELSE r[i]]

(* What was not read keeps its words.                                      *)
LEMMA UnreadWords ==
    ASSUME NEW r, NEW r2, NEW h \in Nat, NEW t \in 0..h, NEW ws, NEW len \in Nat,
           h - t + len < Size, Written(r, r2, h, ws, len), NEW p \in t..(h - 1)
    PROVE  WordAt(r2, p) = WordAt(r, p)
<1> USE PerfBufferAssumption
<1>1. p % Size \in 0..(Size - 1)
  BY DivMod
<1>2. ((p % Size) - h) % Size = (p - h) % Size
  <2>1. p \in Int /\ h \in Int
    BY SMT
  <2> QED BY <2>1, ModShift, Zenon
<1>3. p - h \in (-Size)..(Size - 1) /\ p - h < 0
  BY SMT
<1>4. (p - h) % Size = p - h + Size
  BY <1>3, ModSmall
<1>5. ~(1 + (((p % Size) - h) % Size) <= len)
  BY <1>2, <1>4, SMT
<1> QED BY <1>1, <1>5 DEF WordAt, Written

(* The new positions hold the new words.                                   *)
LEMMA NewWords ==
    ASSUME NEW r, NEW r2, NEW h \in Nat, NEW ws, NEW len \in Nat, len <= Size,
           Written(r, r2, h, ws, len), NEW k \in 1..len
    PROVE  WordAt(r2, h + k - 1) = ws[k]
<1> USE PerfBufferAssumption
<1> DEFINE p == h + k - 1
<1>1. p \in Int /\ p - h = k - 1 /\ k - 1 \in (-Size)..(Size - 1) /\ ~(k - 1 < 0)
  BY SMT
<1>2. p % Size \in 0..(Size - 1)
  BY <1>1, DivMod
<1>3. ((p % Size) - h) % Size = (p - h) % Size
  <2>1. h \in Int
    BY SMT
  <2> QED BY <1>1, <2>1, ModShift, Zenon
<1>4. (k - 1) % Size = k - 1
  BY <1>1, ModSmall
<1>5. 1 + (((p % Size) - h) % Size) = k
  BY <1>1, <1>3, <1>4, SMT
<1> HIDE DEF p
<1>6. WordAt(r2, p) = ws[k]
  BY <1>2, <1>5 DEF WordAt, Written
<1> QED BY <1>6 DEF p

(* perf_read_buffer_nbytes copies the words of the stream, across the edge *)
(* of the ring too.                                                        *)
LEMMA CopiedWords ==
    ASSUME NEW t \in Nat, NEW n \in 1..Size, NEW k \in 1..n
    PROVE  Copy(t, n)[k] = WordAt(ring, t + k - 1)
<1> USE PerfBufferAssumption
<1> DEFINE at == t % Size
<1>1. at \in 0..(Size - 1)
  BY DivMod
<1>2. k - 1 \in 0..(Size - 1)
  BY SMT
<1>3. (t + (k - 1)) % Size = IF at + (k - 1) < Size THEN at + (k - 1) ELSE at + (k - 1) - Size
  <2>1. t \in Int
    BY SMT
  <2> QED BY <2>1, <1>2, ModAdd, Zenon
<1>4. t + k - 1 = t + (k - 1)
  BY SMT
<1> HIDE DEF at
<1>5. Copy(t, n)[k] = IF k <= (IF Size - at < n THEN Size - at ELSE n) THEN ring[at + k - 1]
                      ELSE ring[k - (IF Size - at < n THEN Size - at ELSE n) - 1]
  BY DEF Copy, at
<1>6. CASE at + (k - 1) < Size
  <2>1. at + k - 1 = at + (k - 1) /\ k <= (IF Size - at < n THEN Size - at ELSE n)
    BY <1>1, <1>6, SMT
  <2>2. Copy(t, n)[k] = ring[at + k - 1]
    BY <1>5, <2>1
  <2> QED BY <1>3, <1>4, <1>6, <2>1, <2>2 DEF WordAt
<1>7. CASE ~(at + (k - 1) < Size)
  <2>1. /\ ~(k <= (IF Size - at < n THEN Size - at ELSE n))
        /\ k - (IF Size - at < n THEN Size - at ELSE n) - 1 = at + (k - 1) - Size
    BY <1>1, <1>7, SMT
  <2>2. Copy(t, n)[k] = ring[at + (k - 1) - Size]
    BY <1>5, <2>1
  <2> QED BY <1>3, <1>4, <1>7, <2>2 DEF WordAt
<1> QED BY <1>6, <1>7

-----------------------------------------------------------------------------
(* Records in the stream.                                                  *)

(* Only the first field of a record starts one.                            *)
LEMMA FieldNames ==
    /\ Len(SampleFields) = 16 /\ Len(LostFields) = 6
    /\ SampleFields[1] = "type" /\ LostFields[1] = "lost_type"
    /\ \A k \in 1..16 : /\ SampleFields[k] = "type" => k = 1
                        /\ SampleFields[k] # "lost_type"
    /\ \A k \in 1..6 : /\ LostFields[k] # "type"
                       /\ LostFields[k] = "lost_type" => k = 1
BY DEF SampleFields, LostFields

(* What the kernel appends for an overflow: the sample at s, after the     *)
(* record of lost samples when there is one.                               *)
Appended(r, r2, h, t, s, n) ==
    /\ s \in {h, h + 6}
    /\ s + 16 - t < Size
    /\ \A p \in t..(h - 1) : WordAt(r2, p) = WordAt(r, p)
    /\ s # h => \A k \in 1..6 : WordAt(r2, h + k - 1) = <<n, LostFields[k]>>
    /\ \A k \in 1..16 : WordAt(r2, s + k - 1) = <<n, SampleFields[k]>>

(* Where records start after a write.                                      *)
LEMMA AppendedStarts ==
    ASSUME NEW r, NEW r2, NEW h \in Nat, NEW t \in 0..h, NEW s, NEW n \in Nat,
           Appended(r, r2, h, t, s, n),
           NEW p \in t..(s + 15)
    PROVE  /\ SampleAt(r2, p) <=> (p < h /\ SampleAt(r, p)) \/ p = s
           /\ LostAt(r2, p) <=> (p < h /\ LostAt(r, p)) \/ (p = h /\ s # h)
<1>0. s \in Nat /\ s >= h /\ (s = h \/ s = h + 6)
  BY DEF Appended
<1>1. CASE p < h
  <2>1. WordAt(r2, p) = WordAt(r, p)
    BY <1>1, <1>0 DEF Appended
  <2> QED BY <1>0, <1>1, <2>1 DEF SampleAt, LostAt
<1>2. CASE p >= h /\ p < s
  <2>1. s # h /\ p - h + 1 \in 1..6 /\ h + (p - h + 1) - 1 = p
    BY <1>0, <1>2
  <2>2. WordAt(r2, h + (p - h + 1) - 1) = <<n, LostFields[p - h + 1]>>
    BY <2>1 DEF Appended
  <2>3. WordAt(r2, p)[2] = LostFields[p - h + 1]
    BY <2>1, <2>2
  <2>4. /\ LostFields[p - h + 1] # "type"
        /\ LostFields[p - h + 1] = "lost_type" <=> p - h + 1 = 1
    BY <2>1, FieldNames
  <2>5. p # s /\ ~(p < h) /\ (p - h + 1 = 1 <=> p = h)
    BY <1>0, <1>2
  <2> QED BY <2>1, <2>3, <2>4, <2>5 DEF SampleAt, LostAt
<1>3. CASE p >= s
  <2>1. p - s + 1 \in 1..16 /\ s + (p - s + 1) - 1 = p
    BY <1>0, <1>3
  <2>2. WordAt(r2, s + (p - s + 1) - 1) = <<n, SampleFields[p - s + 1]>>
    BY <2>1 DEF Appended
  <2>3. WordAt(r2, p)[2] = SampleFields[p - s + 1]
    BY <2>1, <2>2
  <2>4. /\ SampleFields[p - s + 1] = "type" <=> p - s + 1 = 1
        /\ SampleFields[p - s + 1] # "lost_type"
    BY <2>1, FieldNames
  <2>5. ~(p < h) /\ (p - s + 1 = 1 <=> p = s) /\ ~(p = h /\ s # h)
    BY <1>0, <1>3
  <2> QED BY <2>3, <2>4, <2>5 DEF SampleAt, LostAt
<1> QED BY <1>0, <1>1, <1>2, <1>3

(* The records stay whole and in order.                                    *)
LEMMA AppendedRecords ==
    ASSUME NEW r, NEW r2, NEW h \in Nat, NEW t \in 0..h, NEW s, NEW n \in Nat,
           NEW seen \in Nat, seen <= n,
           \A p \in t..(h - 1) : WordAt(r, p)[1] \in Nat,
           Records(r, h, t, n, seen),
           Appended(r, r2, h, t, s, n + 1)
    PROVE  Records(r2, s + 16, t, n + 1, seen)
<1> USE FieldNames
<1>0. s \in Nat /\ s >= h /\ (s = h \/ s = h + 6) /\ s + 16 - t < Size
  BY DEF Appended
<1>a. ASSUME NEW p \in t..(s + 15)
      PROVE  /\ SampleAt(r2, p) <=> (p < h /\ SampleAt(r, p)) \/ p = s
             /\ LostAt(r2, p) <=> (p < h /\ LostAt(r, p)) \/ (p = h /\ s # h)
  <2>1. n + 1 \in Nat
    BY SMT
  <2> QED BY <2>1, AppendedStarts
<1>b. \A p \in t..(h - 1) : WordAt(r2, p) = WordAt(r, p)
  BY DEF Appended
<1>c. \A k \in 1..16 : WordAt(r2, s + k - 1) = <<n + 1, SampleFields[k]>>
  BY DEF Appended
<1>d. WordAt(r2, s) = <<n + 1, "type">>
  <2>1. WordAt(r2, s + 1 - 1) = <<n + 1, SampleFields[1]>>
    BY <1>c, 1 \in 1..16, Zenon
  <2>2. s + 1 - 1 = s
    BY <1>0
  <2> QED BY <2>1, <2>2
<1>e. ASSUME NEW p \in t..(h - 1), NEW fields, NEW m \in 1..16, Len(fields) = m,
             Covers(r, h, p, fields)
      PROVE  Covers(r2, s + 16, p, fields)
  <2>0. p + m <= h /\ \A k \in 1..m : WordAt(r, p + k - 1) = <<WordAt(r, p)[1], fields[k]>>
    BY <1>e, Zenon DEF Covers
  <2>1. ASSUME NEW k \in 1..m
        PROVE  WordAt(r2, p + k - 1) = <<WordAt(r2, p)[1], fields[k]>>
    <3>1. p + k - 1 \in t..(h - 1)
      BY <2>0
    <3>2. WordAt(r, p + k - 1) = <<WordAt(r, p)[1], fields[k]>>
      BY <2>0
    <3> QED BY <3>1, <3>2, <1>b
  <2>2. p + m <= s + 16
    BY <1>0, <2>0
  <2> QED BY <1>e, <2>1, <2>2, Zenon DEF Covers
<1>1. s + 16 - t < Size
  BY <1>0
<1>2. ASSUME NEW p \in t..((s + 16) - 1), SampleAt(r2, p)
      PROVE  /\ Covers(r2, s + 16, p, SampleFields)
             /\ seen < WordAt(r2, p)[1] /\ WordAt(r2, p)[1] <= n + 1
  <2>0. p \in t..(s + 15)
    BY <1>0
  <2>1. CASE p < h /\ SampleAt(r, p)
    <3>1. p \in t..(h - 1)
      BY <2>1
    <3>2. /\ Covers(r, h, p, SampleFields)
          /\ seen < WordAt(r, p)[1] /\ WordAt(r, p)[1] <= n
      BY <2>1, <3>1 DEF Records
    <3>3. Covers(r2, s + 16, p, SampleFields)
      BY <3>1, <3>2, <1>e
    <3> QED BY <3>1, <3>2, <3>3, <1>b
  <2>2. CASE p = s
    <3>1. Covers(r2, s + 16, s, SampleFields)
      BY <1>0, <1>c, <1>d DEF Covers
    <3> QED BY <3>1, <2>2, <1>d
  <2> QED BY <2>0, <2>1, <2>2, <1>2, <1>a
<1>3. ASSUME NEW p \in t..((s + 16) - 1), LostAt(r2, p)
      PROVE  /\ Covers(r2, s + 16, p, LostFields)
             /\ p + Len(LostFields) < s + 16
             /\ SampleAt(r2, p + Len(LostFields))
  <2>0. p \in t..(s + 15)
    BY <1>0
  <2>1. CASE p < h /\ LostAt(r, p)
    <3>1. p \in t..(h - 1)
      BY <2>1
    <3>2. /\ Covers(r, h, p, LostFields)
          /\ p + 6 < h /\ SampleAt(r, p + 6)
      BY <2>1, <3>1 DEF Records
    <3>3. Covers(r2, s + 16, p, LostFields)
      BY <3>1, <3>2, <1>e
    <3>4. p + 6 \in t..(h - 1)
      BY <3>1, <3>2
    <3>5. SampleAt(r2, p + 6)
      BY <3>4, <3>2, <1>b DEF SampleAt
    <3> QED BY <3>2, <3>3, <3>5, <1>0
  <2>2. CASE p = h /\ s # h
    <3>1. \A k \in 1..6 : WordAt(r2, h + k - 1) = <<n + 1, LostFields[k]>>
      BY <2>2 DEF Appended
    <3>2. WordAt(r2, h + 1 - 1) = <<n + 1, LostFields[1]>>
      BY <3>1
    <3>3. WordAt(r2, h)[1] = n + 1
      BY <3>2
    <3>4. Covers(r2, s + 16, h, LostFields)
      BY <1>0, <2>2, <3>1, <3>3 DEF Covers
    <3>5. s = h + 6
      BY <1>0, <2>2
    <3>6. SampleAt(r2, h + 6)
      BY <3>5, <1>d DEF SampleAt
    <3> QED BY <2>2, <3>4, <3>5, <3>6
  <2> QED BY <2>0, <2>1, <2>2, <1>3, <1>a
<1>4. ASSUME NEW p \in t..((s + 16) - 1), NEW q \in t..((s + 16) - 1),
             p < q, SampleAt(r2, p), SampleAt(r2, q)
      PROVE  WordAt(r2, p)[1] < WordAt(r2, q)[1]
  <2>0. p \in t..(s + 15) /\ q \in t..(s + 15)
    BY <1>0
  <2>1. p < h /\ SampleAt(r, p)
    BY <2>0, <1>0, <1>4, <1>a
  <2>2. p \in t..(h - 1) /\ WordAt(r2, p) = WordAt(r, p) /\ WordAt(r, p)[1] <= n
    BY <2>1, <1>b DEF Records
  <2>3. CASE q < h /\ SampleAt(r, q)
    <3>1. q \in t..(h - 1)
      BY <2>3
    <3> QED BY <3>1, <2>1, <2>2, <2>3, <1>4, <1>b DEF Records
  <2>4. CASE q = s
    BY <2>2, <2>4, <1>d
  <2> QED BY <2>0, <2>3, <2>4, <1>4, <1>a
<1>5. \A p \in t..((s + 16) - 1) :
          SampleAt(r2, p) => /\ Covers(r2, s + 16, p, SampleFields)
                             /\ seen < WordAt(r2, p)[1] /\ WordAt(r2, p)[1] <= n + 1
  BY <1>2
<1>6. \A p \in t..((s + 16) - 1) :
          LostAt(r2, p) => /\ Covers(r2, s + 16, p, LostFields)
                           /\ p + Len(LostFields) < s + 16
                           /\ SampleAt(r2, p + Len(LostFields))
  BY <1>3
<1>7. \A p, q \in t..((s + 16) - 1) :
          p < q /\ SampleAt(r2, p) /\ SampleAt(r2, q) => WordAt(r2, p)[1] < WordAt(r2, q)[1]
  BY <1>4
<1> QED BY <1>0, <1>1, <1>5, <1>6, <1>7 DEF Records

(* The words of the two records that the kernel writes.                    *)
LEMMA WordsOfRecords ==
    ASSUME NEW n \in Nat
    PROVE  LET ss == Words(n, SampleFields)
               ls == Words(n, LostFields)
           IN  /\ Len(ss) = 16
               /\ \A k \in 1..16 : ss[k] = <<n, SampleFields[k]>>
               /\ Len(ls \o ss) = 22
               /\ \A k \in 1..6 : (ls \o ss)[k] = <<n, LostFields[k]>>
               /\ \A k \in 1..16 : (ls \o ss)[6 + k] = <<n, SampleFields[k]>>
<1> DEFINE ss == Words(n, SampleFields)
           ls == Words(n, LostFields)
<1>1. ss = <<<<n, "type">>, <<n, "size">>, <<n, "ip">>, <<n, "ip_hi">>, <<n, "pid">>,
             <<n, "tid">>, <<n, "time">>, <<n, "time_hi">>, <<n, "addr">>, <<n, "addr_hi">>,
             <<n, "cpu">>, <<n, "res">>, <<n, "period">>, <<n, "period_hi">>, <<n, "nr">>,
             <<n, "nr_hi">>>>
  BY DEF SampleFields, Words
<1>2. ls = <<<<n, "lost_type">>, <<n, "lost_size">>, <<n, "id">>, <<n, "id_hi">>,
             <<n, "lost">>, <<n, "lost_hi">>>>
  BY DEF LostFields, Words
<1>3. Len(ss) = 16 /\ Len(ls) = 6
  BY <1>1, <1>2
<1>4. /\ \A k \in 1..16 : ss[k] = <<n, SampleFields[k]>>
      /\ \A k \in 1..6 : ls[k] = <<n, LostFields[k]>>
  BY FieldNames DEF Words
<1>5. Len(ls \o ss) = 22
  BY DEF LostFields, Words, SampleFields
<1>6. \A k \in 1..6 : (ls \o ss)[k] = ls[k]
  BY DEF LostFields, Words, SampleFields
<1>7. \A k \in 1..16 : (ls \o ss)[6 + k] = ss[k]
  BY DEF LostFields, Words, SampleFields
<1> QED BY <1>3, <1>4, <1>5, <1>6, <1>7

(* What the kernel does with an overflow: the record is lost or appended.  *)
LEMMA WriteEffect ==
    ASSUME head \in Nat, tail \in 0..head, lost \in BOOLEAN, head - tail < Size,
           NEW n \in Nat, WriteRecord(n)
    PROVE  \/ UNCHANGED <<ring, head, tail>> /\ lost' = TRUE
           \/ /\ \E s : Appended(ring, ring', head, tail, s, n) /\ head' = s + 16
              /\ tail' = tail /\ lost' = FALSE
<1> DEFINE ss == Words(n, SampleFields)
           ls == Words(n, LostFields)
<1>1. /\ Len(ss) = 16 /\ \A k \in 1..16 : ss[k] = <<n, SampleFields[k]>>
      /\ Len(ls \o ss) = 22
      /\ \A k \in 1..6 : (ls \o ss)[k] = <<n, LostFields[k]>>
      /\ \A k \in 1..16 : (ls \o ss)[6 + k] = <<n, SampleFields[k]>>
  BY WordsOfRecords
<1>2. ASSUME NEW ws, NEW len \in Nat, Len(ws) = len, head - tail + len < Size,
             ring' = [i \in 0..(Size - 1) |->
                        IF 1 + ((i - head) % Size) <= Len(ws)
                        THEN ws[1 + ((i - head) % Size)] ELSE ring[i]]
      PROVE  /\ \A p \in tail..(head - 1) : WordAt(ring', p) = WordAt(ring, p)
             /\ \A k \in 1..len : WordAt(ring', head + k - 1) = ws[k]
  <2>1. Written(ring, ring', head, ws, len)
    BY <1>2, Zenon DEF Written
  <2>2. head - tail + len < Size
    BY <1>2
  <2>3. \A p \in tail..(head - 1) : WordAt(ring', p) = WordAt(ring, p)
    BY <2>1, <2>2, UnreadWords, Zenon
  <2>4. \A k \in 1..len : WordAt(ring', head + k - 1) = ws[k]
    <3>1. len <= Size
      BY <2>2, PerfBufferAssumption
    <3>2. SUFFICES ASSUME NEW k \in 1..len PROVE WordAt(ring', head + k - 1) = ws[k]
      OBVIOUS
    <3> QED BY <2>1, <3>1, NewWords
  <2> QED BY <2>3, <2>4
<1> HIDE DEF ss, ls
<1>3. CASE lost /\ head - tail + 22 < Size
  <2> DEFINE ws == ls \o ss
  <2>1. Len(ws) = 22
    BY <1>1
  <2>2. /\ ring' = [i \in 0..(Size - 1) |->
                      IF 1 + ((i - head) % Size) <= Len(ws)
                      THEN ws[1 + ((i - head) % Size)] ELSE ring[i]]
        /\ head' = head + Len(ws) /\ lost' = FALSE /\ tail' = tail
    BY <1>3, <2>1 DEF WriteRecord, ss, ls
  <2>3. \A k \in 1..6 : ws[k] = <<n, LostFields[k]>>
    BY <1>1
  <2>4. \A k \in 1..16 : ws[6 + k] = <<n, SampleFields[k]>>
    BY <1>1
  <2> HIDE DEF ws
  <2>5. /\ \A p \in tail..(head - 1) : WordAt(ring', p) = WordAt(ring, p)
        /\ \A k \in 1..22 : WordAt(ring', head + k - 1) = ws[k]
    <3>1. 22 \in Nat
      OBVIOUS
    <3> QED BY <1>2, <1>3, <2>1, <2>2, <3>1, Zenon
  <2>6. ASSUME NEW k \in 1..16
        PROVE  WordAt(ring', (head + 6) + k - 1) = <<n, SampleFields[k]>>
    <3>1. 6 + k \in 1..22 /\ (head + 6) + k - 1 = head + (6 + k) - 1
      OBVIOUS
    <3> QED BY <3>1, <2>4, <2>5
  <2>7. ASSUME NEW k \in 1..6
        PROVE  WordAt(ring', head + k - 1) = <<n, LostFields[k]>>
    <3>1. k \in 1..22
      OBVIOUS
    <3> QED BY <3>1, <2>3, <2>5
  <2>8. Appended(ring, ring', head, tail, head + 6, n)
    BY <1>3, <2>5, <2>6, <2>7 DEF Appended
  <2>9. head' = (head + 6) + 16
    BY <2>1, <2>2
  <2> QED BY <2>2, <2>8, <2>9
<1>4. CASE ~lost /\ head - tail + 16 < Size
  <2>1. /\ ring' = [i \in 0..(Size - 1) |->
                      IF 1 + ((i - head) % Size) <= Len(ss)
                      THEN ss[1 + ((i - head) % Size)] ELSE ring[i]]
        /\ head' = head + Len(ss) /\ lost' = FALSE /\ tail' = tail
    BY <1>1, <1>4 DEF WriteRecord, ss
  <2>2. /\ \A p \in tail..(head - 1) : WordAt(ring', p) = WordAt(ring, p)
        /\ \A k \in 1..16 : WordAt(ring', head + k - 1) = ss[k]
    <3>1. 16 \in Nat
      OBVIOUS
    <3> QED BY <1>1, <1>2, <1>4, <2>1, <3>1, Zenon
  <2>3. \A k \in 1..16 : WordAt(ring', head + k - 1) = <<n, SampleFields[k]>>
    BY <1>1, <2>2
  <2>4. Appended(ring, ring', head, tail, head, n)
    BY <1>4, <2>2, <2>3 DEF Appended
  <2> QED BY <1>1, <2>1, <2>4
<1>5. CASE (lost /\ ~(head - tail + 22 < Size)) \/ (~lost /\ ~(head - tail + 16 < Size))
  BY <1>1, <1>5 DEF WriteRecord, ss, ls
<1> QED BY <1>3, <1>4, <1>5

(* The kernel writes words.                                                *)
LEMMA WriteTyped ==
    ASSUME head \in Nat, tail \in 0..head, lost \in BOOLEAN, NEW n \in 0..MaxOverflows,
           ring \in [0..(Size - 1) -> Word], WriteRecord(n)
    PROVE  ring' \in [0..(Size - 1) -> Word]
<1> USE PerfBufferAssumption, SamplingAssumption
<1> DEFINE ss == Words(n, SampleFields)
           ls == Words(n, LostFields)
<1>1. /\ Len(ss) = 16 /\ \A k \in 1..16 : ss[k] = <<n, SampleFields[k]>>
      /\ Len(ls \o ss) = 22
      /\ \A k \in 1..6 : (ls \o ss)[k] = <<n, LostFields[k]>>
      /\ \A k \in 1..16 : (ls \o ss)[6 + k] = <<n, SampleFields[k]>>
  <2>1. n \in Nat
    OBVIOUS
  <2> QED BY <2>1, WordsOfRecords
<1>2. /\ \A k \in 1..16 : <<n, SampleFields[k]>> \in Word
      /\ \A k \in 1..6 : <<n, LostFields[k]>> \in Word
  BY FieldNames DEF Word, Fields
<1>3. \A k \in 1..22 : (ls \o ss)[k] \in Word
  <2> SUFFICES ASSUME NEW k \in 1..22 PROVE (ls \o ss)[k] \in Word
    OBVIOUS
  <2> HIDE DEF ls, ss
  <2>1. CASE k <= 6
    <3>1. k \in 1..6
      BY <2>1
    <3> QED BY <1>1, <1>2, <3>1
  <2>2. CASE k > 6
    <3>1. k - 6 \in 1..16 /\ 6 + (k - 6) = k
      BY <2>2
    <3>2. (ls \o ss)[6 + (k - 6)] = <<n, SampleFields[k - 6]>>
      BY <1>1, <3>1, Zenon
    <3>3. <<n, SampleFields[k - 6]>> \in Word
      BY <1>2, <3>1, Zenon
    <3> QED BY <3>1, <3>2, <3>3, Zenon
  <2>3. k <= 6 \/ k > 6
    OBVIOUS
  <2> QED BY <2>1, <2>2, <2>3, Zenon
<1>4. \A k \in 1..16 : ss[k] \in Word
  BY <1>1, <1>2
<1>5. ASSUME NEW ws, NEW len \in Nat, Len(ws) = len, \A k \in 1..len : ws[k] \in Word,
             ring' = [i \in 0..(Size - 1) |->
                        IF 1 + ((i - head) % Size) <= Len(ws)
                        THEN ws[1 + ((i - head) % Size)] ELSE ring[i]]
      PROVE  ring' \in [0..(Size - 1) -> Word]
  <2>1. ASSUME NEW i \in 0..(Size - 1)
        PROVE  1 + ((i - head) % Size) \in Nat \ {0}
    <3>1. i - head \in Int
      OBVIOUS
    <3>2. (i - head) % Size \in 0..(Size - 1)
      BY <3>1, DivMod, Zenon
    <3> QED BY <3>2
  <2>2. ASSUME NEW i \in 0..(Size - 1), 1 + ((i - head) % Size) <= len
        PROVE  ws[1 + ((i - head) % Size)] \in Word
    <3>1. 1 + ((i - head) % Size) \in 1..len
      BY <2>1, <2>2
    <3> QED BY <3>1, <1>5
  <2> QED BY <1>5, <2>2
<1> HIDE DEF ls, ss
<1>6. CASE lost /\ head - tail + 22 < Size
  <2>1. ring' = [i \in 0..(Size - 1) |->
                   IF 1 + ((i - head) % Size) <= Len(ls \o ss)
                   THEN (ls \o ss)[1 + ((i - head) % Size)] ELSE ring[i]]
    BY <1>1, <1>6 DEF WriteRecord, ss, ls
  <2> QED BY <1>1, <1>3, <1>5, <2>1, 22 \in Nat
<1>7. CASE ~lost /\ head - tail + 16 < Size
  <2>1. ring' = [i \in 0..(Size - 1) |->
                   IF 1 + ((i - head) % Size) <= Len(ss)
                   THEN ss[1 + ((i - head) % Size)] ELSE ring[i]]
    BY <1>1, <1>7 DEF WriteRecord, ss
  <2> QED BY <1>1, <1>4, <1>5, <2>1, 16 \in Nat
<1>8. CASE (lost /\ ~(head - tail + 22 < Size)) \/ (~lost /\ ~(head - tail + 16 < Size))
  BY <1>1, <1>8 DEF WriteRecord, ss, ls
<1> QED BY <1>6, <1>7, <1>8

-----------------------------------------------------------------------------
(* Samples that wait.                                                      *)

Waiting(r, h, t, n) ==
    {k \in 1..n : \E p \in t..(h - 1) : SampleAt(r, p) /\ WordAt(r, p)[1] = k}

(* The words of the ring are pairs.                                        *)
LEMMA WordTyped ==
    ASSUME NEW r \in [0..(Size - 1) -> Word], NEW p \in Nat
    PROVE  WordAt(r, p) \in Word
<1>1. p \in Int
  OBVIOUS
<1>2. p % Size \in 0..(Size - 1)
  BY <1>1, DivMod, PerfBufferAssumption, Zenon
<1> QED BY <1>2 DEF WordAt

(* The number of a word is a natural number.                               *)
LEMMA WordNumber ==
    ASSUME NEW r \in [0..(Size - 1) -> Word], NEW p \in Nat
    PROVE  WordAt(r, p)[1] \in 0..MaxOverflows
BY WordTyped DEF Word

(* WaitingSamples in the terms of this module.                             *)
LEMMA WaitingIs ==
    ASSUME NEW r \in [0..(Size - 1) -> Word], NEW h \in Nat, NEW t \in 0..h, NEW n \in Nat
    PROVE  {k \in 1..n : \E p \in t..(h - 1) : r[p % Size] = <<k, "type">>} = Waiting(r, h, t, n)
<1>1. ASSUME NEW k \in 1..n, NEW p \in t..(h - 1)
      PROVE  r[p % Size] = <<k, "type">> <=> SampleAt(r, p) /\ WordAt(r, p)[1] = k
  <2>1. p \in Nat
    OBVIOUS
  <2>2. WordAt(r, p) \in Word
    BY <2>1, WordTyped
  <2>3. WordAt(r, p) = <<WordAt(r, p)[1], WordAt(r, p)[2]>>
    BY <2>2 DEF Word
  <2> QED BY <2>3 DEF WordAt, SampleAt
<1> QED BY <1>1 DEF Waiting

(* The oldest is the least.                                                *)
LEMMA OldestIs ==
    ASSUME NEW S \in SUBSET Nat, NEW k \in S, \A m \in S : k <= m
    PROVE  Oldest(S) = k
<1>1. \E n \in S : \A m \in S : n <= m
  OBVIOUS
<1>2. Oldest(S) \in S /\ \A m \in S : Oldest(S) <= m
  BY <1>1 DEF Oldest
<1>3. Oldest(S) \in Nat /\ k \in Nat /\ Oldest(S) <= k /\ k <= Oldest(S)
  BY <1>2
<1> HIDE DEF Oldest
<1> QED BY <1>3

(* A write adds the new sample to those that wait.                         *)
LEMMA WaitingAppended ==
    ASSUME NEW r, NEW r2, NEW h \in Nat, NEW t \in 0..h, NEW s, NEW n \in Nat,
           NEW seen \in Nat,
           \A p \in t..(h - 1) : WordAt(r, p)[1] \in Nat,
           Records(r, h, t, n, seen), Appended(r, r2, h, t, s, n + 1)
    PROVE  Waiting(r2, s + 16, t, n + 1) = Waiting(r, h, t, n) \cup {n + 1}
<1>0. s \in Nat /\ s >= h /\ (s = h \/ s = h + 6)
  BY DEF Appended
<1>a. ASSUME NEW p \in t..(s + 15)
      PROVE  SampleAt(r2, p) <=> (p < h /\ SampleAt(r, p)) \/ p = s
  <2>1. n + 1 \in Nat
    OBVIOUS
  <2> QED BY <2>1, AppendedStarts
<1>b. \A p \in t..(h - 1) : WordAt(r2, p) = WordAt(r, p)
  BY DEF Appended
<1>d. WordAt(r2, s)[1] = n + 1
  <2>1. WordAt(r2, s + 1 - 1) = <<n + 1, SampleFields[1]>>
    BY 1 \in 1..16, Zenon DEF Appended
  <2>2. s + 1 - 1 = s
    BY <1>0
  <2> QED BY <2>1, <2>2
<1>1. ASSUME NEW k \in Waiting(r2, s + 16, t, n + 1)
      PROVE  k \in Waiting(r, h, t, n) \cup {n + 1}
  <2>1. PICK p \in t..((s + 16) - 1) : SampleAt(r2, p) /\ WordAt(r2, p)[1] = k
    BY DEF Waiting
  <2>2. p \in t..(s + 15)
    BY <1>0
  <2>3. CASE p = s
    BY <2>1, <2>3, <1>d
  <2>4. CASE p < h /\ SampleAt(r, p)
    <3>1. p \in t..(h - 1) /\ WordAt(r, p)[1] = k
      BY <2>1, <2>4, <1>b
    <3>2. k <= n
      BY <3>1, <2>4 DEF Records
    <3>3. k \in 1..n
      BY <3>2 DEF Waiting
    <3> QED BY <3>1, <3>3, <2>4 DEF Waiting
  <2> QED BY <2>1, <2>2, <2>3, <2>4, <1>a
<1>2. ASSUME NEW k \in Waiting(r, h, t, n)
      PROVE  k \in Waiting(r2, s + 16, t, n + 1)
  <2>1. PICK p \in t..(h - 1) : SampleAt(r, p) /\ WordAt(r, p)[1] = k
    BY DEF Waiting
  <2>2. p \in t..((s + 16) - 1) /\ WordAt(r2, p) = WordAt(r, p)
    BY <1>0, <1>b
  <2>3. SampleAt(r2, p)
    BY <2>1, <2>2 DEF SampleAt
  <2>4. k \in 1..(n + 1)
    BY DEF Waiting
  <2> QED BY <2>1, <2>2, <2>3, <2>4 DEF Waiting
<1>3. n + 1 \in Waiting(r2, s + 16, t, n + 1)
  <2>1. s \in t..(s + 15) /\ s \in t..((s + 16) - 1) /\ n + 1 \in 1..(n + 1)
    BY <1>0
  <2>2. SampleAt(r2, s)
    BY <2>1, <1>a
  <2> QED BY <2>1, <2>2, <1>d DEF Waiting
<1> QED BY <1>1, <1>2, <1>3

(* A lost one adds nothing.                                                *)
LEMMA WaitingLost ==
    ASSUME NEW r, NEW h \in Nat, NEW t \in 0..h, NEW n \in Nat, NEW seen \in Nat,
           \A p \in t..(h - 1) : WordAt(r, p)[1] \in Nat,
           Records(r, h, t, n, seen)
    PROVE  Waiting(r, h, t, n + 1) = Waiting(r, h, t, n)
<1>1. ASSUME NEW k \in Waiting(r, h, t, n + 1)
      PROVE  k \in Waiting(r, h, t, n)
  <2>1. PICK p \in t..(h - 1) : SampleAt(r, p) /\ WordAt(r, p)[1] = k
    BY DEF Waiting
  <2>2. k <= n
    BY <2>1 DEF Records
  <2>3. k \in 1..n
    BY <2>2 DEF Waiting
  <2> QED BY <2>1, <2>3 DEF Waiting
<1>2. ASSUME NEW k \in Waiting(r, h, t, n)
      PROVE  k \in Waiting(r, h, t, n + 1)
  <2>1. k \in 1..(n + 1)
    BY DEF Waiting
  <2> QED BY <2>1 DEF Waiting
<1> QED BY <1>1, <1>2

(* At the end nothing waits.                                               *)
LEMMA WaitingEnd ==
    ASSUME NEW r, NEW h \in Nat, NEW n \in Nat
    PROVE  Waiting(r, h, h, n) = {}
BY DEF Waiting

(* Moving the tail forward keeps what is behind it.                        *)
LEMMA RecordsForward ==
    ASSUME NEW r, NEW h \in Nat, NEW t \in 0..h, NEW u \in t..h, NEW n \in Nat,
           NEW seen \in Nat, NEW seen2 \in Nat,
           Records(r, h, t, n, seen),
           \A p \in u..(h - 1) : SampleAt(r, p) => seen2 < WordAt(r, p)[1]
    PROVE  Records(r, h, u, n, seen2)
<1> USE PerfBufferAssumption
<1>1. h - u < Size
  BY DEF Records
<1>2. \A p \in u..(h - 1) : p \in t..(h - 1)
  OBVIOUS
<1>3. \A p \in u..(h - 1) :
          SampleAt(r, p) => /\ Covers(r, h, p, SampleFields)
                            /\ seen2 < WordAt(r, p)[1] /\ WordAt(r, p)[1] <= n
  BY <1>2, Zenon DEF Records
<1>4. \A p \in u..(h - 1) :
          LostAt(r, p) => /\ Covers(r, h, p, LostFields)
                          /\ p + Len(LostFields) < h
                          /\ SampleAt(r, p + Len(LostFields))
  BY <1>2, Zenon DEF Records
<1>5. \A p, q \in u..(h - 1) :
          p < q /\ SampleAt(r, p) /\ SampleAt(r, q) => WordAt(r, p)[1] < WordAt(r, q)[1]
  BY <1>2, Zenon DEF Records
<1> QED BY <1>1, <1>3, <1>4, <1>5 DEF Records

(* Words of a sample that the reader takes and where it leaves the rest.   *)
LEMMA SampleWordsAt ==
    ASSUME NEW r, NEW h \in Nat, NEW t \in 0..h, NEW n \in Nat, NEW seen \in Nat,
           Records(r, h, t, n, seen), t < h, SampleAt(r, t)
    PROVE  /\ t + 16 <= h
           /\ \A j \in 1..16 : WordAt(r, t + j - 1) = <<WordAt(r, t)[1], SampleFields[j]>>
           /\ AfterSample(r, h, t + 9)
<1>1. t \in t..(h - 1)
  OBVIOUS
<1>2. Covers(r, h, t, SampleFields)
  BY <1>1 DEF Records
<1>3. /\ t + 16 <= h
      /\ \A j \in 1..16 : WordAt(r, t + j - 1) = <<WordAt(r, t)[1], SampleFields[j]>>
  BY <1>2, FieldNames DEF Covers
<1>4. WordAt(r, t + 10 - 1)[2] = "addr_hi" /\ WordAt(r, t + 11 - 1)[2] = "cpu"
  <2>1. SampleFields[10] = "addr_hi" /\ SampleFields[11] = "cpu"
    BY DEF SampleFields
  <2>2. 10 \in 1..16 /\ 11 \in 1..16
    OBVIOUS
  <2> QED BY <1>3, <2>1, <2>2
<1>5. t + 10 - 1 = t + 9 /\ t + 11 - 1 = (t + 9) + 1 /\ (t + 9) + 7 <= h
  BY <1>3
<1> QED BY <1>3, <1>4, <1>5 DEF AfterSample

(* It is the oldest that waits.                                            *)
LEMMA SampleIsOldest ==
    ASSUME NEW r \in [0..(Size - 1) -> Word], NEW h \in Nat, NEW t \in 0..h, NEW n \in Nat,
           NEW seen \in Nat, Records(r, h, t, n, seen), t < h, SampleAt(r, t)
    PROVE  /\ WordAt(r, t)[1] \in 1..n /\ seen < WordAt(r, t)[1]
           /\ WordAt(r, t)[1] \in Waiting(r, h, t, n)
           /\ \A w \in Waiting(r, h, t, n) : WordAt(r, t)[1] <= w
<1>1. t \in t..(h - 1)
  OBVIOUS
<1>2. WordAt(r, t)[1] \in Nat
  BY WordNumber, SamplingAssumption
<1>3. seen < WordAt(r, t)[1] /\ WordAt(r, t)[1] <= n
  BY <1>1 DEF Records
<1>4. WordAt(r, t)[1] \in 1..n
  BY <1>2, <1>3
<1>5. WordAt(r, t)[1] \in Waiting(r, h, t, n)
  BY <1>1, <1>4 DEF Waiting
<1>6. ASSUME NEW w \in Waiting(r, h, t, n)
      PROVE  WordAt(r, t)[1] <= w
  <2>1. PICK p \in t..(h - 1) : SampleAt(r, p) /\ WordAt(r, p)[1] = w
    BY DEF Waiting
  <2>2. CASE p = t
    BY <2>1, <2>2, <1>2
  <2>3. CASE t < p
    <3>1. WordAt(r, t)[1] < WordAt(r, p)[1]
      BY <1>1, <2>1, <2>3 DEF Records
    <3>2. w \in Nat
      BY DEF Waiting
    <3> QED BY <3>1, <3>2, <2>1, <1>2
  <2> QED BY <2>2, <2>3
<1> QED BY <1>3, <1>4, <1>5, <1>6

(* After it the later ones wait.                                           *)
LEMMA SampleTaken ==
    ASSUME NEW r \in [0..(Size - 1) -> Word], NEW h \in Nat, NEW t \in 0..h, NEW n \in Nat,
           NEW seen \in Nat, Records(r, h, t, n, seen), t < h, SampleAt(r, t)
    PROVE  /\ Records(r, h, t + 9, n, WordAt(r, t)[1])
           /\ Waiting(r, h, t + 9, n) = Waiting(r, h, t, n) \ {WordAt(r, t)[1]}
<1> DEFINE k == WordAt(r, t)[1]
<1>0. k \in 1..n /\ seen < k
  BY SampleIsOldest
<1>1. /\ t + 16 <= h
      /\ \A j \in 1..16 : WordAt(r, t + j - 1) = <<WordAt(r, t)[1], SampleFields[j]>>
  BY SampleWordsAt
<1>2. ASSUME NEW p \in t..(h - 1), SampleAt(r, p), p # t
      PROVE  p \in (t + 9)..(h - 1) /\ k < WordAt(r, p)[1]
  <2>1. t \in t..(h - 1) /\ t < p
    BY <1>2
  <2>2. k < WordAt(r, p)[1]
    BY <2>1, <1>2 DEF Records
  <2>3. CASE p < t + 9
    <3>1. p - t + 1 \in 1..16 /\ t + (p - t + 1) - 1 = p /\ p - t + 1 # 1
      BY <2>1, <2>3
    <3>2. WordAt(r, t + (p - t + 1) - 1) = <<WordAt(r, t)[1], SampleFields[p - t + 1]>>
      BY <3>1, <1>1, Zenon
    <3>3. WordAt(r, p)[2] = SampleFields[p - t + 1]
      BY <3>1, <3>2
    <3> QED BY <3>1, <3>3, <1>2, FieldNames DEF SampleAt
  <2> QED BY <2>2, <2>3
<1> HIDE DEF k
<1>3. \A p \in (t + 9)..(h - 1) : SampleAt(r, p) => k < WordAt(r, p)[1]
  <2> SUFFICES ASSUME NEW p \in (t + 9)..(h - 1), SampleAt(r, p)
               PROVE  k < WordAt(r, p)[1]
    OBVIOUS
  <2>1. p \in t..(h - 1) /\ p # t
    OBVIOUS
  <2> QED BY <2>1, <1>2
<1>4. Records(r, h, t + 9, n, k)
  <2>0. t + 16 <= h
    BY <1>1, Zenon
  <2>1. t + 9 \in t..h
    BY <2>0
  <2>2. k \in Nat
    BY <1>0
  <2> QED BY <2>1, <2>2, <1>3, RecordsForward
<1>5. ASSUME NEW w \in Waiting(r, h, t + 9, n)
      PROVE  w \in Waiting(r, h, t, n) \ {k}
  <2>1. PICK p \in (t + 9)..(h - 1) : SampleAt(r, p) /\ WordAt(r, p)[1] = w
    BY DEF Waiting
  <2>2. p \in t..(h - 1) /\ k < w
    BY <2>1, <1>3
  <2>3. w \in 1..n
    BY DEF Waiting
  <2>4. w # k
    BY <2>2, <2>3, <1>0
  <2> QED BY <2>1, <2>2, <2>3, <2>4 DEF Waiting
<1>6. ASSUME NEW w \in Waiting(r, h, t, n), w # k
      PROVE  w \in Waiting(r, h, t + 9, n)
  <2>1. PICK p \in t..(h - 1) : SampleAt(r, p) /\ WordAt(r, p)[1] = w
    BY DEF Waiting
  <2>2. p # t
    BY <2>1, <1>6 DEF k
  <2>3. p \in (t + 9)..(h - 1)
    BY <2>1, <2>2, <1>2
  <2>4. w \in 1..n
    BY DEF Waiting
  <2> QED BY <2>1, <2>3, <2>4 DEF Waiting
<1>7. Waiting(r, h, t + 9, n) = Waiting(r, h, t, n) \ {k}
  BY <1>5, <1>6
<1> QED BY <1>4, <1>7 DEF k

(* A record of lost samples is followed by its sample and holds none.      *)
LEMMA LostSkipped ==
    ASSUME NEW r, NEW h \in Nat, NEW t \in 0..h, NEW n \in Nat,
           NEW seen \in Nat, Records(r, h, t, n, seen), t < h, LostAt(r, t)
    PROVE  /\ t + 6 < h /\ WordAt(r, t + 1)[2] = "lost_size" /\ SampleAt(r, t + 6)
           /\ Records(r, h, t + 6, n, seen)
           /\ Waiting(r, h, t + 6, n) = Waiting(r, h, t, n)
<1>1. t \in t..(h - 1)
  OBVIOUS
<1>2. Covers(r, h, t, LostFields) /\ t + 6 < h /\ SampleAt(r, t + 6)
  BY <1>1, FieldNames DEF Records
<1>3. \A j \in 1..6 : WordAt(r, t + j - 1) = <<WordAt(r, t)[1], LostFields[j]>>
  BY <1>2, FieldNames DEF Covers
<1>4. WordAt(r, t + 1)[2] = "lost_size"
  <2>1. LostFields[2] = "lost_size" /\ 2 \in 1..6 /\ t + 2 - 1 = t + 1
    BY DEF LostFields
  <2>2. WordAt(r, t + 2 - 1) = <<WordAt(r, t)[1], LostFields[2]>>
    BY <2>1, <1>3
  <2> QED BY <2>1, <2>2
<1>5. ASSUME NEW p \in t..(h - 1), SampleAt(r, p)
      PROVE  p \in (t + 6)..(h - 1)
  <2>1. CASE p < t + 6
    <3>1. p - t + 1 \in 1..6 /\ t + (p - t + 1) - 1 = p
      BY <2>1
    <3>2. WordAt(r, p)[2] = LostFields[p - t + 1]
      BY <3>1, <1>3
    <3> QED BY <3>1, <3>2, <1>5, FieldNames DEF SampleAt
  <2> QED BY <2>1
<1>6. Records(r, h, t + 6, n, seen)
  <2>1. t + 6 \in t..h
    BY <1>2
  <2>2. \A p \in (t + 6)..(h - 1) : SampleAt(r, p) => seen < WordAt(r, p)[1]
    <3> SUFFICES ASSUME NEW p \in (t + 6)..(h - 1), SampleAt(r, p)
                 PROVE  seen < WordAt(r, p)[1]
      OBVIOUS
    <3>1. p \in t..(h - 1)
      OBVIOUS
    <3> QED BY <3>1 DEF Records
  <2> QED BY <2>1, <2>2, RecordsForward
<1>7. Waiting(r, h, t + 6, n) = Waiting(r, h, t, n)
  <2>1. \A p \in (t + 6)..(h - 1) : p \in t..(h - 1)
    OBVIOUS
  <2> QED BY <2>1, <1>5 DEF Waiting
<1> QED BY <1>2, <1>4, <1>6, <1>7

-----------------------------------------------------------------------------
(* The steps that keep the invariant, part by part.                        *)

(* The guard: only what is active sets the flag, and nothing else runs.    *)
LEMMA GuardKept ==
    ASSUME TypeOK, GuardInv, Next
    PROVE  GuardInv'
<1> USE DEF SetInside, SetTd, Td, Fresh, kernelVars, handlerVars, bufferVars
<1>0. /\ td \in [inside : BOOLEAN, perf : BOOLEAN] /\ keyLive \in BOOLEAN
      /\ trap \in {"none", "client", "inside"} /\ armed \in BOOLEAN /\ wpData \in BOOLEAN
      /\ attached \in BOOLEAN
  BY DEF TypeOK
<1>1. CASE StartEnter
  BY <1>0, <1>1 DEF GuardInv, StartEnter, Step, Running
<1>2. CASE ThreadStart
  BY <1>0, <1>2 DEF GuardInv, ThreadStart, Step, Running
<1>3. CASE SetupEvents
  BY <1>0, <1>3 DEF GuardInv, SetupEvents, Step, Running
<1>4. CASE StartEvents
  BY <1>0, <1>4 DEF GuardInv, StartEvents, Step, Running
<1>5. CASE StartExit
  BY <1>0, <1>5 DEF GuardInv, StartExit, Step, Running
<1>6. CASE CallbackEnter
  BY <1>0, <1>6 DEF GuardInv, CallbackEnter, Step, Running
<1>7. CASE CallbackExit
  BY <1>0, <1>7 DEF GuardInv, CallbackExit, Step, Running
<1>8. CASE EndEnter
  BY <1>0, <1>8 DEF GuardInv, EndEnter, Step, Running
<1>9. CASE EndClose
  BY <1>0, <1>9 DEF GuardInv, EndClose, Step, Running
<1>10. CASE EndTerminate
  BY <1>0, <1>10 DEF GuardInv, EndTerminate, Step, Running
<1>11. CASE EndDump
  BY <1>0, <1>11 DEF GuardInv, EndDump, Step, Running
<1>12. CASE EndExit
  BY <1>0, <1>12 DEF GuardInv, EndExit, Step, Running
<1>13. CASE Shutdown
  BY <1>0, <1>13 DEF GuardInv, Shutdown
<1>14. CASE Overflow
  BY <1>0, <1>14 DEF GuardInv, Overflow
<1>15. CASE SignalDropped
  BY <1>0, <1>15 DEF GuardInv, SignalDropped, Running
<1>16. CASE SignalNoEvents
  BY <1>0, <1>16 DEF GuardInv, SignalNoEvents, Running
<1>17. CASE SignalEnter
  BY <1>0, <1>17 DEF GuardInv, SignalEnter, Running
<1>18. CASE ForeignSignal
  BY <1>0, <1>18 DEF GuardInv, ForeignSignal, Running
<1>19. CASE StopAll
  BY <1>0, <1>19 DEF GuardInv, StopAll, Handler
<1>20. CASE ParseSample
  BY <1>0, <1>20 DEF GuardInv, ParseSample, Handler
<1>21. CASE OnSampleReturn
  BY <1>0, <1>21 DEF GuardInv, OnSampleReturn, Handler
<1>22. CASE ParseSkip
  BY <1>0, <1>22 DEF GuardInv, ParseSkip, Handler
<1>23. CASE ParseDone
  BY <1>0, <1>23 DEF GuardInv, ParseDone, Handler
<1>24. CASE Restart
  BY <1>0, <1>24 DEF GuardInv, Restart, Handler
<1>25. CASE StartAll
  BY <1>0, <1>25 DEF GuardInv, StartAll, Handler
<1>26. CASE SafeExit
  BY <1>0, <1>26 DEF GuardInv, SafeExit, Handler
<1>27. CASE TrapExit
  BY <1>0, <1>27 DEF GuardInv, TrapExit
<1>28. CASE TrapEnter
  BY <1>0, <1>28 DEF GuardInv, TrapEnter
<1>29. CASE TrapUnknown
  BY <1>0, <1>29 DEF GuardInv, TrapUnknown
<1>30. CASE Done
  BY <1>30 DEF GuardInv, Done, vars
<1> QED
  BY <1>1, <1>2, <1>3, <1>4, <1>5, <1>6, <1>7, <1>8, <1>9, <1>10, <1>11, <1>12,
     <1>13, <1>14, <1>15, <1>16, <1>17, <1>18, <1>19, <1>20, <1>21, <1>22,
     <1>23, <1>24, <1>25, <1>26, <1>27, <1>28, <1>29, <1>30 DEF Next,
     HandlerStep

(* A watchpoint is armed only for a thread with events.                    *)
LEMMA WatchKept ==
    ASSUME TypeOK, GuardInv, WatchInv, Next
    PROVE  WatchInv'
<1> USE DEF SetInside, SetTd, Td, Fresh, kernelVars, handlerVars, bufferVars
<1>0. /\ td \in [inside : BOOLEAN, perf : BOOLEAN] /\ keyLive \in BOOLEAN
      /\ trap \in {"none", "client", "inside"} /\ armed \in BOOLEAN /\ wpData \in BOOLEAN
      /\ attached \in BOOLEAN
  BY DEF TypeOK
<1>1. CASE StartEnter
  BY <1>0, <1>1 DEF GuardInv, WatchInv, StartEnter, Step, Running
<1>2. CASE ThreadStart
  BY <1>0, <1>2 DEF GuardInv, WatchInv, ThreadStart, Step, Running
<1>3. CASE SetupEvents
  BY <1>0, <1>3 DEF GuardInv, WatchInv, SetupEvents, Step, Running
<1>4. CASE StartEvents
  BY <1>0, <1>4 DEF GuardInv, WatchInv, StartEvents, Step, Running
<1>5. CASE StartExit
  BY <1>0, <1>5 DEF GuardInv, WatchInv, StartExit, Step, Running
<1>6. CASE CallbackEnter
  BY <1>0, <1>6 DEF GuardInv, WatchInv, CallbackEnter, Step, Running
<1>7. CASE CallbackExit
  BY <1>0, <1>7 DEF GuardInv, WatchInv, CallbackExit, Step, Running
<1>8. CASE EndEnter
  BY <1>0, <1>8 DEF GuardInv, WatchInv, EndEnter, Step, Running
<1>9. CASE EndClose
  BY <1>0, <1>9 DEF GuardInv, WatchInv, EndClose, Step, Running
<1>10. CASE EndTerminate
  BY <1>0, <1>10 DEF GuardInv, WatchInv, EndTerminate, Step, Running
<1>11. CASE EndDump
  BY <1>0, <1>11 DEF GuardInv, WatchInv, EndDump, Step, Running
<1>12. CASE EndExit
  BY <1>0, <1>12 DEF GuardInv, WatchInv, EndExit, Step, Running
<1>13. CASE Shutdown
  BY <1>0, <1>13 DEF GuardInv, WatchInv, Shutdown
<1>14. CASE Overflow
  BY <1>0, <1>14 DEF GuardInv, WatchInv, Overflow
<1>15. CASE SignalDropped
  BY <1>0, <1>15 DEF GuardInv, WatchInv, SignalDropped, Running
<1>16. CASE SignalNoEvents
  BY <1>0, <1>16 DEF GuardInv, WatchInv, SignalNoEvents, Running
<1>17. CASE SignalEnter
  BY <1>0, <1>17 DEF GuardInv, WatchInv, SignalEnter, Running
<1>18. CASE ForeignSignal
  BY <1>0, <1>18 DEF GuardInv, WatchInv, ForeignSignal, Running
<1>19. CASE StopAll
  BY <1>0, <1>19 DEF GuardInv, WatchInv, StopAll, Handler
<1>20. CASE ParseSample
  BY <1>0, <1>20 DEF GuardInv, WatchInv, ParseSample, Handler
<1>21. CASE OnSampleReturn
  BY <1>0, <1>21 DEF GuardInv, WatchInv, OnSampleReturn, Handler
<1>22. CASE ParseSkip
  BY <1>0, <1>22 DEF GuardInv, WatchInv, ParseSkip, Handler
<1>23. CASE ParseDone
  BY <1>0, <1>23 DEF GuardInv, WatchInv, ParseDone, Handler
<1>24. CASE Restart
  BY <1>0, <1>24 DEF GuardInv, WatchInv, Restart, Handler
<1>25. CASE StartAll
  BY <1>0, <1>25 DEF GuardInv, WatchInv, StartAll, Handler
<1>26. CASE SafeExit
  BY <1>0, <1>26 DEF GuardInv, WatchInv, SafeExit, Handler
<1>27. CASE TrapExit
  BY <1>0, <1>27 DEF GuardInv, WatchInv, TrapExit
<1>28. CASE TrapEnter
  BY <1>0, <1>28 DEF GuardInv, WatchInv, TrapEnter
<1>29. CASE TrapUnknown
  BY <1>0, <1>29 DEF GuardInv, WatchInv, TrapUnknown
<1>30. CASE Done
  BY <1>30 DEF GuardInv, WatchInv, Done, vars
<1> QED
  BY <1>1, <1>2, <1>3, <1>4, <1>5, <1>6, <1>7, <1>8, <1>9, <1>10, <1>11, <1>12,
     <1>13, <1>14, <1>15, <1>16, <1>17, <1>18, <1>19, <1>20, <1>21, <1>22,
     <1>23, <1>24, <1>25, <1>26, <1>27, <1>28, <1>29, <1>30 DEF Next,
     HandlerStep

(* Signals, limits and overflows.                                          *)
LEMMA SignalKept ==
    ASSUME TypeOK, SignalInv, Next
    PROVE  SignalInv'
<1> USE DEF kernelVars, handlerVars, bufferVars
<1>0. /\ limit \in Nat /\ queue \in Nat /\ count \in Nat
  BY SamplingAssumption DEF TypeOK
<1>1. CASE StartEnter
  BY <1>0, <1>1 DEF SignalInv, Unanswered, StartEnter, Step, Running
<1>2. CASE ThreadStart
  BY <1>0, <1>2 DEF SignalInv, Unanswered, ThreadStart, Step, Running
<1>3. CASE SetupEvents
  BY <1>0, <1>3 DEF SignalInv, Unanswered, SetupEvents, Step, Running
<1>4. CASE StartEvents
  BY <1>0, <1>4 DEF SignalInv, Unanswered, StartEvents, Step, Running
<1>5. CASE StartExit
  BY <1>0, <1>5 DEF SignalInv, Unanswered, StartExit, Step, Running
<1>6. CASE CallbackEnter
  BY <1>0, <1>6 DEF SignalInv, Unanswered, CallbackEnter, Step, Running
<1>7. CASE CallbackExit
  BY <1>0, <1>7 DEF SignalInv, Unanswered, CallbackExit, Step, Running
<1>8. CASE EndEnter
  BY <1>0, <1>8 DEF SignalInv, Unanswered, EndEnter, Step, Running
<1>9. CASE EndClose
  BY <1>0, <1>9 DEF SignalInv, Unanswered, EndClose, Step, Running
<1>10. CASE EndTerminate
  BY <1>0, <1>10 DEF SignalInv, Unanswered, EndTerminate, Step, Running
<1>11. CASE EndDump
  BY <1>0, <1>11 DEF SignalInv, Unanswered, EndDump, Step, Running
<1>12. CASE EndExit
  BY <1>0, <1>12 DEF SignalInv, Unanswered, EndExit, Step, Running
<1>13. CASE Shutdown
  BY <1>0, <1>13 DEF SignalInv, Unanswered, Shutdown
<1>14. CASE Overflow
  <2>1. CASE limit > 0
    BY <1>0, <1>14, <2>1 DEF SignalInv, Unanswered, Overflow
  <2>2. CASE ~(limit > 0)
    BY <1>0, <1>14, <2>2 DEF SignalInv, Unanswered, Overflow
  <2> QED BY <2>1, <2>2
<1>15. CASE SignalDropped
  BY <1>0, <1>15 DEF SignalInv, Unanswered, SignalDropped, Running
<1>16. CASE SignalNoEvents
  BY <1>0, <1>16 DEF SignalInv, Unanswered, SignalNoEvents, Running
<1>17. CASE SignalEnter
  BY <1>0, <1>17 DEF SignalInv, Unanswered, SignalEnter, Running
<1>18. CASE ForeignSignal
  BY <1>0, <1>18 DEF SignalInv, Unanswered, ForeignSignal, Running
<1>19. CASE StopAll
  BY <1>0, <1>19 DEF SignalInv, Unanswered, StopAll, Handler
<1>20. CASE ParseSample
  BY <1>0, <1>20 DEF SignalInv, Unanswered, ParseSample, Handler
<1>21. CASE OnSampleReturn
  BY <1>0, <1>21 DEF SignalInv, Unanswered, OnSampleReturn, Handler
<1>22. CASE ParseSkip
  BY <1>0, <1>22 DEF SignalInv, Unanswered, ParseSkip, Handler
<1>23. CASE ParseDone
  BY <1>0, <1>23 DEF SignalInv, Unanswered, ParseDone, Handler
<1>24. CASE Restart
  BY <1>0, <1>24 DEF SignalInv, Unanswered, Restart, Handler
<1>25. CASE StartAll
  BY <1>0, <1>25 DEF SignalInv, Unanswered, StartAll, Handler
<1>26. CASE SafeExit
  BY <1>0, <1>26 DEF SignalInv, Unanswered, SafeExit, Handler
<1>27. CASE TrapExit
  BY <1>0, <1>27 DEF SignalInv, Unanswered, TrapExit
<1>28. CASE TrapEnter
  BY <1>0, <1>28 DEF SignalInv, Unanswered, TrapEnter
<1>29. CASE TrapUnknown
  BY <1>0, <1>29 DEF SignalInv, Unanswered, TrapUnknown
<1>30. CASE Done
  BY <1>30 DEF SignalInv, Unanswered, Done, vars
<1> QED
  BY <1>1, <1>2, <1>3, <1>4, <1>5, <1>6, <1>7, <1>8, <1>9, <1>10, <1>11, <1>12,
     <1>13, <1>14, <1>15, <1>16, <1>17, <1>18, <1>19, <1>20, <1>21, <1>22,
     <1>23, <1>24, <1>25, <1>26, <1>27, <1>28, <1>29, <1>30 DEF Next,
     HandlerStep

-----------------------------------------------------------------------------
(* What the reader makes of the buffer.                                    *)

(* The types that the lemmas on the buffer need.                           *)
LEMMA BufferTypes ==
    ASSUME TypeOK
    PROVE  /\ ring \in [0..(Size - 1) -> Word] /\ head \in Nat /\ tail \in 0..head
           /\ tail \in Nat /\ count \in Nat /\ Taken \in Nat
<1>1. last.ip[1] \in Word
  BY DEF TypeOK
<1>2. Taken \in Nat
  BY <1>1, SamplingAssumption DEF Taken, Word
<1> QED BY <1>2, SamplingAssumption DEF TypeOK

(* What the lemmas on records say of the reader's place: a sample there    *)
(* is whole and the oldest, and after it the later ones wait.              *)
LEMMA SampleAtTail ==
    ASSUME TypeOK, BufferInv, tail < head, SampleAt(ring, tail)
    PROVE  /\ tail + 16 <= head
           /\ AfterSample(ring, head, tail + 9)
           /\ Records(ring, head, tail + 9, count, WordAt(ring, tail)[1])
           /\ Waiting(ring, head, tail + 9, count)
                = Waiting(ring, head, tail, count) \ {WordAt(ring, tail)[1]}
           /\ WordAt(ring, tail)[1] \in 1..count /\ Taken < WordAt(ring, tail)[1]
           /\ WordAt(ring, tail)[1] \in Waiting(ring, head, tail, count)
           /\ \A w \in Waiting(ring, head, tail, count) : WordAt(ring, tail)[1] <= w
<1>1. /\ ring \in [0..(Size - 1) -> Word] /\ head \in Nat /\ tail \in 0..head
      /\ count \in Nat /\ Taken \in Nat
  BY BufferTypes
<1>2. Records(ring, head, tail, count, Taken)
  BY DEF BufferInv
<1>3. tail + 16 <= head /\ AfterSample(ring, head, tail + 9)
  BY <1>1, <1>2, SampleWordsAt
<1>4. /\ Records(ring, head, tail + 9, count, WordAt(ring, tail)[1])
      /\ Waiting(ring, head, tail + 9, count)
           = Waiting(ring, head, tail, count) \ {WordAt(ring, tail)[1]}
  BY <1>1, <1>2, SampleTaken
<1>5. /\ WordAt(ring, tail)[1] \in 1..count /\ Taken < WordAt(ring, tail)[1]
      /\ WordAt(ring, tail)[1] \in Waiting(ring, head, tail, count)
      /\ \A w \in Waiting(ring, head, tail, count) : WordAt(ring, tail)[1] <= w
  BY <1>1, <1>2, SampleIsOldest
<1> QED BY <1>3, <1>4, <1>5

(* A record of lost samples there is followed by its sample.               *)
LEMMA LostAtTail ==
    ASSUME TypeOK, BufferInv, tail < head, LostAt(ring, tail)
    PROVE  /\ tail + 6 < head /\ tail + 6 \in 0..head
           /\ WordAt(ring, tail + 1)[2] = "lost_size" /\ SampleAt(ring, tail + 6)
           /\ Records(ring, head, tail + 6, count, Taken)
           /\ Waiting(ring, head, tail + 6, count) = Waiting(ring, head, tail, count)
<1>1. /\ head \in Nat /\ tail \in 0..head /\ count \in Nat /\ Taken \in Nat
  BY BufferTypes
<1>2. Records(ring, head, tail, count, Taken)
  BY DEF BufferInv
<1>3. /\ tail + 6 < head /\ WordAt(ring, tail + 1)[2] = "lost_size" /\ SampleAt(ring, tail + 6)
      /\ Records(ring, head, tail + 6, count, Taken)
      /\ Waiting(ring, head, tail + 6, count) = Waiting(ring, head, tail, count)
  BY <1>1, <1>2, LostSkipped
<1>4. tail + 6 \in 0..head
  BY <1>1, <1>3
<1> QED BY <1>3, <1>4

(* A sample is met with all its words, and OnSample gets its fields.       *)
LEMMA ParsedSample ==
    ASSUME TypeOK, BufferInv, ParseSample
    PROVE  /\ tail < head /\ SampleAt(ring, tail) /\ tail' = tail + 9
           /\ last' = SampleOf(WordAt(ring, tail)[1]) /\ fault' = fault
<1> USE BufferTypes
<1>1. Records(ring, head, tail, count, Taken)
  BY DEF BufferInv
<1>2. head - tail >= 2 /\ head - tail < Size
  BY <1>1 DEF ParseSample, Remaining, HeaderWords, Records
<1>3. Size \in Nat /\ Size >= 3
  BY <1>2, PerfBufferAssumption
<1>4. SampleAt(ring, tail)
  <2>1. Copy(tail, 2)[1] = WordAt(ring, tail + 1 - 1)
    <3>1. 2 \in 1..Size /\ 1 \in 1..2
      BY <1>3
    <3> QED BY <3>1, CopiedWords, Zenon
  <2>2. tail + 1 - 1 = tail
    OBVIOUS
  <2>3. Copy(tail, 2)[1][2] = "type"
    BY DEF ParseSample, IsSample, HeaderWords
  <2> QED BY <2>1, <2>2, <2>3 DEF SampleAt
<1> DEFINE k == WordAt(ring, tail)[1]
<1>5. /\ tail + 16 <= head
      /\ \A j \in 1..16 : WordAt(ring, tail + j - 1) = <<k, SampleFields[j]>>
  BY <1>1, <1>2, <1>4, SampleWordsAt
<1>6. tail + 16 <= head
  BY <1>5, Zenon
<1> HIDE DEF k
<1>7. Size >= 16
  BY <1>2, <1>3, <1>6
<1>8. ~(Remaining < HeaderWords + SampleWords)
  BY <1>6 DEF Remaining, HeaderWords, SampleWords
<1>9. fault' = fault /\ last' = Decoded(tail + 2) /\ tail' = tail + 2 + 7
  BY <1>8 DEF ParseSample, HeaderWords, SampleWords
<1>10. Decoded(tail + 2) = SampleOf(k)
  <2>1. ASSUME NEW t \in Nat, NEW n \in 1..2, NEW i \in 1..n
        PROVE  Copy(t, n)[i] = WordAt(ring, t + i - 1)
    <3>1. n \in 1..Size
      BY <1>3
    <3> QED BY <3>1, CopiedWords, Zenon
  <2>2. tail + 2 \in Nat /\ (tail + 2) + 2 \in Nat /\ (tail + 2) + 3 \in Nat
    OBVIOUS
  <2>3. /\ Copy(tail + 2, 2)[1] = WordAt(ring, (tail + 2) + 1 - 1)
        /\ Copy(tail + 2, 2)[2] = WordAt(ring, (tail + 2) + 2 - 1)
        /\ Copy((tail + 2) + 2, 1)[1] = WordAt(ring, ((tail + 2) + 2) + 1 - 1)
        /\ Copy((tail + 2) + 3, 1)[1] = WordAt(ring, ((tail + 2) + 3) + 1 - 1)
    <3>1. 1 \in 1..2 /\ 2 \in 1..2 /\ 1 \in 1..1
      OBVIOUS
    <3> QED BY <2>1, <2>2, <3>1, Zenon
  <2>4. /\ WordAt(ring, tail + 3 - 1) = <<k, SampleFields[3]>>
        /\ WordAt(ring, tail + 4 - 1) = <<k, SampleFields[4]>>
        /\ WordAt(ring, tail + 5 - 1) = <<k, SampleFields[5]>>
        /\ WordAt(ring, tail + 6 - 1) = <<k, SampleFields[6]>>
    <3>1. 3 \in 1..16 /\ 4 \in 1..16 /\ 5 \in 1..16 /\ 6 \in 1..16
      OBVIOUS
    <3> QED BY <1>5, <3>1, Zenon
  <2>5. /\ (tail + 2) + 1 - 1 = tail + 3 - 1 /\ (tail + 2) + 2 - 1 = tail + 4 - 1
        /\ ((tail + 2) + 2) + 1 - 1 = tail + 5 - 1 /\ ((tail + 2) + 3) + 1 - 1 = tail + 6 - 1
    OBVIOUS
  <2>6. /\ SampleFields[3] = "ip" /\ SampleFields[4] = "ip_hi"
        /\ SampleFields[5] = "pid" /\ SampleFields[6] = "tid"
    BY DEF SampleFields
  <2>7. /\ Copy(tail + 2, 2)[1] = <<k, "ip">> /\ Copy(tail + 2, 2)[2] = <<k, "ip_hi">>
        /\ Copy((tail + 2) + 2, 1)[1] = <<k, "pid">>
        /\ Copy((tail + 2) + 3, 1)[1] = <<k, "tid">>
    BY <2>3, <2>4, <2>5, <2>6
  <2>8. Copy(tail + 2, 2) = <<<<k, "ip">>, <<k, "ip_hi">>>>
    <3>1. Copy(tail + 2, 2) = [i \in 1..2 |-> Copy(tail + 2, 2)[i]]
      BY DEF Copy
    <3> HIDE DEF Copy
    <3>2. [i \in 1..2 |-> Copy(tail + 2, 2)[i]] = <<Copy(tail + 2, 2)[1], Copy(tail + 2, 2)[2]>>
      OBVIOUS
    <3> QED BY <3>1, <3>2, <2>7
  <2> QED BY <2>7, <2>8 DEF Decoded, SampleOf
<1> QED BY <1>2, <1>4, <1>9, <1>10 DEF k

(* Anything else is a record of lost samples, which is skipped, or the     *)
(* rest of a sample, where all is.                                         *)
LEMMA ParsedSkip ==
    ASSUME TypeOK, BufferInv, ParseSkip
    PROVE  /\ tail < head
           /\ \/ LostAt(ring, tail) /\ tail' = tail + 6
              \/ AfterSample(ring, head, tail) /\ tail' = head
<1> USE BufferTypes
<1>1. Records(ring, head, tail, count, Taken)
  BY DEF BufferInv
<1>2. tail < head /\ head - tail < Size
  BY <1>1 DEF ParseSkip, Remaining, Records
<1>3. AtRecord(ring, head, tail) \/ AfterSample(ring, head, tail)
  BY DEF BufferInv, ParseSkip, Handler
<1>4. SkipAll = head
  BY DEF SkipAll, Skipped, Remaining
<1>5. ASSUME head - tail >= 2
      PROVE  /\ Copy(tail, 2)[1] = WordAt(ring, tail)
             /\ Copy(tail, 2)[2] = WordAt(ring, tail + 1)
  <2>1. 2 \in 1..Size /\ 1 \in 1..2 /\ 2 \in 1..2
    BY <1>2, <1>5, PerfBufferAssumption
  <2>2. /\ Copy(tail, 2)[1] = WordAt(ring, tail + 1 - 1)
        /\ Copy(tail, 2)[2] = WordAt(ring, tail + 2 - 1)
    BY <2>1, CopiedWords, Zenon
  <2>3. tail + 1 - 1 = tail /\ tail + 2 - 1 = tail + 1
    OBVIOUS
  <2> QED BY <2>2, <2>3
<1>6. ASSUME head - tail >= 2
      PROVE  /\ WordAt(ring, tail)[2] # "type"
             /\ tail' = IF RecordWords(Copy(tail, 2)) = 0 THEN SkipAll
                        ELSE SkipRecord(Copy(tail, 2))
  <2>1. ~(Remaining < HeaderWords)
    BY <1>6 DEF Remaining, HeaderWords
  <2>2. /\ ~IsSample(Copy(tail, 2))
        /\ tail' = IF RecordWords(Copy(tail, 2)) = 0 THEN SkipAll
                   ELSE SkipRecord(Copy(tail, 2))
    BY <2>1 DEF ParseSkip, HeaderWords
  <2> QED BY <2>2, <1>5, <1>6 DEF IsSample
<1>7. CASE SampleAt(ring, tail)
  <2>1. tail + 16 <= head
    BY <1>1, <1>2, <1>7, SampleWordsAt
  <2> QED BY <2>1, <1>6, <1>7 DEF SampleAt
<1>8. CASE LostAt(ring, tail)
  <2>1. tail + 6 < head /\ WordAt(ring, tail + 1)[2] = "lost_size"
    BY <1>1, <1>2, <1>8, LostSkipped
  <2>2. head - tail >= 2
    BY <2>1
  <2>3. RecordWords(Copy(tail, 2)) = 6
    BY <2>1, <2>2, <1>5, FieldNames DEF RecordWords
  <2>4. SkipRecord(Copy(tail, 2)) = tail + 6
    BY <2>1, <2>3 DEF SkipRecord, Skipped, HeaderWords
  <2> QED BY <2>2, <2>3, <2>4, <1>2, <1>6, <1>8
<1>9. CASE AfterSample(ring, head, tail)
  <2>1. head - tail >= 2 /\ WordAt(ring, tail + 1)[2] = "cpu"
    BY <1>9 DEF AfterSample
  <2>2. RecordWords(Copy(tail, 2)) = 0
    BY <2>1, <1>5 DEF RecordWords
  <2> QED BY <2>1, <2>2, <1>2, <1>4, <1>6, <1>9
<1> QED BY <1>2, <1>3, <1>7, <1>8, <1>9 DEF AtRecord

(* WaitingSamples in this state and in the next.                           *)
LEMMA WaitingNow ==
    ASSUME TypeOK
    PROVE  WaitingSamples = Waiting(ring, head, tail, count)
BY BufferTypes, WaitingIs DEF WaitingSamples

(* An overflow appends a sample or loses it; the reader's place stays.     *)
LEMMA OverflowBuffer ==
    ASSUME TypeOK, BufferInv, Overflow
    PROVE  /\ Records(ring', head', tail', count', Taken)
           /\ AtRecord(ring, head, tail) => AtRecord(ring', head', tail')
           /\ AfterSample(ring, head, tail) => AfterSample(ring', head', tail')
           /\ \/ Waiting(ring', head', tail', count')
                   = Waiting(ring, head, tail, count) \cup {count + 1}
              \/ Waiting(ring', head', tail', count') = Waiting(ring, head, tail, count)
           /\ head' \in Nat /\ tail' \in 0..head' /\ lost' \in BOOLEAN
<1>0. /\ ring \in [0..(Size - 1) -> Word] /\ head \in Nat /\ tail \in 0..head
      /\ tail \in Nat /\ count \in Nat /\ Taken \in Nat /\ lost \in BOOLEAN
  BY BufferTypes DEF TypeOK
<1>1. /\ Records(ring, head, tail, count, Taken) /\ head - tail < Size /\ Taken <= count
  BY DEF BufferInv, Records
<1>2. count' = count + 1 /\ count + 1 \in Nat /\ WriteRecord(count + 1)
  BY <1>0 DEF Overflow
<1>3. \A p \in tail..(head - 1) : WordAt(ring, p)[1] \in Nat
  <2> SUFFICES ASSUME NEW p \in tail..(head - 1) PROVE WordAt(ring, p)[1] \in Nat
    OBVIOUS
  <2>1. p \in Nat
    BY <1>0
  <2> QED BY <2>1, <1>0, WordNumber, SamplingAssumption
<1>4. CASE UNCHANGED <<ring, head, tail>> /\ lost' = TRUE
  <2>1. Records(ring, head, tail, count + 1, Taken)
    <3>1. \A p \in tail..(head - 1) :
             SampleAt(ring, p) => /\ Covers(ring, head, p, SampleFields)
                                  /\ Taken < WordAt(ring, p)[1]
                                  /\ WordAt(ring, p)[1] <= count + 1
      BY <1>0, <1>1, <1>3 DEF Records
    <3> QED BY <1>1, <3>1 DEF Records
  <2>2. Waiting(ring, head, tail, count + 1) = Waiting(ring, head, tail, count)
    BY <1>0, <1>1, <1>3, WaitingLost
  <2> QED BY <1>0, <1>2, <1>4, <2>1, <2>2
<1>5. CASE /\ \E s : Appended(ring, ring', head, tail, s, count + 1) /\ head' = s + 16
           /\ tail' = tail /\ lost' = FALSE
  <2>1. PICK s : Appended(ring, ring', head, tail, s, count + 1) /\ head' = s + 16
    BY <1>5
  <2>2. s \in Nat /\ s >= head /\ (s = head \/ s = head + 6)
    <3>1. s \in {head, head + 6}
      BY <2>1, Zenon DEF Appended
    <3> QED BY <3>1, <1>0
  <2>3. Records(ring', s + 16, tail, count + 1, Taken)
    BY <1>0, <1>1, <1>3, <2>1, AppendedRecords
  <2>4. Waiting(ring', s + 16, tail, count + 1)
          = Waiting(ring, head, tail, count) \cup {count + 1}
    BY <1>0, <1>1, <1>3, <2>1, WaitingAppended
  <2>5. \A p \in tail..(head - 1) : WordAt(ring', p) = WordAt(ring, p)
    BY <2>1 DEF Appended
  <2>6. ASSUME AtRecord(ring, head, tail)
        PROVE  AtRecord(ring', s + 16, tail)
    <3>1. CASE tail < head
      <4>1. WordAt(ring', tail) = WordAt(ring, tail)
        BY <1>0, <2>5, <3>1
      <4> QED BY <1>0, <2>6, <3>1, <4>1 DEF AtRecord, SampleAt, LostAt
    <3>2. CASE tail = head
      <4>1. tail \in tail..(s + 15)
        BY <1>0, <2>2
      <4>2. /\ SampleAt(ring', tail) <=> (tail < head /\ SampleAt(ring, tail)) \/ tail = s
            /\ LostAt(ring', tail) <=>
                  (tail < head /\ LostAt(ring, tail)) \/ (tail = head /\ s # head)
        BY <1>0, <1>2, <2>1, <4>1, AppendedStarts
      <4> QED BY <3>2, <4>2 DEF AtRecord
    <3> QED BY <1>0, <3>1, <3>2
  <2>7. ASSUME AfterSample(ring, head, tail)
        PROVE  AfterSample(ring', s + 16, tail)
    <3>1. tail + 7 <= head
      BY <2>7 DEF AfterSample
    <3>2. tail \in tail..(head - 1) /\ tail + 1 \in tail..(head - 1) /\ tail + 7 <= s + 16
      BY <1>0, <2>2, <3>1
    <3>3. /\ WordAt(ring', tail) = WordAt(ring, tail)
          /\ WordAt(ring', tail + 1) = WordAt(ring, tail + 1)
      BY <2>5, <3>2
    <3> QED BY <2>7, <3>2, <3>3 DEF AfterSample
  <2>8. s + 16 \in Nat /\ tail \in 0..(s + 16)
    BY <1>0, <2>2
  <2> QED BY <1>2, <1>5, <2>1, <2>3, <2>4, <2>6, <2>7, <2>8
<1>6. \/ UNCHANGED <<ring, head, tail>> /\ lost' = TRUE
      \/ /\ \E s : Appended(ring, ring', head, tail, s, count + 1) /\ head' = s + 16
         /\ tail' = tail /\ lost' = FALSE
  BY <1>0, <1>1, <1>2, WriteEffect
<1> QED BY <1>4, <1>5, <1>6

(* The reader never loses its place.                                       *)
LEMMA BufferKept ==
    ASSUME TypeOK, BufferInv, Next
    PROVE  BufferInv'
<1> USE DEF kernelVars, handlerVars, bufferVars
<1>0. /\ ring \in [0..(Size - 1) -> Word] /\ head \in Nat /\ tail \in 0..head
      /\ tail \in Nat /\ count \in Nat /\ Taken \in Nat
  BY BufferTypes
<1>1. CASE StartEnter
  BY <1>0, <1>1 DEF BufferInv, Taken, StartEnter, Step, Running
<1>2. CASE ThreadStart
  BY <1>0, <1>2 DEF BufferInv, Taken, ThreadStart, Step, Running
<1>3. CASE SetupEvents
  BY <1>0, <1>3 DEF BufferInv, Taken, SetupEvents, Step, Running
<1>4. CASE StartEvents
  BY <1>0, <1>4 DEF BufferInv, Taken, StartEvents, Step, Running
<1>5. CASE StartExit
  BY <1>0, <1>5 DEF BufferInv, Taken, StartExit, Step, Running
<1>6. CASE CallbackEnter
  BY <1>0, <1>6 DEF BufferInv, Taken, CallbackEnter, Step, Running
<1>7. CASE CallbackExit
  BY <1>0, <1>7 DEF BufferInv, Taken, CallbackExit, Step, Running
<1>8. CASE EndEnter
  BY <1>0, <1>8 DEF BufferInv, Taken, EndEnter, Step, Running
<1>9. CASE EndClose
  <2>1. CASE Td.perf
    <3>1. head' = 0 /\ tail' = 0 /\ UNCHANGED <<count, last, hnd>> /\ hnd = "none"
      BY <1>9, <2>1 DEF EndClose, BufferReset, Step, Running
    <3>2. Records(ring', 0, 0, count, Taken) /\ AtRecord(ring', 0, 0)
      BY PerfBufferAssumption DEF Records, AtRecord
    <3> QED BY <3>1, <3>2 DEF BufferInv, Taken
  <2>2. CASE ~Td.perf
    BY <1>9, <2>2 DEF BufferInv, Taken, EndClose, Step
  <2> QED BY <2>1, <2>2
<1>10. CASE EndTerminate
  BY <1>0, <1>10 DEF BufferInv, Taken, EndTerminate, Step, Running
<1>11. CASE EndDump
  BY <1>0, <1>11 DEF BufferInv, Taken, EndDump, Step, Running
<1>12. CASE EndExit
  BY <1>0, <1>12 DEF BufferInv, Taken, EndExit, Step, Running
<1>13. CASE Shutdown
  BY <1>0, <1>13 DEF BufferInv, Taken, Shutdown
<1>14. CASE Overflow
  <2>1. UNCHANGED <<hnd, last>> /\ count' = count + 1
    BY <1>14 DEF Overflow
  <2>2. Taken' = Taken
    BY <2>1 DEF Taken
  <2>3. /\ Records(ring', head', tail', count', Taken)
        /\ AtRecord(ring, head, tail) => AtRecord(ring', head', tail')
        /\ AfterSample(ring, head, tail) => AfterSample(ring', head', tail')
    BY <1>14, OverflowBuffer
  <2>4. Taken <= count'
    BY <1>0, <2>1 DEF BufferInv
  <2> QED BY <2>1, <2>2, <2>3, <2>4 DEF BufferInv
<1>15. CASE SignalDropped
  BY <1>0, <1>15 DEF BufferInv, Taken, SignalDropped, Running
<1>16. CASE SignalNoEvents
  BY <1>0, <1>16 DEF BufferInv, Taken, SignalNoEvents, Running
<1>17. CASE SignalEnter
  BY <1>0, <1>17 DEF BufferInv, Taken, SignalEnter, Running
<1>18. CASE ForeignSignal
  BY <1>0, <1>18 DEF BufferInv, Taken, ForeignSignal, Running
<1>19. CASE StopAll
  BY <1>0, <1>19 DEF BufferInv, Taken, StopAll, Handler
<1>20. CASE ParseSample
  <2>1. /\ tail < head /\ SampleAt(ring, tail) /\ tail' = tail + 9
        /\ last' = SampleOf(WordAt(ring, tail)[1])
    BY <1>20, ParsedSample
  <2>2. UNCHANGED <<ring, head, count>> /\ hnd' = "sample"
    BY <1>20 DEF ParseSample, Handler
  <2>3. Taken' = WordAt(ring, tail)[1]
    BY <2>1 DEF Taken, SampleOf
  <2>4. /\ Records(ring, head, tail + 9, count, WordAt(ring, tail)[1])
        /\ AfterSample(ring, head, tail + 9)
        /\ WordAt(ring, tail)[1] \in 1..count
    BY <2>1, SampleAtTail
  <2>5. WordAt(ring, tail)[1] <= count
    BY <1>0, <2>4
  <2> QED BY <2>1, <2>2, <2>3, <2>4, <2>5 DEF BufferInv
<1>21. CASE OnSampleReturn
  BY <1>0, <1>21 DEF BufferInv, Taken, OnSampleReturn, Handler
<1>22. CASE ParseSkip
  <2>1. UNCHANGED <<ring, head, count, last>> /\ hnd' = "parse" /\ Taken' = Taken
    BY <1>22 DEF ParseSkip, Handler, Taken
  <2>2. Records(ring, head, tail, count, Taken) /\ Taken <= count
    BY DEF BufferInv
  <2>3. CASE LostAt(ring, tail) /\ tail' = tail + 6 /\ tail < head
    <3>1. Records(ring, head, tail + 6, count, Taken) /\ SampleAt(ring, tail + 6)
      BY <2>3, LostAtTail
    <3> QED BY <2>1, <2>2, <2>3, <3>1 DEF BufferInv, AtRecord
  <2>4. CASE tail' = head
    <3>1. Records(ring, head, head, count, Taken)
      BY <1>0, PerfBufferAssumption DEF Records
    <3> QED BY <2>1, <2>2, <2>4, <3>1 DEF BufferInv, AtRecord
  <2> QED BY <1>22, <2>3, <2>4, ParsedSkip
<1>23. CASE ParseDone
  <2>1. tail = head
    BY <1>0, <1>23 DEF ParseDone, Remaining
  <2> QED BY <1>23, <2>1 DEF BufferInv, Taken, ParseDone, Handler, AtRecord, kernelVars, bufferVars
<1>24. CASE Restart
  BY <1>0, <1>24 DEF BufferInv, Taken, Restart, Handler
<1>25. CASE StartAll
  BY <1>0, <1>25 DEF BufferInv, Taken, StartAll, Handler
<1>26. CASE SafeExit
  BY <1>0, <1>26 DEF BufferInv, Taken, SafeExit, Handler
<1>27. CASE TrapExit
  BY <1>0, <1>27 DEF BufferInv, Taken, TrapExit
<1>28. CASE TrapEnter
  BY <1>0, <1>28 DEF BufferInv, Taken, TrapEnter
<1>29. CASE TrapUnknown
  BY <1>0, <1>29 DEF BufferInv, Taken, TrapUnknown
<1>30. CASE Done
  BY <1>30 DEF BufferInv, Taken, Done, vars
<1> QED
  BY <1>1, <1>2, <1>3, <1>4, <1>5, <1>6, <1>7, <1>8, <1>9, <1>10, <1>11, <1>12,
     <1>13, <1>14, <1>15, <1>16, <1>17, <1>18, <1>19, <1>20, <1>21, <1>22,
     <1>23, <1>24, <1>25, <1>26, <1>27, <1>28, <1>29, <1>30 DEF Next,
     HandlerStep

(* A reader that stands at a record knows the oldest sample that waits.    *)
LEMMA OldestHere ==
    ASSUME TypeOK, BufferInv, AtRecord(ring, head, tail)
    PROVE  /\ Oldest(WaitingSamples) \in 0..count
           /\ tail = head => Oldest(WaitingSamples) = 0
           /\ tail < head /\ SampleAt(ring, tail) => Oldest(WaitingSamples) = WordAt(ring, tail)[1]
<1>0. /\ ring \in [0..(Size - 1) -> Word] /\ head \in Nat /\ tail \in 0..head
      /\ tail \in Nat /\ count \in Nat /\ Taken \in Nat
  BY BufferTypes
<1>1. Records(ring, head, tail, count, Taken)
  BY DEF BufferInv
<1>2. WaitingSamples = Waiting(ring, head, tail, count)
  BY WaitingNow
<1>3. Waiting(ring, head, tail, count) \in SUBSET Nat
  BY <1>0 DEF Waiting
<1>4. CASE tail = head
  <2>1. WaitingSamples = {}
    BY <1>0, <1>2, <1>4, WaitingEnd
  <2> QED BY <1>0, <1>4, <2>1 DEF Oldest
<1>5. ASSUME NEW t \in tail..head, t < head, SampleAt(ring, t),
             Records(ring, head, t, count, Taken),
             Waiting(ring, head, t, count) = Waiting(ring, head, tail, count)
      PROVE  /\ Oldest(WaitingSamples) = WordAt(ring, t)[1]
             /\ Oldest(WaitingSamples) \in 0..count
  <2>1. t \in 0..head
    BY <1>0
  <2>2. /\ WordAt(ring, t)[1] \in 1..count
        /\ WordAt(ring, t)[1] \in Waiting(ring, head, t, count)
        /\ \A w \in Waiting(ring, head, t, count) : WordAt(ring, t)[1] <= w
    BY <1>0, <1>5, <2>1, SampleIsOldest
  <2>3. Oldest(WaitingSamples) = WordAt(ring, t)[1]
    BY <1>2, <1>3, <1>5, <2>2, OldestIs
  <2> QED BY <1>0, <2>2, <2>3
<1>6. CASE tail < head /\ SampleAt(ring, tail)
  <2>1. tail \in tail..head
    BY <1>0
  <2>2. /\ Oldest(WaitingSamples) = WordAt(ring, tail)[1]
        /\ Oldest(WaitingSamples) \in 0..count
    BY <1>1, <1>5, <1>6, <2>1
  <2> QED BY <1>0, <1>6, <2>2
<1>7. CASE tail < head /\ LostAt(ring, tail)
  <2>1. /\ tail + 6 < head /\ SampleAt(ring, tail + 6)
        /\ Records(ring, head, tail + 6, count, Taken)
        /\ Waiting(ring, head, tail + 6, count) = Waiting(ring, head, tail, count)
    BY <1>0, <1>1, <1>7, LostSkipped
  <2>2. tail + 6 \in tail..head
    BY <1>0, <2>1
  <2>3. Oldest(WaitingSamples) \in 0..count
    BY <1>5, <2>1, <2>2
  <2> QED BY <1>0, <1>7, <2>3 DEF SampleAt, LostAt
<1> QED BY <1>0, <1>4, <1>6, <1>7 DEF AtRecord

(* What a run of the handler has done so far.                              *)
LEMMA RunKept ==
    ASSUME TypeOK, BufferInv, RunInv, Next
    PROVE  RunInv'
<1> USE DEF kernelVars, handlerVars, bufferVars, WaitingSamples
<1>0. /\ ring \in [0..(Size - 1) -> Word] /\ head \in Nat /\ tail \in 0..head
      /\ tail \in Nat /\ count \in Nat /\ Taken \in Nat
      /\ run \in [cnt : 0..count, oldest : 0..count, disturbed : BOOLEAN]
  BY BufferTypes DEF TypeOK
<1>1. CASE StartEnter
  BY <1>0, <1>1 DEF RunInv, InSample, Taken, NoRun, StartEnter, Step, Running
<1>2. CASE ThreadStart
  BY <1>0, <1>2 DEF RunInv, InSample, Taken, NoRun, ThreadStart, Step, Running
<1>3. CASE SetupEvents
  BY <1>0, <1>3 DEF RunInv, InSample, Taken, NoRun, SetupEvents, Step, Running
<1>4. CASE StartEvents
  BY <1>0, <1>4 DEF RunInv, InSample, Taken, NoRun, StartEvents, Step, Running
<1>5. CASE StartExit
  BY <1>0, <1>5 DEF RunInv, InSample, Taken, NoRun, StartExit, Step, Running
<1>6. CASE CallbackEnter
  BY <1>0, <1>6 DEF RunInv, InSample, Taken, NoRun, CallbackEnter, Step, Running
<1>7. CASE CallbackExit
  BY <1>0, <1>7 DEF RunInv, InSample, Taken, NoRun, CallbackExit, Step, Running
<1>8. CASE EndEnter
  BY <1>0, <1>8 DEF RunInv, InSample, Taken, NoRun, EndEnter, Step, Running
<1>9. CASE EndClose
  BY <1>0, <1>9 DEF RunInv, InSample, Taken, NoRun, EndClose, Step, Running
<1>10. CASE EndTerminate
  BY <1>0, <1>10 DEF RunInv, InSample, Taken, NoRun, EndTerminate, Step, Running
<1>11. CASE EndDump
  BY <1>0, <1>11 DEF RunInv, InSample, Taken, NoRun, EndDump, Step, Running
<1>12. CASE EndExit
  BY <1>0, <1>12 DEF RunInv, InSample, Taken, NoRun, EndExit, Step, Running
<1>13. CASE Shutdown
  BY <1>0, <1>13 DEF RunInv, InSample, Taken, NoRun, Shutdown
<1>14. CASE Overflow
  <2>1. ev = "on" /\ UNCHANGED <<hnd, run, last>>
    BY <1>14 DEF Overflow
  <2>2. ~(hnd \in {"parse", "sample", "restart"} /\ ~run.disturbed)
    BY <2>1 DEF RunInv
  <2>3. Taken' = Taken /\ InSample' = InSample
    BY <2>1 DEF Taken, InSample
  <2> QED BY <2>1, <2>2, <2>3 DEF RunInv
<1>15. CASE SignalDropped
  BY <1>0, <1>15 DEF RunInv, InSample, Taken, NoRun, SignalDropped, Running
<1>16. CASE SignalNoEvents
  BY <1>0, <1>16 DEF RunInv, InSample, Taken, NoRun, SignalNoEvents, Running
<1>17. CASE SignalEnter
  BY <1>0, <1>17 DEF RunInv, InSample, Taken, NoRun, SignalEnter, Running
<1>18. CASE ForeignSignal
  BY <1>0, <1>18 DEF RunInv, InSample, Taken, NoRun, ForeignSignal, Running
<1>19. CASE StopAll
  <2>1. /\ hnd = "enter" /\ hnd' = "parse" /\ ev' = "off"
        /\ run' = [NoRun EXCEPT !.oldest = Oldest(WaitingSamples)]
        /\ UNCHANGED <<ring, head, tail, count, last>>
    BY <1>19 DEF StopAll, Handler
  <2>2. run'.cnt = 0 /\ run'.oldest = Oldest(WaitingSamples)
    BY <2>1 DEF NoRun
  <2>3. AtRecord(ring, head, tail)
    BY <2>1 DEF BufferInv
  <2>4. WaitingSamples' = WaitingSamples
    BY <2>1 DEF WaitingSamples
  <2>5. Taken' = Taken /\ InSample' = 0
    BY <2>1 DEF Taken, InSample
  <2> QED BY <1>0, <2>1, <2>2, <2>3, <2>4, <2>5 DEF RunInv
<1>20. CASE ParseSample
  <2>1. /\ tail < head /\ SampleAt(ring, tail)
        /\ last' = SampleOf(WordAt(ring, tail)[1])
    BY <1>20, ParsedSample
  <2>2. UNCHANGED <<run, ev>> /\ hnd = "parse" /\ hnd' = "sample"
    BY <1>20 DEF ParseSample, Handler
  <2>3. Taken' = WordAt(ring, tail)[1]
    BY <2>1 DEF Taken, SampleOf
  <2>5. WordAt(ring, tail)[1] \in 1..count /\ Taken < WordAt(ring, tail)[1]
    BY <2>1, SampleAtTail
  <2>6. run'.cnt + InSample' <= Taken'
    <3>1. run.cnt <= Taken
      BY <1>0, <2>2 DEF RunInv, InSample
    <3> QED BY <1>0, <2>2, <2>3, <2>5, <3>1 DEF InSample
  <2>7. ASSUME ~run.disturbed
        PROVE  ev = "off" /\ run.cnt = 0 /\ run.oldest = WordAt(ring, tail)[1]
    <3>1. ~(tail = head \/ AfterSample(ring, head, tail))
      BY <1>0, <2>1 DEF SampleAt, AfterSample
    <3>2. /\ ev = "off" /\ run.cnt = 0 /\ run.oldest = Oldest(WaitingSamples)
          /\ AtRecord(ring, head, tail)
      BY <2>2, <2>7, <3>1 DEF RunInv
    <3> QED BY <2>1, <3>2, OldestHere
  <2>8. WordAt(ring, tail)[1] # 0
    BY <1>0, <2>5
  <2> QED BY <2>1, <2>2, <2>6, <2>7, <2>8 DEF RunInv
<1>21. CASE OnSampleReturn
  <2>1. /\ hnd = "sample" /\ hnd' = "parse" /\ run' = [run EXCEPT !.cnt = run.cnt + 1]
        /\ UNCHANGED <<ring, head, tail, count, last, ev>>
    BY <1>21 DEF OnSampleReturn, Handler
  <2>2. run'.cnt = run.cnt + 1 /\ run'.oldest = run.oldest /\ run'.disturbed = run.disturbed
    BY <1>0, <2>1
  <2>3. AfterSample(ring, head, tail)
    BY <2>1 DEF BufferInv
  <2>4. run'.cnt + InSample' <= Taken'
    BY <1>0, <2>1, <2>2 DEF RunInv, InSample, Taken
  <2> QED BY <1>0, <2>1, <2>2, <2>3, <2>4 DEF RunInv
<1>22. CASE ParseSkip
  <2>1. /\ hnd = "parse" /\ hnd' = "parse"
        /\ UNCHANGED <<ring, head, count, last, ev, run>>
    BY <1>22 DEF ParseSkip, Handler
  <2>2. run'.cnt + InSample' <= Taken'
    BY <2>1 DEF RunInv, InSample, Taken
  <2>3. tail < head
    BY <1>22, ParsedSkip
  <2>4. CASE LostAt(ring, tail) /\ tail' = tail + 6
    <3>2. /\ tail + 6 \in 0..head /\ SampleAt(ring, tail + 6)
          /\ Waiting(ring, head, tail + 6, count) = Waiting(ring, head, tail, count)
      BY <2>3, <2>4, LostAtTail
    <3>3. WaitingSamples' = WaitingSamples
      <4>1. tail + 6 \in 0..head
        BY <3>2
      <4>2. {k \in 1..count : \E p \in (tail + 6)..(head - 1) : ring[p % Size] = <<k, "type">>}
              = Waiting(ring, head, tail + 6, count)
        BY <1>0, <4>1, WaitingIs
      <4>3. WaitingSamples'
              = {k \in 1..count : \E p \in (tail + 6)..(head - 1) : ring[p % Size] = <<k, "type">>}
        BY <2>1, <2>4 DEF WaitingSamples
      <4> QED BY <3>2, <4>2, <4>3, WaitingNow
    <3>4. ~(tail = head \/ AfterSample(ring, head, tail))
      BY <1>0, <2>3, <2>4 DEF LostAt, AfterSample
    <3>5. AtRecord(ring', head', tail')
      BY <2>1, <2>4, <3>2 DEF AtRecord
    <3> QED BY <2>1, <2>2, <3>3, <3>4, <3>5 DEF RunInv
  <2>5. CASE AfterSample(ring, head, tail) /\ tail' = head
    <3>1. ~AtRecord(ring, head, tail)
      BY <1>0, <2>3, <2>5 DEF AfterSample, AtRecord, SampleAt, LostAt
    <3> QED BY <2>1, <2>2, <2>5, <3>1 DEF RunInv
  <2> QED BY <1>22, <2>4, <2>5, ParsedSkip
<1>23. CASE ParseDone
  BY <1>0, <1>23 DEF RunInv, InSample, Taken, NoRun, ParseDone, Handler
<1>24. CASE Restart
  BY <1>0, <1>24 DEF RunInv, InSample, Taken, NoRun, Restart, Handler
<1>25. CASE StartAll
  BY <1>0, <1>25 DEF RunInv, InSample, Taken, NoRun, StartAll, Handler
<1>26. CASE SafeExit
  BY <1>0, <1>26 DEF RunInv, InSample, Taken, NoRun, SafeExit, Handler
<1>27. CASE TrapExit
  BY <1>0, <1>27 DEF RunInv, InSample, Taken, NoRun, TrapExit
<1>28. CASE TrapEnter
  BY <1>0, <1>28 DEF RunInv, InSample, Taken, NoRun, TrapEnter
<1>29. CASE TrapUnknown
  BY <1>0, <1>29 DEF RunInv, InSample, Taken, NoRun, TrapUnknown
<1>30. CASE Done
  BY <1>30 DEF RunInv, InSample, Taken, NoRun, Done, vars
<1> QED
  BY <1>1, <1>2, <1>3, <1>4, <1>5, <1>6, <1>7, <1>8, <1>9, <1>10, <1>11, <1>12,
     <1>13, <1>14, <1>15, <1>16, <1>17, <1>18, <1>19, <1>20, <1>21, <1>22,
     <1>23, <1>24, <1>25, <1>26, <1>27, <1>28, <1>29, <1>30 DEF Next,
     HandlerStep

(* Where the process stops.                                                *)
LEMMA FaultsKept ==
    ASSUME TypeOK, BufferInv, GuardInv, WatchInv, RunInv, FaultsExplained, Next
    PROVE  FaultsExplained'
<1> USE DEF Td, Fresh, kernelVars, handlerVars, bufferVars
<1>0. /\ td \in [inside : BOOLEAN, perf : BOOLEAN] /\ keyLive \in BOOLEAN
      /\ wpData \in BOOLEAN /\ armed \in BOOLEAN /\ attached \in BOOLEAN
      /\ run \in [cnt : 0..count, oldest : 0..count, disturbed : BOOLEAN] /\ count \in Nat
  BY SamplingAssumption DEF TypeOK
<1>1. CASE StartEnter
  BY <1>0, <1>1 DEF GuardInv, WatchInv, FaultsExplained, StartEnter, Step, Running
<1>2. CASE ThreadStart
  BY <1>0, <1>2 DEF GuardInv, WatchInv, FaultsExplained, ThreadStart, Step, Running
<1>3. CASE SetupEvents
  BY <1>0, <1>3 DEF GuardInv, WatchInv, FaultsExplained, SetupEvents, Step, Running
<1>4. CASE StartEvents
  BY <1>0, <1>4 DEF GuardInv, WatchInv, FaultsExplained, StartEvents, Step, Running
<1>5. CASE StartExit
  BY <1>0, <1>5 DEF GuardInv, WatchInv, FaultsExplained, StartExit, Step, Running
<1>6. CASE CallbackEnter
  BY <1>0, <1>6 DEF GuardInv, WatchInv, FaultsExplained, CallbackEnter, Step, Running
<1>7. CASE CallbackExit
  BY <1>0, <1>7 DEF GuardInv, WatchInv, FaultsExplained, CallbackExit, Step, Running
<1>8. CASE EndEnter
  BY <1>0, <1>8 DEF GuardInv, WatchInv, FaultsExplained, EndEnter, Step, Running
<1>9. CASE EndClose
  BY <1>0, <1>9 DEF GuardInv, WatchInv, FaultsExplained, EndClose, Step, Running
<1>10. CASE EndTerminate
  BY <1>0, <1>10 DEF GuardInv, WatchInv, FaultsExplained, EndTerminate, Step, Running
<1>11. CASE EndDump
  BY <1>0, <1>11 DEF GuardInv, WatchInv, FaultsExplained, EndDump, Step, Running
<1>12. CASE EndExit
  BY <1>0, <1>12 DEF GuardInv, WatchInv, FaultsExplained, EndExit, Step, Running
<1>13. CASE Shutdown
  BY <1>0, <1>13 DEF GuardInv, WatchInv, FaultsExplained, Shutdown
<1>14. CASE Overflow
  BY <1>0, <1>14 DEF GuardInv, WatchInv, FaultsExplained, Overflow
<1>15. CASE SignalDropped
  BY <1>0, <1>15 DEF GuardInv, WatchInv, FaultsExplained, SignalDropped, Running
<1>16. CASE SignalNoEvents
  BY <1>0, <1>16 DEF GuardInv, WatchInv, FaultsExplained, SignalNoEvents, Running
<1>17. CASE SignalEnter
  BY <1>0, <1>17 DEF GuardInv, WatchInv, FaultsExplained, SignalEnter, Running
<1>18. CASE ForeignSignal
  BY <1>0, <1>18 DEF GuardInv, WatchInv, FaultsExplained, ForeignSignal, Running
<1>19. CASE StopAll
  BY <1>0, <1>19 DEF GuardInv, WatchInv, FaultsExplained, StopAll, Handler
<1>20. CASE ParseSample
  <2>1. fault' = fault /\ UNCHANGED <<run, keyLive, base, attached>>
    BY <1>20, ParsedSample DEF ParseSample, Handler
  <2> QED BY <2>1 DEF FaultsExplained
<1>21. CASE OnSampleReturn
  BY <1>0, <1>21 DEF GuardInv, WatchInv, FaultsExplained, OnSampleReturn, Handler
<1>22. CASE ParseSkip
  BY <1>0, <1>22 DEF GuardInv, WatchInv, FaultsExplained, ParseSkip, Handler
<1>23. CASE ParseDone
  <2>1. /\ hnd = "parse" /\ fault' = IF run.cnt < 2 THEN "none" ELSE "cnt"
        /\ UNCHANGED <<run, keyLive, base, attached>>
    BY <1>23 DEF ParseDone, Handler
  <2>2. ~run.disturbed => run.cnt \in {0, 1}
    BY <2>1 DEF RunInv
  <2> QED BY <1>0, <2>1, <2>2 DEF FaultsExplained
<1>24. CASE Restart
  BY <1>0, <1>24 DEF GuardInv, WatchInv, FaultsExplained, Restart, Handler
<1>25. CASE StartAll
  BY <1>0, <1>25 DEF GuardInv, WatchInv, FaultsExplained, StartAll, Handler
<1>26. CASE SafeExit
  BY <1>0, <1>26 DEF GuardInv, WatchInv, FaultsExplained, SafeExit, Handler
<1>27. CASE TrapExit
  BY <1>0, <1>27 DEF GuardInv, WatchInv, FaultsExplained, TrapExit
<1>28. CASE TrapEnter
  BY <1>0, <1>28 DEF GuardInv, WatchInv, FaultsExplained, TrapEnter
<1>29. CASE TrapUnknown
  BY <1>0, <1>29 DEF GuardInv, WatchInv, FaultsExplained, TrapUnknown
<1>30. CASE Done
  BY <1>30 DEF GuardInv, WatchInv, FaultsExplained, Done, vars
<1> QED
  BY <1>1, <1>2, <1>3, <1>4, <1>5, <1>6, <1>7, <1>8, <1>9, <1>10, <1>11, <1>12,
     <1>13, <1>14, <1>15, <1>16, <1>17, <1>18, <1>19, <1>20, <1>21, <1>22,
     <1>23, <1>24, <1>25, <1>26, <1>27, <1>28, <1>29, <1>30 DEF Next,
     HandlerStep

(* What a run has passed on when it ends.                                  *)
LEMMA OneSampleKept ==
    ASSUME TypeOK, BufferInv, RunInv, OneSamplePerRun, Next
    PROVE  OneSamplePerRun'
<1> USE DEF kernelVars, handlerVars, bufferVars
<1>0. run \in [cnt : 0..count, oldest : 0..count, disturbed : BOOLEAN]
  BY DEF TypeOK
<1>1. CASE StartEnter
  BY <1>0, <1>1 DEF OneSamplePerRun, NoRun, StartEnter, Step, Running
<1>2. CASE ThreadStart
  BY <1>0, <1>2 DEF OneSamplePerRun, NoRun, ThreadStart, Step, Running
<1>3. CASE SetupEvents
  BY <1>0, <1>3 DEF OneSamplePerRun, NoRun, SetupEvents, Step, Running
<1>4. CASE StartEvents
  BY <1>0, <1>4 DEF OneSamplePerRun, NoRun, StartEvents, Step, Running
<1>5. CASE StartExit
  BY <1>0, <1>5 DEF OneSamplePerRun, NoRun, StartExit, Step, Running
<1>6. CASE CallbackEnter
  BY <1>0, <1>6 DEF OneSamplePerRun, NoRun, CallbackEnter, Step, Running
<1>7. CASE CallbackExit
  BY <1>0, <1>7 DEF OneSamplePerRun, NoRun, CallbackExit, Step, Running
<1>8. CASE EndEnter
  BY <1>0, <1>8 DEF OneSamplePerRun, NoRun, EndEnter, Step, Running
<1>9. CASE EndClose
  BY <1>0, <1>9 DEF OneSamplePerRun, NoRun, EndClose, Step, Running
<1>10. CASE EndTerminate
  BY <1>0, <1>10 DEF OneSamplePerRun, NoRun, EndTerminate, Step, Running
<1>11. CASE EndDump
  BY <1>0, <1>11 DEF OneSamplePerRun, NoRun, EndDump, Step, Running
<1>12. CASE EndExit
  BY <1>0, <1>12 DEF OneSamplePerRun, NoRun, EndExit, Step, Running
<1>13. CASE Shutdown
  BY <1>0, <1>13 DEF OneSamplePerRun, NoRun, Shutdown
<1>14. CASE Overflow
  BY <1>0, <1>14 DEF OneSamplePerRun, NoRun, Overflow
<1>15. CASE SignalDropped
  BY <1>0, <1>15 DEF OneSamplePerRun, NoRun, SignalDropped, Running
<1>16. CASE SignalNoEvents
  BY <1>0, <1>16 DEF OneSamplePerRun, NoRun, SignalNoEvents, Running
<1>17. CASE SignalEnter
  BY <1>0, <1>17 DEF OneSamplePerRun, NoRun, SignalEnter, Running
<1>18. CASE ForeignSignal
  BY <1>0, <1>18 DEF OneSamplePerRun, NoRun, ForeignSignal, Running
<1>19. CASE StopAll
  BY <1>0, <1>19 DEF OneSamplePerRun, NoRun, StopAll, Handler
<1>20. CASE ParseSample
  BY <1>0, <1>20 DEF OneSamplePerRun, NoRun, ParseSample, Handler
<1>21. CASE OnSampleReturn
  BY <1>0, <1>21 DEF OneSamplePerRun, NoRun, OnSampleReturn, Handler
<1>22. CASE ParseSkip
  BY <1>0, <1>22 DEF OneSamplePerRun, NoRun, ParseSkip, Handler
<1>23. CASE ParseDone
  <2>1. hnd = "parse" /\ tail = head /\ UNCHANGED <<run, last>>
    BY <1>23, BufferTypes DEF ParseDone, Handler, Remaining
  <2>2. AtRecord(ring, head, tail) => Oldest(WaitingSamples) = 0
    BY <2>1, OldestHere
  <2>3. ~run.disturbed =>
           \/ run.cnt = 0 /\ run.oldest = 0
           \/ run.cnt = 1 /\ run.oldest # 0 /\ last = SampleOf(run.oldest)
    BY <2>1, <2>2 DEF RunInv
  <2> QED BY <2>1, <2>3 DEF OneSamplePerRun
<1>24. CASE Restart
  BY <1>0, <1>24 DEF OneSamplePerRun, NoRun, Restart, Handler
<1>25. CASE StartAll
  BY <1>0, <1>25 DEF OneSamplePerRun, NoRun, StartAll, Handler
<1>26. CASE SafeExit
  BY <1>0, <1>26 DEF OneSamplePerRun, NoRun, SafeExit, Handler
<1>27. CASE TrapExit
  BY <1>0, <1>27 DEF OneSamplePerRun, NoRun, TrapExit
<1>28. CASE TrapEnter
  BY <1>0, <1>28 DEF OneSamplePerRun, NoRun, TrapEnter
<1>29. CASE TrapUnknown
  BY <1>0, <1>29 DEF OneSamplePerRun, NoRun, TrapUnknown
<1>30. CASE Done
  BY <1>30 DEF OneSamplePerRun, NoRun, Done, vars
<1> QED
  BY <1>1, <1>2, <1>3, <1>4, <1>5, <1>6, <1>7, <1>8, <1>9, <1>10, <1>11, <1>12,
     <1>13, <1>14, <1>15, <1>16, <1>17, <1>18, <1>19, <1>20, <1>21, <1>22,
     <1>23, <1>24, <1>25, <1>26, <1>27, <1>28, <1>29, <1>30 DEF Next,
     HandlerStep

(* Types, with the bounds that the other parts give.                       *)
LEMMA TypesKept ==
    ASSUME TypeOK, BufferInv, Next, BufferInv', SignalInv', RunInv'
    PROVE  TypeOK'
<1> USE DEF SetInside, SetTd, Td, Fresh, kernelVars, handlerVars, bufferVars
<1>0. /\ MaxOverflows \in Nat /\ count \in 0..MaxOverflows /\ count \in Nat
      /\ limit \in 0..count /\ queue \in 0..count
  BY SamplingAssumption DEF TypeOK
<1>1. CASE StartEnter
  BY <1>0, <1>1 DEF TypeOK, StartEnter, Step, Running
<1>2. CASE ThreadStart
  BY <1>0, <1>2 DEF TypeOK, ThreadStart, Step, Running
<1>3. CASE SetupEvents
  BY <1>0, <1>3 DEF TypeOK, SetupEvents, Step, Running
<1>4. CASE StartEvents
  BY <1>0, <1>4 DEF TypeOK, StartEvents, Step, Running
<1>5. CASE StartExit
  BY <1>0, <1>5 DEF TypeOK, StartExit, Step, Running
<1>6. CASE CallbackEnter
  BY <1>0, <1>6 DEF TypeOK, CallbackEnter, Step, Running
<1>7. CASE CallbackExit
  BY <1>0, <1>7 DEF TypeOK, CallbackExit, Step, Running
<1>8. CASE EndEnter
  BY <1>0, <1>8 DEF TypeOK, EndEnter, Step, Running
<1>9. CASE EndClose
  <2>1. /\ ring' \in [0..(Size - 1) -> Word] /\ head' \in Nat /\ tail' \in 0..head'
        /\ lost' \in BOOLEAN /\ ev' \in {"closed", "off", "on"} /\ limit' \in 0..count
        /\ td' \in [inside : BOOLEAN, perf : BOOLEAN]
    <3>1. [i \in 0..(Size - 1) |-> NoWord] \in [0..(Size - 1) -> Word]
      BY <1>0 DEF NoWord, Word, Fields
    <3>2. CASE Td.perf
      <4>1. /\ ring' = [i \in 0..(Size - 1) |-> NoWord] /\ head' = 0 /\ tail' = 0
            /\ lost' = FALSE /\ ev' = "closed" /\ limit' = 0
            /\ SetTd([td EXCEPT !.perf = FALSE])
        BY <1>9, <3>2 DEF EndClose, BufferReset
      <4>2. td \in [inside : BOOLEAN, perf : BOOLEAN]
        BY DEF TypeOK
      <4>3. td' \in [inside : BOOLEAN, perf : BOOLEAN]
        BY <4>1, <4>2
      <4>4. head' \in Nat /\ tail' \in 0..head' /\ limit' \in 0..count
        BY <1>0, <4>1
      <4> QED BY <3>1, <4>1, <4>3, <4>4
    <3>3. CASE ~Td.perf
      BY <1>9, <3>3 DEF EndClose, TypeOK
    <3> QED BY <3>2, <3>3
  <2> QED BY <1>0, <1>9, <2>1 DEF EndClose, Step, TypeOK
<1>10. CASE EndTerminate
  BY <1>0, <1>10 DEF TypeOK, EndTerminate, Step, Running
<1>11. CASE EndDump
  BY <1>0, <1>11 DEF TypeOK, EndDump, Step, Running
<1>12. CASE EndExit
  BY <1>0, <1>12 DEF TypeOK, EndExit, Step, Running
<1>13. CASE Shutdown
  <2>1. /\ keyLive' \in BOOLEAN
        /\ UNCHANGED <<ring, head, tail, lost, ev, limit, queue, count, hnd, run, last>>
        /\ UNCHANGED <<td, wpData, armed, base, trap, attached, fault>>
    BY <1>13 DEF Shutdown
  <2> QED BY <2>1 DEF TypeOK
<1>14. CASE Overflow
  <2>1. /\ WriteRecord(count + 1) /\ count' = count + 1 /\ queue' = queue + 1
        /\ limit' \in {0, limit - 1} /\ limit' >= 0 /\ ev' \in {"off", "on"}
        /\ count < MaxOverflows
        /\ UNCHANGED <<handlerVars, td, keyLive, wpData, armed, base, trap, attached, fault>>
    BY <1>0, <1>14 DEF Overflow, TypeOK
  <2>2. head' \in Nat /\ tail' \in 0..head' /\ lost' \in BOOLEAN
    BY <1>14, OverflowBuffer
  <2>3. ring' \in [0..(Size - 1) -> Word]
    <3>1. count + 1 \in 0..MaxOverflows
      BY <1>0, <2>1
    <3> QED BY <2>1, <3>1, WriteTyped DEF TypeOK
  <2>4. /\ count' \in 0..MaxOverflows /\ limit' \in 0..count' /\ queue' \in 0..count'
        /\ run' \in [cnt : 0..count', oldest : 0..count', disturbed : BOOLEAN]
    BY <1>0, <2>1 DEF TypeOK
  <2> QED BY <2>1, <2>2, <2>3, <2>4 DEF TypeOK
<1>15. CASE SignalDropped
  BY <1>0, <1>15 DEF TypeOK, SignalDropped, Running
<1>16. CASE SignalNoEvents
  <2>1. queue' \in 0..count /\ td' \in [inside : BOOLEAN, perf : BOOLEAN]
    <3>1. queue' = queue - 1 /\ queue > 0 /\ SetInside(TRUE)
      BY <1>16 DEF SignalNoEvents
    <3>2. td \in [inside : BOOLEAN, perf : BOOLEAN]
      BY DEF TypeOK
    <3>3. td' \in [inside : BOOLEAN, perf : BOOLEAN]
      BY <3>1, <3>2
    <3>4. queue' \in 0..count
      BY <1>0, <3>1
    <3> QED BY <3>3, <3>4
  <2> QED BY <1>16, <2>1 DEF TypeOK, SignalNoEvents
<1>17. CASE SignalEnter
  <2>1. queue' \in 0..count /\ td' \in [inside : BOOLEAN, perf : BOOLEAN]
    <3>1. queue' = queue - 1 /\ queue > 0 /\ SetInside(TRUE)
      BY <1>17 DEF SignalEnter
    <3>2. td \in [inside : BOOLEAN, perf : BOOLEAN]
      BY DEF TypeOK
    <3>3. td' \in [inside : BOOLEAN, perf : BOOLEAN]
      BY <3>1, <3>2
    <3>4. queue' \in 0..count
      BY <1>0, <3>1
    <3> QED BY <3>3, <3>4
  <2> QED BY <1>17, <2>1 DEF TypeOK, SignalEnter
<1>18. CASE ForeignSignal
  BY <1>0, <1>18 DEF TypeOK, ForeignSignal, Running
<1>19. CASE StopAll
  <2>1. /\ hnd = "enter" /\ hnd' = "parse" /\ ev' = "off"
        /\ run' = [NoRun EXCEPT !.oldest = Oldest(WaitingSamples)]
        /\ UNCHANGED <<bufferVars, limit, queue, count, last, td, armed, fault>>
        /\ UNCHANGED <<keyLive, wpData, base, trap, attached>>
    BY <1>19 DEF StopAll, Handler
  <2>2. AtRecord(ring, head, tail)
    BY <2>1 DEF BufferInv
  <2>3. Oldest(WaitingSamples) \in 0..count
    BY <2>2, OldestHere
  <2>4. run' \in [cnt : 0..count, oldest : 0..count, disturbed : BOOLEAN]
    <3>1. run' = [cnt |-> 0, oldest |-> Oldest(WaitingSamples), disturbed |-> FALSE]
      BY <2>1 DEF NoRun
    <3> QED BY <1>0, <2>3, <3>1
  <2> QED BY <2>1, <2>4 DEF TypeOK
<1>20. CASE ParseSample
  <2>1. /\ tail < head /\ SampleAt(ring, tail) /\ tail' = tail + 9
        /\ last' = SampleOf(WordAt(ring, tail)[1]) /\ fault' = fault
    BY <1>20, ParsedSample
  <2>2. /\ hnd' = "sample"
        /\ UNCHANGED <<ring, head, lost, ev, limit, queue, count, run, td, armed>>
        /\ UNCHANGED <<keyLive, wpData, base, trap, attached>>
    BY <1>20 DEF ParseSample, Handler
  <2>4. tail + 16 <= head
    BY <2>1, SampleAtTail
  <2>5. tail' \in 0..head'
    BY <2>1, <2>2, <2>4, BufferTypes
  <2>6. WordAt(ring, tail)[1] \in 0..MaxOverflows
    BY BufferTypes, WordNumber
  <2>7. last' \in [ip : [1..2 -> Word], pid : Word, tid : Word]
    <3>1. {"ip", "ip_hi", "pid", "tid"} \subseteq Fields
      <4>1. /\ SampleFields[3] = "ip" /\ SampleFields[4] = "ip_hi"
            /\ SampleFields[5] = "pid" /\ SampleFields[6] = "tid"
        BY DEF SampleFields
      <4>2. 3 \in 1..Len(SampleFields) /\ 4 \in 1..Len(SampleFields)
            /\ 5 \in 1..Len(SampleFields) /\ 6 \in 1..Len(SampleFields)
        BY FieldNames
      <4> QED BY <4>1, <4>2 DEF Fields
    <3>2. ASSUME NEW n \in 0..MaxOverflows
          PROVE  SampleOf(n) \in [ip : [1..2 -> Word], pid : Word, tid : Word]
      <4>1. /\ <<n, "ip">> \in Word /\ <<n, "ip_hi">> \in Word
            /\ <<n, "pid">> \in Word /\ <<n, "tid">> \in Word
        BY <3>1 DEF Word
      <4>2. <<<<n, "ip">>, <<n, "ip_hi">>>> \in [1..2 -> Word]
        BY <4>1
      <4> QED BY <4>1, <4>2 DEF SampleOf
    <3> QED BY <2>1, <2>6, <3>2
  <2> QED BY <2>1, <2>2, <2>5, <2>7 DEF TypeOK
<1>21. CASE OnSampleReturn
  <2>1. /\ hnd' = "parse" /\ armed' \in BOOLEAN
        /\ run' = [run EXCEPT !.cnt = run.cnt + 1]
        /\ UNCHANGED <<kernelVars, last, td, fault>>
        /\ UNCHANGED <<keyLive, wpData, base, trap, attached>>
    BY <1>21 DEF OnSampleReturn, Handler, TypeOK
  <2>2. run' \in [cnt : 0..count, oldest : 0..count, disturbed : BOOLEAN]
    <3>1. run \in [cnt : 0..count, oldest : 0..count, disturbed : BOOLEAN]
      BY DEF TypeOK
    <3>2. run'.cnt = run.cnt + 1
      BY <2>1, <3>1
    <3>3. run'.cnt + InSample' <= Taken' /\ Taken' <= count'
      BY DEF RunInv, BufferInv
    <3>4. Taken' = Taken /\ count' = count /\ InSample' = 0
      BY <2>1 DEF Taken, InSample
    <3>5. run.cnt + 1 \in 0..count
      BY <1>0, <3>1, <3>2, <3>3, <3>4, BufferTypes
    <3> QED BY <2>1, <3>1, <3>5
  <2> QED BY <2>1, <2>2 DEF TypeOK
<1>22. CASE ParseSkip
  <2>1. /\ hnd' = "parse"
        /\ UNCHANGED <<ring, head, lost, ev, limit, queue, count, run, last, td, armed, fault>>
        /\ UNCHANGED <<keyLive, wpData, base, trap, attached>>
    BY <1>22 DEF ParseSkip, Handler
  <2>2. tail' \in 0..head'
    <3>1. CASE LostAt(ring, tail) /\ tail' = tail + 6 /\ tail < head
      <4>2. tail + 6 < head
        BY <3>1, LostAtTail
      <4> QED BY <2>1, <3>1, <4>2, BufferTypes
    <3>2. CASE tail' = head
      BY <2>1, <3>2, BufferTypes
    <3> QED BY <1>22, <3>1, <3>2, ParsedSkip
  <2> QED BY <2>1, <2>2 DEF TypeOK
<1>23. CASE ParseDone
  BY <1>0, <1>23 DEF TypeOK, ParseDone, Handler
<1>24. CASE Restart
  <2>1. limit' \in 0..count'
    BY <1>0, <1>24 DEF Restart, Handler, TypeOK, SignalInv, Unanswered
  <2> QED BY <1>24, <2>1 DEF Restart, Handler, TypeOK
<1>25. CASE StartAll
  BY <1>0, <1>25 DEF TypeOK, StartAll, Handler
<1>26. CASE SafeExit
  <2>1. run' \in [cnt : 0..count, oldest : 0..count, disturbed : BOOLEAN]
    BY <1>0, <1>26 DEF SafeExit, NoRun
  <2>2. td' \in [inside : BOOLEAN, perf : BOOLEAN] /\ hnd' = "none"
    BY <1>26 DEF SafeExit, Handler, TypeOK
  <2>3. /\ UNCHANGED <<kernelVars, last, armed, fault>>
        /\ UNCHANGED <<keyLive, wpData, base, trap, attached>>
    BY <1>26 DEF SafeExit, Handler
  <2> QED BY <2>1, <2>2, <2>3 DEF TypeOK
<1>27. CASE TrapExit
  <2>1. run' \in [cnt : 0..count, oldest : 0..count, disturbed : BOOLEAN]
    BY <1>27 DEF TrapExit, TypeOK
  <2>2. /\ td' \in [inside : BOOLEAN, perf : BOOLEAN] /\ ev' \in {"closed", "off", "on"}
        /\ trap' \in {"none", "client", "inside"} /\ armed' \in BOOLEAN
        /\ fault' \in {"none", "events"}
    BY <1>27 DEF TrapExit, TypeOK
  <2>3. UNCHANGED <<bufferVars, limit, queue, count, hnd, last, keyLive, wpData, base, attached>>
    BY <1>27 DEF TrapExit
  <2> QED BY <2>1, <2>2, <2>3 DEF TypeOK
<1>28. CASE TrapEnter
  <2>1. /\ td' \in [inside : BOOLEAN, perf : BOOLEAN] /\ ev' \in {"closed", "off", "on"}
        /\ trap' \in {"none", "client", "inside"} /\ armed' \in BOOLEAN
        /\ fault' \in {"none", "events"}
    BY <1>28 DEF TrapEnter, TypeOK
  <2>2. UNCHANGED <<bufferVars, limit, queue, count, handlerVars, keyLive, wpData, base, attached>>
    BY <1>28 DEF TrapEnter
  <2> QED BY <2>1, <2>2 DEF TypeOK
<1>29. CASE TrapUnknown
  <2>1. run' \in [cnt : 0..count, oldest : 0..count, disturbed : BOOLEAN]
    BY <1>29 DEF TrapUnknown, TypeOK
  <2> QED BY <1>29, <2>1 DEF TrapUnknown, TypeOK
<1>30. CASE Done
  BY <1>30 DEF TypeOK, Done, vars
<1> QED
  BY <1>1, <1>2, <1>3, <1>4, <1>5, <1>6, <1>7, <1>8, <1>9, <1>10, <1>11, <1>12,
     <1>13, <1>14, <1>15, <1>16, <1>17, <1>18, <1>19, <1>20, <1>21, <1>22,
     <1>23, <1>24, <1>25, <1>26, <1>27, <1>28, <1>29, <1>30 DEF Next,
     HandlerStep

-----------------------------------------------------------------------------
(* The invariant holds.                                                    *)

(* The invariant holds before the first sample.                            *)
LEMMA InitInv == Init => IInv
<1> SUFFICES ASSUME Init PROVE IInv
  OBVIOUS
<1> USE PerfBufferAssumption, SamplingAssumption
<1>1. TypeOK
  <2>1. NoWord \in Word
    BY DEF NoWord, Word, Fields
  <2>2. ring \in [0..(Size - 1) -> Word] /\ head \in Nat /\ tail \in 0..head /\ lost \in BOOLEAN
    <3>1. /\ ring = [i \in 0..(Size - 1) |-> NoWord] /\ head = 0 /\ tail = 0 /\ lost = FALSE
      BY DEF Init, BufferInit
    <3>2. ring \in [0..(Size - 1) -> Word]
      BY <2>1, <3>1
    <3>3. head \in Nat /\ tail \in 0..head
      BY <3>1
    <3>4. lost \in BOOLEAN
      BY <3>1
    <3> QED BY <3>2, <3>3, <3>4
  <2>3. last \in [ip : [1..2 -> Word], pid : Word, tid : Word]
    <3>1. <<NoWord, NoWord>> \in [1..2 -> Word]
      BY <2>1
    <3> QED BY <2>1, <3>1 DEF Init, NoSample
  <2>4. /\ count \in 0..MaxOverflows /\ limit \in 0..count /\ queue \in 0..count
        /\ run \in [cnt : 0..count, oldest : 0..count, disturbed : BOOLEAN]
    BY DEF Init, NoRun
  <2>5. base \in {"new", "java"} /\ attached \in BOOLEAN
    BY DEF Init
  <2>6. td \in [inside : BOOLEAN, perf : BOOLEAN]
    BY DEF Init, Fresh
  <2> QED BY <2>2, <2>3, <2>4, <2>5, <2>6 DEF Init, TypeOK
<1>2. Taken = 0
  BY DEF Init, NoSample, NoWord, Taken
<1>3. BufferInv
  <2>1. head = 0 /\ tail = 0 /\ count = 0 /\ hnd = "none"
    BY DEF Init, BufferInit
  <2>2. Records(ring, 0, 0, 0, 0) /\ AtRecord(ring, 0, 0)
    BY DEF Records, AtRecord
  <2> QED BY <1>2, <2>1, <2>2 DEF BufferInv
<1>4. GuardInv /\ WatchInv
  BY DEF Init, GuardInv, WatchInv, Fresh
<1>5. SignalInv
  BY DEF Init, SignalInv, Unanswered
<1>6. RunInv
  BY <1>2 DEF Init, RunInv, InSample, NoRun
<1>7. FaultsExplained /\ OneSamplePerRun
  BY DEF Init, FaultsExplained, OneSamplePerRun
<1> QED BY <1>1, <1>3, <1>4, <1>5, <1>6, <1>7 DEF IInv

(* A step keeps it.                                                        *)
LEMMA NextInv == IInv /\ Next => IInv'
<1> SUFFICES ASSUME IInv, Next PROVE IInv'
  OBVIOUS
<1>1. /\ TypeOK /\ BufferInv /\ GuardInv /\ WatchInv /\ SignalInv /\ RunInv
      /\ FaultsExplained /\ OneSamplePerRun
  BY DEF IInv
<1>2. GuardInv'
  BY <1>1, GuardKept
<1>3. WatchInv'
  BY <1>1, WatchKept
<1>4. SignalInv'
  BY <1>1, SignalKept
<1>5. BufferInv'
  BY <1>1, BufferKept
<1>6. RunInv'
  BY <1>1, RunKept
<1>7. FaultsExplained'
  BY <1>1, FaultsKept
<1>8. OneSamplePerRun'
  BY <1>1, OneSampleKept
<1>9. TypeOK'
  BY <1>1, <1>4, <1>5, <1>6, TypesKept
<1> QED BY <1>2, <1>3, <1>4, <1>5, <1>6, <1>7, <1>8, <1>9 DEF IInv

(* A step that changes nothing keeps it, too.                              *)
LEMMA StutterInv == IInv /\ UNCHANGED vars => IInv'
<1> SUFFICES ASSUME IInv, UNCHANGED vars PROVE IInv'
  OBVIOUS
<1>1. UNCHANGED <<ring, head, tail, lost, ev, limit, queue, count, hnd, run, last>>
  BY DEF vars, kernelVars, bufferVars, handlerVars
<1>2. UNCHANGED <<td, keyLive, wpData, armed, base, trap, attached, fault>>
  BY DEF vars
<1>3. TypeOK' /\ BufferInv'
  BY <1>1, <1>2 DEF IInv, TypeOK, BufferInv, Taken
<1>4. GuardInv' /\ WatchInv' /\ SignalInv'
  BY <1>1, <1>2 DEF IInv, GuardInv, WatchInv, SignalInv, Unanswered
<1>5. RunInv'
  BY <1>1, <1>2 DEF IInv, RunInv, InSample, Taken, WaitingSamples
<1>6. FaultsExplained' /\ OneSamplePerRun'
  BY <1>1, <1>2 DEF IInv, FaultsExplained, OneSamplePerRun
<1> QED BY <1>3, <1>4, <1>5, <1>6 DEF IInv

(* The invariant holds in every state of every behaviour.                  *)
LEMMA Invariance == Spec => []IInv
<1>1. IInv /\ [Next]_vars => IInv'
  BY NextInv, StutterInv
<1> QED BY InitInv, <1>1, PTL DEF Spec

-----------------------------------------------------------------------------
(* The reader's tail never passes the kernel's head, no word of the ring   *)
(* is read that was not written, and the limit that restart_perf_event     *)
(* raises never exceeds the overflows it answers, for every size of the    *)
(* buffer.                                                                 *)
THEOREM SamplingTypes == Spec => []TypeOK
<1>1. IInv => TypeOK
  BY DEF IInv
<1> QED BY Invariance, <1>1, PTL

(* assert(cnt < 2) fails only after a trap inside the handler, the         *)
(* assertion on the events only after a shutdown or in a thread that       *)
(* closed them, and perf_read_record_sample never meets a short record.    *)
THEOREM FaultsAreExplained == Spec => []FaultsExplained
<1>1. IInv => FaultsExplained
  BY DEF IInv
<1> QED BY Invariance, <1>1, PTL

(* An undisturbed run of perf_event_handler passes exactly the oldest      *)
(* sample to OnSample, and none when none waits.                           *)
THEOREM HandlerPassesOldest == Spec => []OneSamplePerRun
<1>1. IInv => OneSamplePerRun
  BY DEF IInv
<1> QED BY Invariance, <1>1, PTL

(* inside_agent is set exactly while agent code runs that must not be      *)
(* sampled.                                                                *)
THEOREM GuardIsActivity == Spec => []GuardMatchesActivity
<1>1. IInv => GuardMatchesActivity
  BY DEF IInv, GuardInv, GuardMatchesActivity
<1> QED BY Invariance, <1>1, PTL

-----------------------------------------------------------------------------
(* The thread's event can be off with no signal on its way only after a    *)
(* signal was dropped.                                                     *)
LEMMA StuckOnlyByDrop ==
    ASSUME IInv, Next, ~Stuck, Stuck'
    PROVE  SignalDropped
<1> USE DEF SetInside, SetTd, Td, Fresh, kernelVars, handlerVars, bufferVars
<1>0. /\ td \in [inside : BOOLEAN, perf : BOOLEAN] /\ keyLive \in BOOLEAN
      /\ queue \in Nat /\ SignalInv
  BY SamplingAssumption DEF IInv, TypeOK
<1>1. CASE StartEnter
  BY <1>0, <1>1 DEF Stuck, SignalInv, StartEnter, Step, Running
<1>2. CASE ThreadStart
  BY <1>0, <1>2 DEF Stuck, SignalInv, ThreadStart, Step, Running
<1>3. CASE SetupEvents
  BY <1>0, <1>3 DEF Stuck, SignalInv, SetupEvents, Step, Running
<1>4. CASE StartEvents
  BY <1>0, <1>4 DEF Stuck, SignalInv, StartEvents, Step, Running
<1>5. CASE StartExit
  BY <1>0, <1>5 DEF Stuck, SignalInv, StartExit, Step, Running
<1>6. CASE CallbackEnter
  BY <1>0, <1>6 DEF Stuck, SignalInv, CallbackEnter, Step, Running
<1>7. CASE CallbackExit
  BY <1>0, <1>7 DEF Stuck, SignalInv, CallbackExit, Step, Running
<1>8. CASE EndEnter
  BY <1>0, <1>8 DEF Stuck, SignalInv, EndEnter, Step, Running
<1>9. CASE EndClose
  BY <1>0, <1>9 DEF Stuck, SignalInv, EndClose, Step, Running
<1>10. CASE EndTerminate
  BY <1>0, <1>10 DEF Stuck, SignalInv, EndTerminate, Step, Running
<1>11. CASE EndDump
  BY <1>0, <1>11 DEF Stuck, SignalInv, EndDump, Step, Running
<1>12. CASE EndExit
  BY <1>0, <1>12 DEF Stuck, SignalInv, EndExit, Step, Running
<1>13. CASE Shutdown
  BY <1>0, <1>13 DEF Stuck, SignalInv, Shutdown, Running
<1>14. CASE Overflow
  BY <1>0, <1>14 DEF Stuck, SignalInv, Overflow, Running
<1>15. CASE SignalDropped
  BY <1>15
<1>16. CASE SignalNoEvents
  BY <1>0, <1>16 DEF Stuck, SignalInv, SignalNoEvents, Running
<1>17. CASE SignalEnter
  BY <1>0, <1>17 DEF Stuck, SignalInv, SignalEnter, Running
<1>18. CASE ForeignSignal
  BY <1>0, <1>18 DEF Stuck, SignalInv, ForeignSignal, Running
<1>19. CASE StopAll
  BY <1>0, <1>19 DEF Stuck, SignalInv, StopAll, Handler, Running
<1>20. CASE ParseSample
  BY <1>0, <1>20 DEF Stuck, SignalInv, ParseSample, Handler, Running
<1>21. CASE OnSampleReturn
  BY <1>0, <1>21 DEF Stuck, SignalInv, OnSampleReturn, Handler, Running
<1>22. CASE ParseSkip
  BY <1>0, <1>22 DEF Stuck, SignalInv, ParseSkip, Handler, Running
<1>23. CASE ParseDone
  BY <1>0, <1>23 DEF Stuck, SignalInv, ParseDone, Handler, Running
<1>24. CASE Restart
  BY <1>0, <1>24 DEF Stuck, SignalInv, Restart, Handler, Running
<1>25. CASE StartAll
  BY <1>0, <1>25 DEF Stuck, SignalInv, StartAll, Handler, Running
<1>26. CASE SafeExit
  BY <1>0, <1>26 DEF Stuck, SignalInv, SafeExit, Handler, Running
<1>27. CASE TrapExit
  BY <1>0, <1>27 DEF Stuck, SignalInv, TrapExit, Running
<1>28. CASE TrapEnter
  BY <1>0, <1>28 DEF Stuck, SignalInv, TrapEnter, Running
<1>29. CASE TrapUnknown
  BY <1>0, <1>29 DEF Stuck, SignalInv, TrapUnknown, Running
<1>30. CASE Done
  BY <1>30 DEF Stuck, Done, vars, Running
<1> QED
  BY <1>1, <1>2, <1>3, <1>4, <1>5, <1>6, <1>7, <1>8, <1>9, <1>10, <1>11, <1>12,
     <1>13, <1>14, <1>15, <1>16, <1>17, <1>18, <1>19, <1>20, <1>21, <1>22,
     <1>23, <1>24, <1>25, <1>26, <1>27, <1>28, <1>29, <1>30 DEF Next,
     HandlerStep

(* No return of a handler, a trap or a callback ends the sampling of a     *)
(* thread; only a signal that perf_event_handler drops does.               *)
THEOREM OnlyDropsStopSampling == Spec => SamplingStopsOnlyByDrop
<1>1. IInv /\ [Next]_vars => [~Stuck /\ Stuck' => SignalDropped]_vars
  <2> SUFFICES ASSUME IInv, [Next]_vars
               PROVE  [~Stuck /\ Stuck' => SignalDropped]_vars
    OBVIOUS
  <2>1. CASE Next
    BY <2>1, StuckOnlyByDrop
  <2>2. CASE UNCHANGED vars
    BY <2>2
  <2> QED BY <2>1, <2>2
<1> QED BY Invariance, <1>1, PTL DEF Spec, SamplingStopsOnlyByDrop

-----------------------------------------------------------------------------
(* The refinement.                                                         *)

(* WaitingSamples in the next state.                                       *)
LEMMA WaitingNext ==
    ASSUME TypeOK'
    PROVE  WaitingSamples' = Waiting(ring', head', tail', count')
<1>1. /\ ring' \in [0..(Size - 1) -> Word] /\ head' \in Nat /\ tail' \in 0..head'
      /\ count' \in Nat
  BY SamplingAssumption DEF TypeOK
<1>2. {k \in 1..count' : \E p \in tail'..(head' - 1) : ring'[p % Size] = <<k, "type">>}
        = Waiting(ring', head', tail', count')
  BY <1>1, WaitingIs
<1> QED BY <1>2 DEF WaitingSamples

(* The buffer starts empty.                                                *)
LEMMA InitRefines == Init => Abstract!Init
BY DEF Init, BufferInit, NoSample, NoWord, WaitingSamples, Abstract!Init

(* Every step puts one sample, takes the oldest, discards all or changes   *)
(* nothing that SampleQueue sees.                                          *)
LEMMA StepRefines ==
    ASSUME IInv, Next, IInv'
    PROVE  Abstract!Next \/ UNCHANGED Abstract!vars
<1> USE DEF kernelVars, handlerVars, bufferVars
<1>0. /\ TypeOK /\ BufferInv /\ WaitingSamples = Waiting(ring, head, tail, count)
      /\ ring \in [0..(Size - 1) -> Word] /\ head \in Nat /\ tail \in 0..head
      /\ tail \in Nat /\ count \in Nat /\ Taken \in Nat
  BY WaitingNow, BufferTypes DEF IInv
<1>a. TypeOK'
  BY DEF IInv
<1>1. CASE StartEnter
  BY <1>0, <1>1 DEF Abstract!vars, WaitingSamples, StartEnter, Step, Running
<1>2. CASE ThreadStart
  BY <1>0, <1>2 DEF Abstract!vars, WaitingSamples, ThreadStart, Step, Running
<1>3. CASE SetupEvents
  BY <1>0, <1>3 DEF Abstract!vars, WaitingSamples, SetupEvents, Step, Running
<1>4. CASE StartEvents
  BY <1>0, <1>4 DEF Abstract!vars, WaitingSamples, StartEvents, Step, Running
<1>5. CASE StartExit
  BY <1>0, <1>5 DEF Abstract!vars, WaitingSamples, StartExit, Step, Running
<1>6. CASE CallbackEnter
  BY <1>0, <1>6 DEF Abstract!vars, WaitingSamples, CallbackEnter, Step, Running
<1>7. CASE CallbackExit
  BY <1>0, <1>7 DEF Abstract!vars, WaitingSamples, CallbackExit, Step, Running
<1>8. CASE EndEnter
  BY <1>0, <1>8 DEF Abstract!vars, WaitingSamples, EndEnter, Step, Running
<1>9. CASE EndClose
  <2>1. CASE Td.perf
    <3>1. head' = 0 /\ tail' = 0 /\ last' = last
      BY <1>9, <2>1 DEF EndClose, BufferReset, Step
    <3>2. WaitingSamples' = {}
      BY <3>1 DEF WaitingSamples
    <3> QED BY <3>1, <3>2 DEF Abstract!Next, Abstract!Discard, Taken
  <2>2. CASE ~Td.perf
    BY <1>9, <2>2 DEF EndClose, Step, Abstract!vars, WaitingSamples
  <2> QED BY <2>1, <2>2
<1>10. CASE EndTerminate
  BY <1>0, <1>10 DEF Abstract!vars, WaitingSamples, EndTerminate, Step, Running
<1>11. CASE EndDump
  BY <1>0, <1>11 DEF Abstract!vars, WaitingSamples, EndDump, Step, Running
<1>12. CASE EndExit
  BY <1>0, <1>12 DEF Abstract!vars, WaitingSamples, EndExit, Step, Running
<1>13. CASE Shutdown
  BY <1>0, <1>13 DEF Abstract!vars, WaitingSamples, Shutdown
<1>14. CASE Overflow
  <2>1. WaitingSamples' = Waiting(ring', head', tail', count')
    BY <1>a, WaitingNext
  <2>2. Taken' = Taken
    BY <1>14 DEF Overflow, Taken
  <2>3. CASE Waiting(ring', head', tail', count') = Waiting(ring, head, tail, count)
    BY <1>0, <2>1, <2>2, <2>3 DEF Abstract!vars, Taken
  <2>4. CASE Waiting(ring', head', tail', count')
               = Waiting(ring, head, tail, count) \cup {count + 1}
    <3>1. WaitingSamples' = WaitingSamples \cup {count + 1}
      BY <1>0, <2>1, <2>4
    <3>2. count + 1 > Taken
      BY <1>0 DEF BufferInv
    <3>3. \A w \in WaitingSamples : count + 1 > w
      BY <1>0 DEF WaitingSamples
    <3>4. Abstract!Put(count + 1)
      BY <2>2, <3>1, <3>2, <3>3 DEF Abstract!Put, Taken
    <3>5. count + 1 \in WaitingSamples'
      BY <3>1
    <3> QED BY <3>4, <3>5 DEF Abstract!Next
  <2> QED BY <1>0, <1>14, <2>3, <2>4, OverflowBuffer
<1>15. CASE SignalDropped
  BY <1>0, <1>15 DEF Abstract!vars, WaitingSamples, SignalDropped, Running
<1>16. CASE SignalNoEvents
  BY <1>0, <1>16 DEF Abstract!vars, WaitingSamples, SignalNoEvents, Running
<1>17. CASE SignalEnter
  BY <1>0, <1>17 DEF Abstract!vars, WaitingSamples, SignalEnter, Running
<1>18. CASE ForeignSignal
  BY <1>0, <1>18 DEF Abstract!vars, WaitingSamples, ForeignSignal, Running
<1>19. CASE StopAll
  BY <1>0, <1>19 DEF Abstract!vars, WaitingSamples, StopAll, Handler
<1>20. CASE ParseSample
  <2> DEFINE n == WordAt(ring, tail)[1]
  <2>1. /\ tail < head /\ SampleAt(ring, tail) /\ tail' = tail + 9 /\ last' = SampleOf(n)
    BY <1>0, <1>20, ParsedSample
  <2>2. UNCHANGED <<ring, head, count>>
    BY <1>20 DEF ParseSample
  <2>4. Waiting(ring, head, tail + 9, count) = Waiting(ring, head, tail, count) \ {n}
    BY <1>0, <2>1, SampleAtTail
  <2>5. /\ n \in Waiting(ring, head, tail, count)
        /\ \A w \in Waiting(ring, head, tail, count) : n <= w
    BY <1>0, <2>1, SampleAtTail
  <2> HIDE DEF n
  <2>6. WaitingSamples' = WaitingSamples \ {n}
    BY <1>0, <1>a, <2>1, <2>2, <2>4, WaitingNext
  <2>7. last'.ip[1][1] = n
    BY <2>1 DEF SampleOf
  <2>8. Abstract!Take(n) /\ n \in WaitingSamples
    BY <1>0, <2>5, <2>6, <2>7 DEF Abstract!Take
  <2> QED BY <2>8 DEF Abstract!Next
<1>21. CASE OnSampleReturn
  BY <1>0, <1>21 DEF Abstract!vars, WaitingSamples, OnSampleReturn, Handler
<1>22. CASE ParseSkip
  <2>1. UNCHANGED <<ring, head, count, last>>
    BY <1>22 DEF ParseSkip
  <2>3. CASE LostAt(ring, tail) /\ tail' = tail + 6 /\ tail < head
    <3>1. Waiting(ring, head, tail + 6, count) = Waiting(ring, head, tail, count)
      BY <1>0, <2>3, LostAtTail
    <3>2. WaitingSamples' = WaitingSamples
      BY <1>0, <1>a, <2>1, <2>3, <3>1, WaitingNext
    <3> QED BY <2>1, <3>2 DEF Abstract!vars
  <2>4. CASE tail' = head
    <3>1. Waiting(ring, head, head, count) = {}
      BY <1>0, WaitingEnd
    <3>2. WaitingSamples' = {}
      BY <1>a, <2>1, <2>4, <3>1, WaitingNext
    <3> QED BY <2>1, <3>2 DEF Abstract!Next, Abstract!Discard
  <2> QED BY <1>0, <1>22, <2>3, <2>4, ParsedSkip
<1>23. CASE ParseDone
  BY <1>0, <1>23 DEF Abstract!vars, WaitingSamples, ParseDone, Handler
<1>24. CASE Restart
  BY <1>0, <1>24 DEF Abstract!vars, WaitingSamples, Restart, Handler
<1>25. CASE StartAll
  BY <1>0, <1>25 DEF Abstract!vars, WaitingSamples, StartAll, Handler
<1>26. CASE SafeExit
  BY <1>0, <1>26 DEF Abstract!vars, WaitingSamples, SafeExit, Handler
<1>27. CASE TrapExit
  BY <1>0, <1>27 DEF Abstract!vars, WaitingSamples, TrapExit
<1>28. CASE TrapEnter
  BY <1>0, <1>28 DEF Abstract!vars, WaitingSamples, TrapEnter
<1>29. CASE TrapUnknown
  BY <1>0, <1>29 DEF Abstract!vars, WaitingSamples, TrapUnknown
<1>30. CASE Done
  BY <1>30 DEF Abstract!vars, WaitingSamples, Done, vars
<1> QED
  BY <1>1, <1>2, <1>3, <1>4, <1>5, <1>6, <1>7, <1>8, <1>9, <1>10, <1>11, <1>12,
     <1>13, <1>14, <1>15, <1>16, <1>17, <1>18, <1>19, <1>20, <1>21, <1>22,
     <1>23, <1>24, <1>25, <1>26, <1>27, <1>28, <1>29, <1>30 DEF Next,
     HandlerStep

(* The ring buffer, its kernel side and the partial reads of perf_mmap.cpp *)
(* implement a queue that hands out samples in the order of the overflows  *)
(* and none twice, for every size of the buffer and however often it       *)
(* overflows.                                                              *)
THEOREM BufferIsSampleQueue == Spec => ImplementsSampleQueue
<1>1. IInv /\ [Next]_vars /\ IInv' => [Abstract!Next]_(Abstract!vars)
  <2> SUFFICES ASSUME IInv, [Next]_vars, IInv'
               PROVE  Abstract!Next \/ UNCHANGED Abstract!vars
    OBVIOUS
  <2>1. CASE Next
    BY <2>1, StepRefines
  <2>2. CASE UNCHANGED vars
    BY <2>2 DEF vars, kernelVars, bufferVars, handlerVars, Abstract!vars, WaitingSamples
  <2> QED BY <2>1, <2>2
<1> QED BY Invariance, InitRefines, <1>1, PTL DEF Spec, ImplementsSampleQueue, Abstract!Spec

=============================================================================

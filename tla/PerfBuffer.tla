----------------------------- MODULE PerfBuffer -----------------------------
(***************************************************************************)
(* The ring buffer between the kernel, which writes a record at every      *)
(* counter overflow, and perf_mmap.cpp, which reads it in the signal       *)
(* handler.  The unit is the four-byte word.  A word is the number of the  *)
(* overflow it was written for and the field it belongs to, which is all   *)
(* that the reader's decisions and the properties tell apart.              *)
(***************************************************************************)
EXTENDS Integers, Sequences

CONSTANT Size   (* words in the data pages of the buffer                   *)

ASSUME PerfBufferAssumption == Size \in Nat \ {0}

VARIABLES ring,  (* the data pages                                         *)
          head,  (* data_head, written by the kernel                       *)
          tail,  (* data_tail, written by the reader                       *)
          lost   (* external: whether records were lost since the last one *)

bufferVars == <<ring, head, tail, lost>>

(* What the kernel writes for the sample type perf_attr_init asks for: IP, *)
(* TID, TIME, ADDR, CPU, PERIOD and an empty CALLCHAIN, after the header.  *)
SampleFields == <<"type", "size", "ip", "ip_hi", "pid", "tid", "time", "time_hi",
                  "addr", "addr_hi", "cpu", "res", "period", "period_hi", "nr", "nr_hi">>

(* External: the record with which the kernel reports lost ones.           *)
LostFields == <<"lost_type", "lost_size", "id", "id_hi", "lost", "lost_hi">>

Words(n, fields) == [k \in 1..Len(fields) |-> <<n, fields[k]>>]

NoWord == <<0, "none">>

(* perf_set_mmap: a fresh mapping.                                         *)
BufferInit ==
    /\ ring = [i \in 0..(Size - 1) |-> NoWord]
    /\ head = 0
    /\ tail = 0
    /\ lost = FALSE

(* perf_unmmap: what a later mapping starts from.                          *)
BufferReset ==
    /\ ring' = [i \in 0..(Size - 1) |-> NoWord]
    /\ head' = 0 /\ tail' = 0 /\ lost' = FALSE

(* External: the kernel never writes over words that are not read; when    *)
(* there is no room (one byte stays free) the record is lost, which the    *)
(* next one reports.                                                       *)
WriteRecord(n) ==
    LET ws == IF lost THEN Words(n, LostFields) \o Words(n, SampleFields)
              ELSE Words(n, SampleFields)
        at(i) == 1 + ((i - head) % Size)
    IN  IF head - tail + Len(ws) < Size
        THEN /\ ring' = [i \in 0..(Size - 1) |-> IF at(i) <= Len(ws) THEN ws[at(i)] ELSE ring[i]]
             /\ head' = head + Len(ws)
             /\ lost' = FALSE
             /\ UNCHANGED tail
        ELSE /\ lost' = TRUE
             /\ UNCHANGED <<ring, head, tail>>

-----------------------------------------------------------------------------
(* perf_num_of_remaining_data.                                             *)
Remaining == head - tail

(* perf_read_buffer_nbytes: n words from position t, in two parts when the *)
(* right edge comes first.                                                 *)
Copy(t, n) ==
    LET at    == t % Size
        right == IF Size - at < n THEN Size - at ELSE n
    IN  [k \in 1..n |-> IF k <= right THEN ring[at + k - 1] ELSE ring[k - right - 1]]

HeaderWords == 2

(* How the reader understands the two words it takes for a header.  Inside *)
(* a record it meets the upper half of a data address, which the counted   *)
(* events leave 0, and the processor number, whose upper half is 0.        *)
IsSample(h) == h[1][2] = "type"
RecordWords(h) ==
    CASE h[2][2] = "size" -> Len(SampleFields)
      [] h[2][2] = "lost_size" -> Len(LostFields)
      [] OTHER -> 0

(* Mutant: every field of the record is consumed.                          *)
SampleWords_All == Len(SampleFields) - HeaderWords

(* perf_read_record_sample takes ip, pid, tid, eight bytes for addr and    *)
(* four for cpu, and leaves the rest of the record.                        *)
SampleWords == 7

(* What it makes of them.  TIME comes before ADDR in the record, so addr   *)
(* receives the time and cpu half of the address.                          *)
Decoded(t) ==
    [ip |-> Copy(t, 2), pid |-> Copy(t + 2, 1)[1], tid |-> Copy(t + 3, 1)[1]]

(* perf_skip_buffer_nbytes: never past the head.                           *)
Skipped(n) == IF tail + n > head THEN head ELSE tail + n

(* Mutant: the header counts twice.                                        *)
SkipRecord_Whole(h) == Skipped(HeaderWords + RecordWords(h))

(* perf_read_header and perf_skip_record.                                  *)
SkipRecord(h) == Skipped(HeaderWords + RecordWords(h) - HeaderWords)

(* perf_skip_all.                                                          *)
SkipAll == Skipped(Remaining)

=============================================================================

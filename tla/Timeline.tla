------------------------------ MODULE Timeline ------------------------------
(***************************************************************************)
(* From function instances to the Perfetto track of a thread.  The tracer  *)
(* of profiler.cpp computes the start and end of every instance with two   *)
(* stacks of counter values and appends them to the instance's context;    *)
(* process_raw_data.py turns the contexts into rows, sorts them and writes *)
(* one slice after the other, always for the innermost open instance.      *)
(***************************************************************************)
EXTENDS Integers, Sequences, SequencesExt, FiniteSetsExt

CONSTANTS Methods,    (* names of methods                                  *)
          MaxDepth,   (* levels of calls that the threshold lets be traced *)
          MaxWork,    (* bound: instructions between two watched transfers *)
          MaxRecords  (* bound: instances started in a behaviour           *)

ASSUME TimelineAssumption ==
    MaxDepth \in Nat \ {0} /\ MaxWork \in Nat \ {0} /\ MaxRecords \in Nat \ {0}

VARIABLES
    level,     (* CPUEventStack and CPUEventCntStack: path, start, cnt     *)
    origin,    (* CPUEventStack.value[0], which survives a trace           *)
    metrics,   (* recorded instances of every context: Start and End       *)
    started,   (* instances started so far                                 *)
    phase,     (* "trace", "rows", "write" or "done"                       *)
    paths,     (* contexts at the end of the paths that were output        *)
    rows,      (* trace_list, and after the sort rows                      *)
    next,      (* the row of the loop of output_to_pftrace                 *)
    stack,     (* my_stack                                                 *)
    track      (* events given to the trace generator                      *)

traceVars == <<level, origin, metrics, started>>
vars == <<traceVars, phase, paths, rows, next, stack, track>>

Work == 1..MaxWork

Init ==
    /\ level = <<>> /\ origin = 0 /\ metrics = [c \in {} |-> <<>>] /\ started = 0
    /\ phase = "trace" /\ paths = {} /\ rows = <<>>
    /\ next = 1 /\ stack = <<>> /\ track = <<>>

-----------------------------------------------------------------------------
(* OnSample: an unfinished trace is given up, and the new one starts at    *)
(* the value the lowest level of the stack has kept.                       *)
Sample(m) ==
    /\ phase = "trace" /\ started < MaxRecords
    /\ level' = <<[path |-> <<m>>, start |-> origin, cnt |-> 0]>>
    /\ started' = started + 1
    /\ UNCHANGED <<origin, metrics, phase, paths, rows, next, stack, track>>

(* A call that is traced, w instructions after the transfer before it.     *)
Call(m, w) ==
    /\ phase = "trace" /\ level # <<>> /\ Len(level) < MaxDepth /\ started < MaxRecords
    /\ LET caller == [Last(level) EXCEPT !.cnt = @ + w] IN
       level' = Append(Front(level) \o <<caller>>,
                       [path |-> Append(caller.path, m), start |-> caller.start + caller.cnt, cnt |-> 0])
    /\ started' = started + 1
    /\ UNCHANGED <<origin, metrics, phase, paths, rows, next, stack, track>>

(* Mutant: the last frame has a bytecode index like the others.            *)
ContextOf_ByBci(p) == [k \in 1..Len(p) |-> [method |-> p[k], ip |-> FALSE]]

(* constructContext on the call path p: the callers are frames with a      *)
(* bytecode index, and the instance itself is one with an instruction      *)
(* address.  The return address in the frame before it is left out.        *)
ContextOf(p) == [k \in 1..Len(p) |-> [method |-> p[k], ip |-> k = Len(p)]]

(* A return: the last w instructions are added to the caller, and the      *)
(* interval is appended to the lists of the context.                       *)
Return(w) ==
    /\ phase = "trace" /\ level # <<>>
    /\ LET top  == Last(level)
           end  == top.start + top.cnt + w
           ctxt == ContextOf(top.path)
           old  == IF ctxt \in DOMAIN metrics THEN metrics[ctxt] ELSE <<>>
           outer == Front(level)
       IN  /\ metrics' = [c \in DOMAIN metrics \cup {ctxt} |->
                             IF c = ctxt THEN Append(old, [start |-> top.start, end |-> end])
                             ELSE metrics[c]]
           /\ level' = IF outer = <<>> THEN <<>>
                       ELSE [outer EXCEPT ![Len(outer)].cnt = @ + w]
           /\ origin' = IF outer = <<>> THEN end ELSE origin
    /\ UNCHANGED <<started, phase, paths, rows, next, stack, track>>

(* The thread ends and the scripts are run on its file.                    *)
Analyse ==
    /\ phase = "trace" /\ DOMAIN metrics # {}
    /\ phase' = "rows"
    /\ UNCHANGED <<traceVars, paths, rows, next, stack, track>>

-----------------------------------------------------------------------------
(* The contexts in the file: those with metrics and their ancestors, up to *)
(* the dummy root <<>>.                                                    *)
Contexts == UNION {Prefixes(c) : c \in DOMAIN metrics}
Leaves == {c \in Contexts : \A d \in Contexts : c \in Prefixes(d) => d = c}

RowsOf(c) ==
    IF c \in DOMAIN metrics
    THEN [j \in 1..Len(metrics[c]) |->
             [ctxt |-> c, start |-> metrics[c][j].start, end |-> metrics[c][j].end]]
    ELSE <<>>

(* output_to_file on one path from the root to a leaf: the rows of every   *)
(* context on it that has metrics.                                         *)
OutputPath(leaf) ==
    /\ phase = "rows" /\ leaf \in Leaves \ paths
    /\ rows' = rows \o FlattenSeq([k \in 1..Len(leaf) |-> RowsOf(SubSeq(leaf, 1, k))])
    /\ paths' = paths \cup {leaf}
    /\ UNCHANGED <<traceVars, phase, next, stack, track>>

(* sorted is stable: the place of row i of t is the number of rows that    *)
(* come before it.                                                         *)
Before(t, i, j) == \/ t[i].start < t[j].start
                   \/ t[i].start = t[j].start /\ i < j
Rank(t, i) == Cardinality({j \in 1..Len(t) : Before(t, j, i)})
Sorted(t) == [k \in 1..Len(t) |-> t[CHOOSE i \in 1..Len(t) : Rank(t, i) = k - 1]]

SortRows ==
    /\ phase = "rows" /\ Leaves = paths
    /\ rows' = Sorted(rows)
    /\ phase' = "write"
    /\ UNCHANGED <<traceVars, paths, next, stack, track>>

-----------------------------------------------------------------------------
Open(t, i) == [op |-> "open", at |-> t, row |-> i]
Close(t) == [op |-> "close", at |-> t, row |-> 0]

Writing == phase = "write" /\ next <= Len(rows)
Top == Last(stack)

OpenFirst ==
    /\ Writing /\ next = 1
    /\ stack' = <<1>>
    /\ track' = <<Open(rows[1].start, 1)>>
    /\ next' = 2
    /\ UNCHANGED <<traceVars, phase, paths, rows>>

(* The row starts inside the innermost open one.                           *)
OpenInner ==
    /\ Writing /\ next > 1
    /\ rows[Top].end > rows[next].start
    /\ stack' = Append(stack, next)
    /\ track' = track \o <<Close(rows[next].start), Open(rows[next].start, next)>>
    /\ next' = next + 1
    /\ UNCHANGED <<traceVars, phase, paths, rows>>

(* Mutant: only one ended row is left per new row.                         *)
LeaveEnded_Once ==
    /\ Writing /\ next > 1
    /\ Len(stack) > 1 /\ rows[Top].end < rows[next].start
    /\ stack' = Append(Front(stack), next)
    /\ track' = track \o <<Close(rows[Top].end), Open(rows[next].start, next)>>
    /\ next' = next + 1
    /\ UNCHANGED <<traceVars, phase, paths, rows>>

(* Mutant: the row that is left is not popped.                             *)
LeaveEnded_NoPop ==
    /\ Writing /\ next > 1
    /\ Len(stack) > 1 /\ rows[Top].end < rows[next].start
    /\ UNCHANGED vars

(* The row starts behind the innermost open one: the row around that one   *)
(* continues.                                                              *)
LeaveEnded ==
    /\ Writing /\ next > 1
    /\ Len(stack) > 1 /\ rows[Top].end < rows[next].start
    /\ stack' = Front(stack)
    /\ track' = track \o <<Close(rows[Top].end), Open(rows[Top].end, Last(Front(stack)))>>
    /\ UNCHANGED <<traceVars, phase, paths, rows, next>>

(* Mutant: the new row is not pushed.                                      *)
Replace_NotPushed ==
    /\ Writing /\ next > 1
    /\ rows[Top].end <= rows[next].start
    /\ Len(stack) = 1 \/ rows[Top].end = rows[next].start
    /\ stack' = Front(stack)
    /\ track' = track \o <<Close(rows[Top].end), Open(rows[next].start, next)>>
    /\ next' = next + 1
    /\ UNCHANGED <<traceVars, phase, paths, rows>>

(* The row follows the lowest row, or touches the innermost one.           *)
Replace ==
    /\ Writing /\ next > 1
    /\ rows[Top].end <= rows[next].start
    /\ Len(stack) = 1 \/ rows[Top].end = rows[next].start
    /\ stack' = Append(Front(stack), next)
    /\ track' = track \o <<Close(rows[Top].end), Open(rows[next].start, next)>>
    /\ next' = next + 1
    /\ UNCHANGED <<traceVars, phase, paths, rows>>

(* After the last row the open ones are left one by one.                   *)
Unwind ==
    /\ phase = "write" /\ next > Len(rows) /\ Len(stack) > 1
    /\ stack' = Front(stack)
    /\ track' = track \o <<Close(rows[Top].end), Open(rows[Top].end, Last(Front(stack)))>>
    /\ UNCHANGED <<traceVars, phase, paths, rows, next>>

Finish ==
    /\ phase = "write" /\ next > Len(rows) /\ Len(stack) = 1
    /\ track' = Append(track, Close(rows[Top].end))
    /\ stack' = <<>>
    /\ phase' = "done"
    /\ UNCHANGED <<traceVars, paths, rows, next>>

Done == phase = "done" /\ UNCHANGED vars

Script ==
    \/ \E leaf \in Leaves : OutputPath(leaf)
    \/ SortRows \/ OpenFirst \/ OpenInner \/ LeaveEnded \/ Replace \/ Unwind \/ Finish

Next ==
    \/ \E m \in Methods : Sample(m)
    \/ \E m \in Methods, w \in Work : Call(m, w)
    \/ \E w \in Work : Return(w)
    \/ Analyse \/ Script \/ Done

Spec == Init /\ [][Next]_vars

(* The scripts run to their end once they are started.                     *)
FairSpec == Spec /\ WF_vars(Script)

-----------------------------------------------------------------------------
Interval == [start : Nat, end : Nat]

(* Types; while rows are left there is an open one on my_stack.            *)
TypeOK ==
    /\ origin \in Nat /\ started \in 0..MaxRecords
    /\ \A k \in DOMAIN level : level[k].start \in Nat /\ level[k].cnt \in Nat
    /\ \A c \in DOMAIN metrics : metrics[c] \in Seq(Interval)
    /\ phase \in {"trace", "rows", "write", "done"}
    /\ next \in 1..(Len(rows) + 1)
    /\ \A k \in DOMAIN stack : stack[k] \in 1..(next - 1)
    /\ phase = "write" /\ next > 1 => stack # <<>>

(* The events of the track never go back in time: "rectangles ordered      *)
(* chronologically".                                                       *)
TimeForward ==
    \A k \in 1..(Len(track) - 1) : track[k].at <= track[k + 1].at

(* Any two rows are disjoint, or one lies strictly inside the other.       *)
RowsNest ==
    \A i, j \in DOMAIN rows : i < j =>
        \/ rows[i].end <= rows[j].start \/ rows[j].end <= rows[i].start
        \/ rows[i].start < rows[j].start /\ rows[j].end < rows[i].end
        \/ rows[j].start < rows[i].start /\ rows[i].end < rows[j].end

(* An uninterrupted trace, whose every instance was recorded, gives a      *)
(* track that is in order of time: "rectangles ordered chronologically".   *)
WholeTraceForward == Len(rows) = started => TimeForward

(* The instances the tracer recorded, those that cover a time, and the     *)
(* innermost of them.                                                      *)
Instances == UNION {ToSet(RowsOf(c)) : c \in DOMAIN metrics}
Covering(t) == {x \in Instances : x.start <= t /\ t < x.end}
Innermost(t) == {x \in Covering(t) : \A y \in Covering(t) : y.start <= x.start}

(* The slices of the finished track that show a time.                      *)
Shown(t) ==
    {rows[track[k].row] : k \in {k \in 1..Len(track) :
        track[k].op = "open" /\ track[k].at <= t /\ t < track[k + 1].at}}

(* When the rows nest, the track goes forward in time and shows, at every  *)
(* time, the innermost instance the tracer recorded and nothing where none *)
(* was: output_to_file finds every instance, and the two tests of the loop *)
(* of output_to_pftrace find the right one to continue.                    *)
ShowsInnermost ==
    RowsNest /\ phase \in {"write", "done"} =>
        /\ TimeForward
        /\ phase = "done" =>
             \A t \in 0..Max({x.end : x \in Instances}) : Shown(t) = Innermost(t)

(* output_to_file gives one row for every instance that was recorded: a    *)
(* context with metrics is on one path only, since it ends in a frame with *)
(* an instruction address and all frames above such a one have none.       *)
RowsOncePerInstance ==
    phase \in {"write", "done"} =>
        /\ ToSet(rows) = Instances
        /\ \A c \in DOMAIN metrics :
              Cardinality({i \in DOMAIN rows : rows[i].ctxt = c}) = Len(metrics[c])

(* Every track that is begun is closed: the loops that leave ended rows    *)
(* come to an end.                                                         *)
TrackWritten == phase = "rows" ~> phase = "done"

=============================================================================

------------------------------ MODULE Sampling ------------------------------
(***************************************************************************)
(* One Java thread, its perf event and its watchpoint: the JVMTI callbacks *)
(* of agent.cpp, the overflow signal handler of perf_interface.cpp and the *)
(* trap handler of watchpoint.c, which interrupt each other, share the     *)
(* thread's data block and switch the same counter.                        *)
(***************************************************************************)
EXTENDS PerfBuffer

CONSTANTS MaxOverflows,   (* bound: overflows in a behaviour               *)
          Attach          (* whether the agent can be attached late        *)

ASSUME SamplingAssumption == MaxOverflows \in Nat /\ Attach \in BOOLEAN

VARIABLES
    td,        (* the thread data block: inside_agent, perf_state          *)
    keyLive,   (* whether the key of the thread data exists                *)
    wpData,    (* whether the watchpoint library knows the thread          *)
    armed,     (* whether the watchpoint is armed                          *)
    ev,        (* the perf event: "closed", "off" or "on"                  *)
    limit,     (* external: overflows until the kernel disables it, 0: all *)
    queue,     (* external: overflow signals that are not delivered yet    *)
    count,     (* overflows so far                                         *)
    base,      (* what the thread does under the signal handlers           *)
    hnd,       (* where perf_event_handler is, "none" outside              *)
    trap,      (* where OnWatchPoint is, "none" outside                    *)
    run,       (* the handler's cnt; history: the sample that waited       *)
               (* longest and whether a trap switched the counter on       *)
    last,      (* the sample passed to OnSample last                       *)
    attached,  (* whether the agent was attached to the running JVM        *)
    fault      (* the assertion or null pointer that stopped the process   *)

kernelVars == <<bufferVars, ev, limit, queue, count>>
handlerVars == <<hnd, run, last>>
vars == <<kernelVars, handlerVars, td, keyLive, wpData, armed, base, trap, attached, fault>>

(* A block as thread_data_alloc leaves it.  TD_GET allocates one when the  *)
(* thread has none, so no block and a fresh block are the same.            *)
Fresh == [inside |-> FALSE, perf |-> FALSE]

(* TD_GET: without the key every access meets a fresh block.               *)
Td == IF keyLive THEN td ELSE Fresh
SetTd(block) == td' = IF keyLive THEN block ELSE td
SetInside(b) == SetTd([td EXCEPT !.inside = b])

NoSample == [ip |-> <<NoWord, NoWord>>, pid |-> NoWord, tid |-> NoWord]
NoRun == [cnt |-> 0, oldest |-> 0, disturbed |-> FALSE]

Init ==
    /\ BufferInit
    /\ td = Fresh /\ keyLive = TRUE /\ wpData = FALSE /\ armed = FALSE
    /\ ev = "closed" /\ limit = 0 /\ queue = 0 /\ count = 0
    /\ attached \in {FALSE, Attach}
    /\ base \in IF attached THEN {"new", "java"} ELSE {"new"}
    /\ hnd = "none" /\ trap = "none" /\ run = NoRun /\ last = NoSample
    /\ fault = "none"

Running == fault = "none" /\ hnd = "none" /\ trap = "none"

-----------------------------------------------------------------------------
(* The agent was loaded with the JVM and is unloaded: the JVM ends.        *)
Unloaded == ~keyLive /\ ~attached

(* Callbacks.  A pending signal is delivered before the next instruction.  *)
(* The JVM begins no callback of an agent that it unloads.                 *)
Step(from, to) ==
    /\ Running /\ queue = 0 /\ base = from
    /\ Unloaded => from \notin {"new", "java"}
    /\ base' = to
    /\ UNCHANGED <<handlerVars, keyLive, trap, attached>>

(* BLOCK_SAMPLE in callbackThreadStart.                                    *)
StartEnter ==
    /\ Step("new", "start")
    /\ SetInside(TRUE)
    /\ UNCHANGED <<kernelVars, wpData, armed, fault>>

(* threadStart up to WP_ThreadInit.  The block that BLOCK_SAMPLE marked is *)
(* replaced by a fresh one.                                                *)
ThreadStart ==
    /\ Step("start", "alloc")
    /\ SetTd(Fresh)
    /\ wpData' = TRUE
    /\ UNCHANGED <<kernelVars, armed, fault>>

(* setupEvents up to the end of its loop.                                  *)
SetupEvents ==
    /\ Step("alloc", "setup")
    /\ SetTd([td EXCEPT !.perf = TRUE])
    /\ ev' = "off"
    /\ UNCHANGED <<bufferVars, limit, queue, count, wpData, armed, fault>>

(* perf_start_all at the end of setupEvents.                               *)
StartEvents ==
    /\ Step("setup", "started")
    /\ ev' = "on"
    /\ UNCHANGED <<bufferVars, limit, queue, count, td, wpData, armed, fault>>

StartExit ==
    /\ Step("started", "java")
    /\ SetInside(FALSE)
    /\ UNCHANGED <<kernelVars, wpData, armed, fault>>

(* Any other callback between BLOCK_SAMPLE and UNBLOCK_SAMPLE.             *)
CallbackEnter ==
    /\ Step("java", "callback")
    /\ SetInside(TRUE)
    /\ UNCHANGED <<kernelVars, wpData, armed, fault>>

CallbackExit ==
    /\ Step("callback", "java")
    /\ SetInside(FALSE)
    /\ UNCHANGED <<kernelVars, wpData, armed, fault>>

(* BLOCK_SAMPLE in callbackThreadEnd.                                      *)
EndEnter ==
    /\ Step("java", "end")
    /\ SetInside(TRUE)
    /\ UNCHANGED <<kernelVars, wpData, armed, fault>>

(* closeEvents; without a list of events it returns at once.               *)
EndClose ==
    /\ Step("end", "closed")
    /\ IF Td.perf
       THEN /\ ev' = "closed"
            /\ BufferReset
            /\ limit' = 0
            /\ SetTd([td EXCEPT !.perf = FALSE])
       ELSE UNCHANGED <<bufferVars, ev, limit, td>>
    /\ UNCHANGED <<queue, count, wpData, armed, fault>>

(* WP_ThreadTerminate uses the thread's data without a test.               *)
EndTerminate ==
    /\ Step("closed", "terminated")
    /\ wpData' = FALSE /\ armed' = FALSE
    /\ fault' = IF wpData THEN fault ELSE "null"
    /\ UNCHANGED <<kernelVars, td>>

(* The contexts are written and the block is freed.                        *)
EndDump ==
    /\ Step("terminated", "freed")
    /\ SetTd(Fresh)
    /\ UNCHANGED <<kernelVars, wpData, armed, fault>>

EndExit ==
    /\ Step("freed", "dead")
    /\ SetInside(FALSE)
    /\ UNCHANGED <<kernelVars, wpData, armed, fault>>

(* JVM::shutdown on another thread, at any time: in Agent_OnAttach with    *)
(* the stop option, or in Agent_OnUnload when the agent was loaded.        *)
Shutdown ==
    /\ fault = "none" /\ keyLive
    /\ keyLive' = FALSE
    /\ UNCHANGED <<kernelVars, handlerVars, td, wpData, armed, base, trap, attached, fault>>

-----------------------------------------------------------------------------
(* External: the counter overflows in user code.  An event that REFRESH    *)
(* gave a limit is disabled when the limit is used up.                     *)
Overflow ==
    /\ fault = "none" /\ base # "dead" /\ ev = "on" /\ count < MaxOverflows
    /\ WriteRecord(count + 1)
    /\ count' = count + 1
    /\ queue' = queue + 1
    /\ limit' = IF limit > 0 THEN limit - 1 ELSE 0
    /\ ev' = IF limit = 1 THEN "off" ELSE "on"
    /\ UNCHANGED <<handlerVars, td, keyLive, wpData, armed, base, trap, attached, fault>>

(* perf_event_handler returns at once when it interrupted the agent.       *)
SignalDropped ==
    /\ Running /\ queue > 0 /\ Td.inside
    /\ queue' = queue - 1
    /\ UNCHANGED <<bufferVars, ev, limit, count, hnd, run, last, td, keyLive, wpData, armed,
                   base, trap, attached, fault>>

(* Without a list of events it returns with the flag set.                  *)
SignalNoEvents ==
    /\ Running /\ queue > 0 /\ ~Td.inside /\ ~Td.perf
    /\ queue' = queue - 1
    /\ SetInside(TRUE)
    /\ UNCHANGED <<bufferVars, ev, limit, count, handlerVars, keyLive, wpData, armed,
                   base, trap, attached, fault>>

SignalEnter ==
    /\ Running /\ queue > 0 /\ ~Td.inside /\ Td.perf
    /\ queue' = queue - 1
    /\ SetInside(TRUE)
    /\ hnd' = "enter"
    /\ UNCHANGED <<bufferVars, ev, limit, count, run, last, keyLive, wpData, armed,
                   base, trap, attached, fault>>

(* Mutant: the event is restarted as after a sample.                       *)
ForeignSignal_Restarts ==
    /\ Running /\ base # "dead" /\ ~Td.inside
    /\ SetInside(~Td.perf)
    /\ ev' = IF Td.perf THEN "on" ELSE ev
    /\ limit' = IF Td.perf THEN limit + 1 ELSE limit
    /\ UNCHANGED <<bufferVars, queue, count, handlerVars, keyLive, wpData, armed,
                   base, trap, attached, fault>>

(* The same signal sent by a process: the counters are stopped and         *)
(* started, or the flag stays set as in SignalNoEvents.                    *)
ForeignSignal ==
    /\ Running /\ base # "dead" /\ ~Td.inside
    /\ SetInside(~Td.perf)
    /\ ev' = IF Td.perf THEN "on" ELSE ev
    /\ UNCHANGED <<bufferVars, limit, queue, count, handlerVars, keyLive, wpData, armed,
                   base, trap, attached, fault>>

-----------------------------------------------------------------------------
(* The samples in the buffer, by the number of their overflow.             *)
WaitingSamples ==
    {n \in 1..count : \E p \in tail..(head - 1) : ring[p % Size] = <<n, "type">>}

Oldest(S) == IF S = {} THEN 0 ELSE CHOOSE n \in S : \A m \in S : n <= m

(* A step of perf_event_handler; the list of events is a local by now.     *)
Handler(from, to) ==
    /\ fault = "none" /\ trap = "none" /\ hnd = from
    /\ hnd' = to
    /\ UNCHANGED <<keyLive, wpData, base, trap, attached>>

StopAll ==
    /\ Handler("enter", "parse")
    /\ ev' = "off"
    /\ run' = [NoRun EXCEPT !.oldest = Oldest(WaitingSamples)]
    /\ UNCHANGED <<bufferVars, limit, queue, count, last, td, armed, fault>>

(* Mutant: the reader does not write data_tail.                            *)
ParseSample_KeepsTail ==
    /\ Remaining >= HeaderWords
    /\ IsSample(Copy(tail, HeaderWords))
    /\ Handler("parse", "sample")
    /\ last' = Decoded(tail + HeaderWords)
    /\ UNCHANGED <<kernelVars, run, td, armed, fault>>

(* The loop of the handler on a sample: header, fields, user_sample_cb.    *)
ParseSample ==
    /\ Remaining >= HeaderWords
    /\ IsSample(Copy(tail, HeaderWords))
    /\ Handler("parse", "sample")
    /\ IF Remaining < HeaderWords + SampleWords
       THEN fault' = "short" /\ UNCHANGED <<tail, last>>
       ELSE /\ last' = Decoded(tail + HeaderWords)
            /\ tail' = tail + HeaderWords + SampleWords
            /\ UNCHANGED fault
    /\ UNCHANGED <<ring, head, lost, ev, limit, queue, count, run, td, armed>>

(* OnSample may or may not arm the watchpoint.                             *)
OnSampleReturn ==
    /\ Handler("sample", "parse")
    /\ armed' \in {armed, TRUE}
    /\ run' = [run EXCEPT !.cnt = @ + 1]
    /\ UNCHANGED <<kernelVars, last, td, fault>>

(* Mutant: perf_skip_all does not write data_tail.                         *)
ParseSkip_NoTail ==
    /\ Remaining > 0
    /\ LET h == Copy(tail, HeaderWords) IN
       /\ ~IsSample(h)
       /\ tail' = IF RecordWords(h) = 0 THEN tail ELSE SkipRecord(h)
    /\ Handler("parse", "parse")
    /\ UNCHANGED <<ring, head, lost, ev, limit, queue, count, run, last, td, armed, fault>>

(* The loop on anything else: a record of another type is skipped, and     *)
(* with no size, or too little left for a header, everything is.           *)
ParseSkip ==
    /\ Remaining > 0
    /\ IF Remaining < HeaderWords THEN tail' = SkipAll
       ELSE LET h == Copy(tail, HeaderWords) IN
            /\ ~IsSample(h)
            /\ tail' = IF RecordWords(h) = 0 THEN SkipAll ELSE SkipRecord(h)
    /\ Handler("parse", "parse")
    /\ UNCHANGED <<ring, head, lost, ev, limit, queue, count, run, last, td, armed, fault>>

(* The end of the loop and assert(cnt < 2).                                *)
ParseDone ==
    /\ Remaining = 0
    /\ Handler("parse", "restart")
    /\ fault' = IF run.cnt < 2 THEN "none" ELSE "cnt"
    /\ UNCHANGED <<kernelVars, run, last, td, armed>>

(* restart_perf_event: one more overflow, and the event is enabled.        *)
Restart ==
    /\ Handler("restart", "startall")
    /\ limit' = limit + 1
    /\ ev' = "on"
    /\ UNCHANGED <<bufferVars, queue, count, run, last, td, armed, fault>>

StartAll ==
    /\ Handler("startall", "exit")
    /\ ev' = "on"
    /\ UNCHANGED <<bufferVars, limit, queue, count, run, last, td, armed, fault>>

SafeExit ==
    /\ Handler("exit", "none")
    /\ SetInside(FALSE)
    /\ run' = NoRun
    /\ UNCHANGED <<kernelVars, last, armed, fault>>

-----------------------------------------------------------------------------
(* The watchpoint fires in the thread's code or in OnSample, which walks   *)
(* the stack.  OnWatchPoint reads and pauses the counters, which needs the *)
(* thread's events, and OnRetWatchPoint returns at once inside the agent.  *)
TrapEnter ==
    /\ fault = "none" /\ trap = "none" /\ armed /\ hnd \in {"none", "sample"}
    /\ IF Td.perf
       THEN /\ ev' = "off" /\ armed' = FALSE
            /\ trap' = IF Td.inside THEN "inside" ELSE "client"
            /\ SetInside(TRUE)
            /\ UNCHANGED fault
       ELSE fault' = "events" /\ UNCHANGED <<ev, armed, trap, td>>
    /\ UNCHANGED <<bufferVars, limit, queue, count, handlerVars, keyLive, wpData, base, attached>>

(* Mutant: the flag is cleared for an agent that was interrupted, too.     *)
TrapExit_AlwaysClears ==
    /\ fault = "none" /\ trap # "none"
    /\ ev' = "on" /\ trap' = "none"
    /\ SetInside(FALSE)
    /\ armed' \in BOOLEAN
    /\ fault' = IF Td.perf THEN "none" ELSE "events"
    /\ UNCHANGED <<bufferVars, limit, queue, count, handlerVars, keyLive, wpData, base, attached>>

(* Mutant: the counters are not resumed.                                   *)
TrapExit_NoResume ==
    /\ fault = "none" /\ trap # "none"
    /\ trap' = "none"
    /\ SetInside(trap = "inside")
    /\ armed' \in BOOLEAN
    /\ UNCHANGED <<kernelVars, handlerVars, keyLive, wpData, base, attached, fault>>

(* The client clears the flag and may have armed the next watchpoint; the  *)
(* counters are resumed, in a handler that stopped them too.               *)
TrapExit ==
    /\ fault = "none" /\ trap # "none"
    /\ IF Td.perf
       THEN /\ ev' = "on" /\ trap' = "none"
            /\ run' = [run EXCEPT !.disturbed = hnd # "none"]
            /\ IF trap = "client"
               THEN SetInside(FALSE) /\ armed' \in BOOLEAN
               ELSE UNCHANGED <<td, armed>>
            /\ UNCHANGED fault
       ELSE fault' = "events" /\ UNCHANGED <<ev, trap, run, td, armed>>
    /\ UNCHANGED <<bufferVars, limit, queue, count, hnd, last, keyLive, wpData, base, attached>>

(* A trap that was queued before its watchpoint was disabled: the counters *)
(* are paused and resumed.  No watchpoint was armed before the event is on. *)
TrapUnknown ==
    /\ fault = "none" /\ trap = "none" /\ hnd \in {"none", "sample"}
    /\ wpData /\ base \notin {"alloc", "setup"}
    /\ IF Td.perf
       THEN /\ ev' = "on"
            /\ run' = [run EXCEPT !.disturbed = hnd # "none"]
            /\ UNCHANGED fault
       ELSE fault' = "events" /\ UNCHANGED <<ev, run>>
    /\ UNCHANGED <<bufferVars, limit, queue, count, hnd, last, td, keyLive, wpData, armed, base,
                   trap, attached>>

(* The thread is gone, or the process was stopped or ends.                 *)
Done == (base = "dead" \/ fault # "none" \/ Unloaded) /\ UNCHANGED vars

HandlerStep ==
    \/ StopAll \/ ParseSample \/ OnSampleReturn \/ ParseSkip \/ ParseDone
    \/ Restart \/ StartAll \/ SafeExit \/ TrapExit

Next ==
    \/ StartEnter \/ ThreadStart \/ SetupEvents \/ StartEvents \/ StartExit
    \/ CallbackEnter \/ CallbackExit
    \/ EndEnter \/ EndClose \/ EndTerminate \/ EndDump \/ EndExit
    \/ Shutdown \/ Overflow
    \/ SignalDropped \/ SignalNoEvents \/ SignalEnter \/ ForeignSignal
    \/ HandlerStep \/ TrapEnter \/ TrapUnknown \/ Done

Spec == Init /\ [][Next]_vars

(* A thread inside a handler is scheduled like any other.                  *)
FairSpec == Spec /\ WF_vars(HandlerStep)

-----------------------------------------------------------------------------
Fields == {SampleFields[k] : k \in 1..Len(SampleFields)} \cup
          {LostFields[k] : k \in 1..Len(LostFields)} \cup {"none"}
Word == (0..MaxOverflows) \X Fields

(* Types; the reader's tail never passes the head, and the limit that      *)
(* restart_perf_event raises never exceeds the overflows it answers.       *)
TypeOK ==
    /\ ring \in [0..(Size - 1) -> Word]
    /\ head \in Nat /\ tail \in 0..head /\ lost \in BOOLEAN
    /\ td \in [inside : BOOLEAN, perf : BOOLEAN]
    /\ keyLive \in BOOLEAN /\ wpData \in BOOLEAN /\ armed \in BOOLEAN /\ attached \in BOOLEAN
    /\ ev \in {"closed", "off", "on"}
    /\ count \in 0..MaxOverflows /\ limit \in 0..count /\ queue \in 0..count
    /\ base \in {"new", "start", "alloc", "setup", "started", "java", "callback",
                 "end", "closed", "terminated", "freed", "dead"}
    /\ hnd \in {"none", "enter", "parse", "sample", "restart", "startall", "exit"}
    /\ trap \in {"none", "client", "inside"}
    /\ run \in [cnt : 0..count, oldest : 0..count, disturbed : BOOLEAN]
    /\ last \in [ip : [1..2 -> Word], pid : Word, tid : Word]
    /\ fault \in {"none", "short", "cnt", "events", "null"}

SampleOf(n) ==
    [ip |-> <<<<n, "ip">>, <<n, "ip_hi">>>>, pid |-> <<n, "pid">>, tid |-> <<n, "tid">>]

(* A handler that stopped the counters and was not disturbed passes one    *)
(* sample to OnSample when some were waiting, the oldest with all fields   *)
(* from its own record, and none otherwise, although perf_mmap.cpp reads   *)
(* only part of a record, records of lost samples lie between them and the *)
(* ring wraps.                                                             *)
OneSamplePerRun ==
    hnd = "restart" /\ ~run.disturbed =>
        IF run.oldest = 0 THEN run.cnt = 0
        ELSE run.cnt = 1 /\ last = SampleOf(run.oldest)

(* inside_agent is set exactly while the handler, the client of a trap or  *)
(* a callback other than thread start is active, although the flag does    *)
(* not nest and the handlers interrupt each other.  In thread start a      *)
(* signal that came before the events may have left it set.                *)
GuardMatchesActivity ==
    LET active == hnd # "none" \/ trap = "client" \/ base \in {"callback", "end"}
    IN  keyLive /\ td.perf =>
            /\ active => td.inside
            /\ td.inside => active \/ base \in {"setup", "started"}

(* Where the process can be stopped: assert(cnt < 2) only fails after a    *)
(* trap switched the counters on inside the handler, the assertion on the  *)
(* list of events only after a shutdown or in a thread that closed them,   *)
(* and a null pointer is met only at the end of a thread that never        *)
(* started.                                                                *)
FaultsExplained ==
    /\ fault # "short"
    /\ fault = "cnt" => run.disturbed
    /\ fault = "events" => ~keyLive \/ base = "closed"
    /\ fault = "null" => attached

(* The thread runs outside the handlers with an open event that is off and *)
(* no signal on its way: nothing will switch the event on.                 *)
Stuck ==
    Running /\ queue = 0 /\ keyLive /\ td.perf /\ base # "setup" /\ ev = "off"

(* Only a signal that perf_event_handler drops can end the sampling of a   *)
(* thread; every other return of a handler leaves the event on.            *)
SamplingStopsOnlyByDrop == [][~Stuck /\ Stuck' => SignalDropped]_vars

(* "drop the sample and return": after a sample that was dropped inside a  *)
(* callback the thread is still sampled when it is back in Java code.      *)
SamplingStaysOn == base = "java" => ~Stuck

(* perf_event_handler always returns, whatever was written to the buffer   *)
(* and whichever traps interrupt it, unless an assertion stops it.         *)
HandlerReturns == hnd # "none" ~> hnd = "none" \/ fault # "none"

Abstract == INSTANCE SampleQueue WITH waiting <- WaitingSamples, taken <- last.ip[1][1]

(* The handler takes samples from the ring buffer in the order of the      *)
(* overflows and none twice.                                               *)
ImplementsSampleQueue == Abstract!Spec

=============================================================================

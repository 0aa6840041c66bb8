----------------------------- MODULE CodeCache -----------------------------
(***************************************************************************)
(* The code cache manager of the Trace4J agent: which compiled Java method *)
(* owns a machine address.  JVMTI callbacks add and remove compiled        *)
(* methods, the perf and watchpoint signal handlers look addresses up, and *)
(* a terminating thread files the methods that were never compiled.  All   *)
(* of them run concurrently on JVM threads and share one spin lock, which  *)
(* addMethodAndRemoveFromUncompiledSet gives up while it calls JVMTI.      *)
(***************************************************************************)
EXTENDS Integers

CONSTANTS Threads,     (* JVM threads                                      *)
          Methods,     (* jmethodIDs                                       *)
          MaxAddr,     (* code heap addresses are 0..MaxAddr               *)
          PreAttach,   (* code installed before the agent was attached     *)
          MaxLoads,    (* bound: load events in a behaviour                *)
          MaxSamples,  (* bound: signals handled in a behaviour            *)
          NoThread,    (* the owner of a free lock                         *)
          NoMethod     (* the null CompiledMethod pointer                  *)

Addrs == 0..MaxAddr

(* A piece of compiled code in the JVM's code heap, [s, e] inclusive.      *)
Blobs == [m : Methods, s : Addrs, e : Addrs]

(* A CompiledMethod object.  Its identity is method id and version.        *)
CompiledMethod == [m : Methods, v : Nat, s : Addrs, e : Addrs]

NoBlob == [m |-> NoMethod, s |-> 0, e |-> 0]

(* External: the JVM never lets two pieces of live code overlap.           *)
Disjoint(b, c) == b.e < c.s \/ c.e < b.s

ASSUME CodeCacheAssumption ==
    /\ MaxAddr \in Nat
    /\ MaxLoads \in Nat
    /\ MaxSamples \in Nat
    /\ NoThread \notin Threads
    /\ NoMethod \notin CompiledMethod
    /\ NoMethod \notin Methods
    /\ PreAttach \subseteq Blobs
    /\ \A b \in PreAttach : b.s <= b.e
    /\ \A b, c \in PreAttach : b # c => Disjoint(b, c)

VARIABLES
    lock,        (* owner of CodeCacheManager::_lock                       *)
    groups,      (* the keys of _method_id_map; a group is never deleted   *)
    recent,      (* _recent_version of each group                          *)
    addressMap,  (* _address_method_map of each group                      *)
    rangeSet,    (* _method_range_set: start address -> object             *)
    heap,        (* CompiledMethod objects that are allocated              *)
    uncompiled,  (* the MethodCache of methods never compiled              *)
    methodFile,  (* entries written by output_method                       *)
    code,        (* external: live code of the JVM                         *)
    unloading,   (* external: code whose unload event is being delivered   *)
    pc,          (* where each thread is                                   *)
    blob,        (* the code a callback is about                           *)
    ip,          (* the address a handler looks up                         *)
    obj,         (* the CompiledMethod pointer a thread holds              *)
    ctx,         (* methods in the thread's ContextTree                    *)
    dumped,      (* methods of contexts written by terminated threads      *)
    iter,        (* what performActionAll has still to visit               *)
    budget,      (* load events and signals left                           *)
    aborted      (* an assert failed: the process is gone                  *)

cacheVars == <<groups, recent, addressMap, rangeSet, heap, uncompiled>>
jvmVars   == <<code, unloading>>
outVars   == <<methodFile, dumped, iter, aborted>>
vars == <<lock, cacheVars, jvmVars, outVars, pc, blob, ip, obj, ctx, budget>>

Init ==
    /\ lock = NoThread
    /\ groups = {}
    /\ recent = [m \in Methods |-> 0]
    /\ addressMap = [m \in Methods |-> [a \in Addrs |-> NoMethod]]
    /\ rangeSet = [a \in Addrs |-> NoMethod]
    /\ heap = {}
    /\ uncompiled = {}
    /\ methodFile = {}
    /\ code = PreAttach
    /\ unloading = {}
    /\ pc = [t \in Threads |-> "run"]
    /\ blob = [t \in Threads |-> NoBlob]
    /\ ip = [t \in Threads |-> 0]
    /\ obj = [t \in Threads |-> NoMethod]
    /\ ctx = [t \in Threads |-> {}]
    /\ dumped = {}
    /\ iter = {}
    /\ budget = [loads |-> MaxLoads, samples |-> MaxSamples]
    /\ aborted = FALSE

-----------------------------------------------------------------------------
(* The spin lock and its scope.                                            *)

Goto(t, from, to) ==
    /\ ~aborted
    /\ pc[t] = from
    /\ pc' = [pc EXCEPT ![t] = to]

Acquire(t, from, to) ==
    /\ Goto(t, from, to)
    /\ lock = NoThread
    /\ lock' = t

Release(t, from, to) ==
    /\ Goto(t, from, to)
    /\ lock' = NoThread

-----------------------------------------------------------------------------
(* RangeSet: a std::map keyed by start address.                            *)

(* emplace keeps an entry that is already there.                           *)
Insert(rs, o) == IF rs[o.s] = NoMethod THEN [rs EXCEPT ![o.s] = o] ELSE rs

(* Mutant: lower_bound in place of upper_bound.                            *)
LastStart_LowerBound(rs, a) ==
    {s \in Addrs : /\ s < a
                   /\ rs[s] # NoMethod
                   /\ \A r \in Addrs : s < r /\ r < a => rs[r] = NoMethod}

(* upper_bound and one step back: the last entry that starts at or before  *)
(* the probe.                                                              *)
LastStart(rs, a) ==
    {s \in Addrs : /\ s <= a
                   /\ rs[s] # NoMethod
                   /\ \A r \in Addrs : s < r /\ r <= a => rs[r] = NoMethod}

(* Mutant: the end of the range is not tested.                             *)
GetRange_NoEnd(rs, a) ==
    IF LastStart(rs, a) # {} THEN rs[CHOOSE s \in LastStart(rs, a) : TRUE] ELSE NoMethod

GetRange(rs, a) ==
    IF \E s \in LastStart(rs, a) : a <= rs[s].e
    THEN rs[CHOOSE s \in LastStart(rs, a) : TRUE]
    ELSE NoMethod

(* Mutant: the entry of unloaded code stays.                               *)
Remove_Forgotten(rs, a) == rs

Remove(rs, a) == [rs EXCEPT ![a] = NoMethod]

-----------------------------------------------------------------------------
(* performActionAll walks the set under a lock no writer takes: a write    *)
(* during the walk may lose or repeat any element.                         *)

Walking == \E t \in Threads : pc[t] = "death"

Disturb(new) ==
    IF Walking /\ new # uncompiled THEN iter' \in SUBSET (iter \cup new)
                                   ELSE iter' = iter

-----------------------------------------------------------------------------
(* CompiledMethodLoad.                                                     *)

(* External: the JVM installs code and delivers the event.                 *)
CompiledMethodLoad(t, b) ==
    /\ Goto(t, "run", "load")
    /\ b.s <= b.e
    /\ \A c \in code : Disjoint(b, c)
    /\ budget.loads > 0
    /\ budget' = [budget EXCEPT !.loads = @ - 1]
    /\ code' = code \cup {b}
    /\ blob' = [blob EXCEPT ![t] = b]
    /\ UNCHANGED <<lock, cacheVars, unloading, outVars, ip, obj, ctx>>

LoadLock(t) ==
    /\ Acquire(t, "load", "load1")
    /\ UNCHANGED <<cacheVars, jvmVars, outVars, blob, ip, obj, ctx, budget>>

(* Mutant: the method stays in the uncompiled set.                         *)
AddMethodBegin_StaysUncompiled(t) ==
    LET m == blob[t].m
        v == recent[m] + 1
    IN  /\ Release(t, "load1", "jvmti")
        /\ groups' = groups \cup {m}
        /\ recent' = [recent EXCEPT ![m] = v]
        /\ obj' = [obj EXCEPT ![t] = [m |-> m, v |-> v, s |-> blob[t].s, e |-> blob[t].e]]
        /\ UNCHANGED <<uncompiled, iter, addressMap, rangeSet, heap, jvmVars,
                       methodFile, dumped, aborted, blob, ip, ctx, budget>>

(* Mutant: the version is drawn but not counted.                           *)
AddMethodBegin_VersionNotCounted(t) ==
    LET m == blob[t].m
        v == recent[m] + 1
    IN  /\ Release(t, "load1", "jvmti")
        /\ uncompiled' = uncompiled \ {m}
        /\ Disturb(uncompiled \ {m})
        /\ groups' = groups \cup {m}
        /\ obj' = [obj EXCEPT ![t] = [m |-> m, v |-> v, s |-> blob[t].s, e |-> blob[t].e]]
        /\ UNCHANGED <<recent, addressMap, rangeSet, heap, jvmVars, methodFile,
                       dumped, aborted, blob, ip, ctx, budget>>

(* Mutant: the lock is kept while JVMTI is called.                         *)
AddMethodBegin_KeepsLock(t) ==
    LET m == blob[t].m
        v == recent[m] + 1
    IN  /\ Goto(t, "load1", "jvmti")
        /\ uncompiled' = uncompiled \ {m}
        /\ Disturb(uncompiled \ {m})
        /\ groups' = groups \cup {m}
        /\ recent' = [recent EXCEPT ![m] = v]
        /\ obj' = [obj EXCEPT ![t] = [m |-> m, v |-> v, s |-> blob[t].s, e |-> blob[t].e]]
        /\ UNCHANGED <<lock, addressMap, rangeSet, heap, jvmVars, methodFile,
                       dumped, aborted, blob, ip, ctx, budget>>

(* First critical section: leave the uncompiled set, find or create the    *)
(* group, draw a version, and give the lock up for the JVMTI calls.        *)
AddMethodBegin(t) ==
    LET m == blob[t].m
        v == recent[m] + 1
    IN  /\ Release(t, "load1", "jvmti")
        /\ uncompiled' = uncompiled \ {m}
        /\ Disturb(uncompiled \ {m})
        /\ groups' = groups \cup {m}
        /\ recent' = [recent EXCEPT ![m] = v]
        /\ obj' = [obj EXCEPT ![t] = [m |-> m, v |-> v, s |-> blob[t].s, e |-> blob[t].e]]
        /\ UNCHANGED <<addressMap, rangeSet, heap, jvmVars, methodFile, dumped,
                       aborted, blob, ip, ctx, budget>>

(* Threads in a signal handler are not at a safepoint.                     *)
InHandler(u) == pc[u] \in {"sample", "sample1", "use"}

(* The CompiledMethod constructor: JVMTI answers at a safepoint.           *)
NewCompiledMethod(t) ==
    /\ Goto(t, "jvmti", "relock")
    /\ \A u \in Threads : ~InHandler(u)
    /\ heap' = heap \cup {obj[t]}
    /\ UNCHANGED <<lock, groups, recent, addressMap, rangeSet, uncompiled,
                   jvmVars, outVars, blob, ip, obj, ctx, budget>>

AddMethodRelock(t) ==
    /\ Acquire(t, "relock", "load2")
    /\ UNCHANGED <<cacheVars, jvmVars, outVars, blob, ip, obj, ctx, budget>>

(* Mutant: the range set is not told.                                      *)
AddMethodEnd_GroupOnly(t) ==
    LET o == obj[t]
    IN  /\ Release(t, "load2", "output")
        /\ addressMap' = [addressMap EXCEPT ![o.m][o.s] = o]
        /\ UNCHANGED <<groups, recent, rangeSet, heap, uncompiled, jvmVars, outVars,
                       blob, ip, obj, ctx, budget>>

(* Second critical section: publish in the group and in the range set.     *)
AddMethodEnd(t) ==
    LET o == obj[t]
    IN  /\ Release(t, "load2", "output")
        /\ addressMap' = [addressMap EXCEPT ![o.m][o.s] = o]
        /\ rangeSet' = Insert(rangeSet, o)
        /\ UNCHANGED <<groups, recent, heap, uncompiled, jvmVars, outVars,
                       blob, ip, obj, ctx, budget>>

(* The callback describes the new method in the method file.               *)
OutputMethod(t) ==
    /\ Goto(t, "output", "run")
    /\ methodFile' = methodFile \cup {obj[t]}
    /\ blob' = [blob EXCEPT ![t] = NoBlob]
    /\ obj' = [obj EXCEPT ![t] = NoMethod]
    /\ UNCHANGED <<lock, cacheVars, jvmVars, dumped, iter, aborted, ip, ctx, budget>>

-----------------------------------------------------------------------------
(* CompiledMethodUnload.                                                   *)

Covers(b, a) == b.s <= a /\ a <= b.e

(* External: code whose load event was delivered, that no thread executes, *)
(* is unloaded; its memory is reused only after the callback returned.     *)
CompiledMethodUnload(t, b) ==
    /\ Goto(t, "run", "unload")
    /\ b \in code \ unloading
    /\ \A u \in Threads : /\ blob[u] # b
                          /\ InHandler(u) => ~Covers(b, ip[u])
    /\ unloading' = unloading \cup {b}
    /\ blob' = [blob EXCEPT ![t] = b]
    /\ UNCHANGED <<lock, cacheVars, code, outVars, ip, obj, ctx, budget>>

UnloadLock(t) ==
    /\ Acquire(t, "unload", "unload1")
    /\ UNCHANGED <<cacheVars, jvmVars, outVars, blob, ip, obj, ctx, budget>>

(* The object goes from its group, the entry from the range set, and the   *)
(* result of the range set's remove is asserted.                           *)
RemoveMethod(t) ==
    LET m == blob[t].m
        a == blob[t].s
    IN  /\ Release(t, "unload1", "run")
        /\ IF m \in groups
           THEN /\ heap' = heap \ {addressMap[m][a]}
                /\ addressMap' = [addressMap EXCEPT ![m][a] = NoMethod]
                /\ rangeSet' = Remove(rangeSet, a)
                /\ aborted' = (rangeSet[a] = NoMethod)
           ELSE UNCHANGED <<heap, addressMap, rangeSet, aborted>>
        /\ code' = code \ {blob[t]}
        /\ unloading' = unloading \ {blob[t]}
        /\ blob' = [blob EXCEPT ![t] = NoBlob]
        /\ UNCHANGED <<groups, recent, uncompiled, methodFile, dumped, iter,
                       ip, obj, ctx, budget>>

-----------------------------------------------------------------------------
(* A signal handler that asks which method an address belongs to.          *)

(* External: a signal arrives while t executes address a.                  *)
Sample(t, a) ==
    /\ Goto(t, "run", "sample")
    /\ budget.samples > 0
    /\ \A b \in unloading : ~Covers(b, a)
    /\ budget' = [budget EXCEPT !.samples = @ - 1]
    /\ ip' = [ip EXCEPT ![t] = a]
    /\ UNCHANGED <<lock, cacheVars, jvmVars, outVars, blob, obj, ctx>>

SampleLock(t) ==
    /\ Acquire(t, "sample", "sample1")
    /\ UNCHANGED <<cacheVars, jvmVars, outVars, blob, ip, obj, ctx, budget>>

GetMethod(t) ==
    /\ Release(t, "sample1", "use")
    /\ obj' = [obj EXCEPT ![t] = GetRange(rangeSet, ip[t])]
    /\ UNCHANGED <<cacheVars, jvmVars, outVars, blob, ip, ctx, budget>>

(* Mutant: the null test is missing.                                       *)
UseMethod_NoNullTest(t, caller) ==
    /\ Goto(t, "use", "run")
    /\ ctx' = [ctx EXCEPT ![t] =
                  @ \cup {IF obj[t] = NoMethod THEN NoMethod ELSE obj[t].m, caller}]
    /\ obj' = [obj EXCEPT ![t] = NoMethod]
    /\ UNCHANGED <<lock, cacheVars, jvmVars, outVars, blob, ip, budget>>

(* The handler reads the object without the lock and files the method and  *)
(* one of its callers, compiled or not, in the thread's contexts.          *)
UseMethod(t, caller) ==
    /\ Goto(t, "use", "run")
    /\ ctx' = IF obj[t] = NoMethod THEN ctx
              ELSE [ctx EXCEPT ![t] = @ \cup {obj[t].m, caller}]
    /\ obj' = [obj EXCEPT ![t] = NoMethod]
    /\ UNCHANGED <<lock, cacheVars, jvmVars, outVars, blob, ip, budget>>

-----------------------------------------------------------------------------
(* threadEnd: one locked check for every method of the thread's contexts.  *)

ThreadEnd(t) ==
    /\ Goto(t, "run", "end")
    /\ UNCHANGED <<lock, cacheVars, jvmVars, outVars, blob, ip, obj, ctx, budget>>

EndLock(t) ==
    /\ ctx[t] # {}
    /\ Acquire(t, "end", "end1")
    /\ UNCHANGED <<cacheVars, jvmVars, outVars, blob, ip, obj, ctx, budget>>

CheckAndMoveMethodToUncompiledSet(t, m) ==
    LET new == IF m \in groups THEN uncompiled ELSE uncompiled \cup {m}
    IN  /\ Release(t, "end1", "end")
        /\ m \in ctx[t]
        /\ uncompiled' = new
        /\ Disturb(new)
        /\ ctx' = [ctx EXCEPT ![t] = @ \ {m}]
        /\ dumped' = dumped \cup {m}
        /\ UNCHANGED <<groups, recent, addressMap, rangeSet, heap, jvmVars,
                       methodFile, aborted, blob, ip, obj, budget>>

ThreadGone(t) ==
    /\ ctx[t] = {}
    /\ Goto(t, "end", "gone")
    /\ UNCHANGED <<lock, cacheVars, jvmVars, outVars, blob, ip, obj, ctx, budget>>

-----------------------------------------------------------------------------
(* VMDeath: describe the methods that were never compiled (version 0).     *)

VMDeath(t) ==
    /\ Goto(t, "run", "death")
    /\ ~Walking
    /\ iter' = uncompiled
    /\ UNCHANGED <<lock, cacheVars, jvmVars, methodFile, dumped, aborted, blob,
                   ip, obj, ctx, budget>>

(* One call of dump_uncompiled_method, which queries JVMTI too.            *)
DumpUncompiledMethod(t, m) ==
    /\ Goto(t, "death", "death")
    /\ m \in iter
    /\ \A u \in Threads : ~InHandler(u)
    /\ iter' = iter \ {m}
    /\ methodFile' = methodFile \cup {[m |-> m, v |-> 0, s |-> 0, e |-> 0]}
    /\ UNCHANGED <<lock, cacheVars, jvmVars, dumped, aborted, blob, ip, obj, ctx, budget>>

VMDead(t) ==
    /\ iter = {}
    /\ Goto(t, "death", "gone")
    /\ UNCHANGED <<lock, cacheVars, jvmVars, outVars, blob, ip, obj, ctx, budget>>

-----------------------------------------------------------------------------
(* The steps a thread takes once it is inside the agent.                   *)
AgentStep(t) ==
    \/ LoadLock(t)
    \/ AddMethodBegin(t)
    \/ NewCompiledMethod(t)
    \/ AddMethodRelock(t)
    \/ AddMethodEnd(t)
    \/ OutputMethod(t)
    \/ UnloadLock(t)
    \/ RemoveMethod(t)
    \/ SampleLock(t)
    \/ GetMethod(t)
    \/ \E caller \in Methods : UseMethod(t, caller)
    \/ EndLock(t)
    \/ \E m \in Methods : CheckAndMoveMethodToUncompiledSet(t, m)
    \/ ThreadGone(t)
    \/ \E m \in Methods : DumpUncompiledMethod(t, m)
    \/ VMDead(t)

(* What the JVM asks of the agent.                                         *)
JvmStep(t) ==
    \/ \E b \in Blobs : CompiledMethodLoad(t, b)
    \/ \E b \in code : CompiledMethodUnload(t, b)
    \/ \E a \in Addrs : Sample(t, a)
    \/ ThreadEnd(t)
    \/ VMDeath(t)

(* Every thread ended: the process exits.                                  *)
Exit ==
    /\ \A t \in Threads : pc[t] = "gone"
    /\ UNCHANGED vars

Next == (\E t \in Threads : AgentStep(t) \/ JvmStep(t)) \/ Exit

Fairness == \A t \in Threads : WF_vars(AgentStep(t))

Spec == Init /\ [][Next]_vars

FairSpec == Spec /\ Fairness

-----------------------------------------------------------------------------
(* Properties.                                                             *)

Where == {"run", "load", "load1", "jvmti", "relock", "load2", "output",
          "unload", "unload1", "sample", "sample1", "use", "end", "end1",
          "death", "gone"}

Pointers == CompiledMethod \cup {NoMethod}

(* Every variable of the manager and of its callers keeps its shape.       *)
TypeOK ==
    /\ lock \in Threads \cup {NoThread}
    /\ groups \subseteq Methods
    /\ recent \in [Methods -> Nat]
    /\ addressMap \in [Methods -> [Addrs -> Pointers]]
    /\ rangeSet \in [Addrs -> Pointers]
    /\ heap \subseteq CompiledMethod
    /\ uncompiled \subseteq Methods
    /\ methodFile \subseteq CompiledMethod
    /\ code \subseteq Blobs
    /\ unloading \subseteq code
    /\ pc \in [Threads -> Where]
    /\ blob \in [Threads -> Blobs \cup {NoBlob}]
    /\ ip \in [Threads -> Addrs]
    /\ obj \in [Threads -> Pointers]
    /\ ctx \in [Threads -> SUBSET Methods]
    /\ dumped \subseteq Methods
    /\ iter \subseteq Methods
    /\ budget \in [loads : 0..MaxLoads, samples : 0..MaxSamples]
    /\ aborted \in BOOLEAN

(* The code an object describes.                                           *)
CodeOf(o) == [m |-> o.m, s |-> o.s, e |-> o.e]

Loading(b) ==
    \E t \in Threads : blob[t] = b /\ pc[t] \in {"load", "load1", "jvmti", "relock", "load2"}

(* Once its load callback has published a compiled method, every address   *)
(* of its code resolves to it, whatever was loaded, unloaded and reused    *)
(* around it in the meantime (addMethod, removeMethod, getMethod).         *)
LoadedCodeResolves ==
    ~aborted =>
      \A b \in code \ (PreAttach \cup unloading) :
         Loading(b) \/ \A a \in b.s..b.e : /\ GetRange(rangeSet, a) # NoMethod
                                          /\ CodeOf(GetRange(rangeSet, a)) = b

(* The raw CompiledMethod pointer getMethod hands to a signal handler,     *)
(* used after the lock is released, is allocated and describes the code    *)
(* the handler interrupted (OnSample, OnRetWatchPoint).                    *)
HandlerPointerValid ==
    \A t \in Threads : pc[t] = "use" /\ obj[t] # NoMethod =>
        /\ obj[t] \in heap
        /\ Covers(obj[t], ip[t])
        /\ CodeOf(obj[t]) \in code

(* Every method of a dumped context is described in exactly one way: by    *)
(* the group of its compiled versions or as never compiled.                *)
(* (checkAndMoveMethodToUncompiledSet against a concurrent load.)          *)
DumpedMethodsFiledOnce ==
    /\ groups \cap uncompiled = {}
    /\ dumped \subseteq groups \cup uncompiled

(* The method file is read back by (id, version): two concurrent loads of  *)
(* one method never describe different code under the same version.        *)
MethodFileUnambiguous ==
    \A x, y \in methodFile : x.m = y.m /\ x.v = y.v => x = y

(* Whatever callback or handler a thread enters, it leaves: no thread that *)
(* waits for a safepoint holds the lock a signal handler spins on, which   *)
(* is the deadlock the NOTE in addMethod is about.                         *)
EveryCallReturns ==
    \A t \in Threads : pc[t] # "run" ~> pc[t] \in {"run", "gone"}

(* The assertion of removeMethod: the range of unloaded code is known.     *)
RemoveAssertHolds == ~aborted

(* What a handler sees of the manager: the code each address resolves to,  *)
(* and the code of the object it uses.                                     *)
Index == [a \in Addrs |-> IF GetRange(rangeSet, a) = NoMethod THEN NoBlob
                          ELSE CodeOf(GetRange(rangeSet, a))]
Held == [t \in Threads |-> IF pc[t] # "use" \/ obj[t] = NoMethod THEN NoBlob
                           ELSE CodeOf(obj[t])]

Abstract == INSTANCE CodeIndex WITH Code <- Blobs, NoCode <- NoBlob,
                                    index <- Index, held <- Held

(* The locks, the two critical sections of addMethod and the range set     *)
(* implement a map that changes one whole piece of code at a time, and     *)
(* code is withdrawn only when no handler uses its object (addMethod,      *)
(* removeMethod, getMethod and its callers).                               *)
ImplementsCodeIndex == Abstract!Spec

=============================================================================

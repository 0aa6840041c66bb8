---------------------------- MODULE ContextTree ----------------------------
(***************************************************************************)
(* The calling contexts of a traced thread and the file they are written   *)
(* to.  Handlers add chains of frames under the root; a context that got   *)
(* metrics, and all its ancestors, are written when the thread ends.  The  *)
(* kernel may give the thread's id to a later thread of the process.       *)
(***************************************************************************)
EXTENDS Integers, Sequences

CONSTANTS Frames,       (* distinguishable call frames                     *)
          NoFrame,      (* the frame of the root                           *)
          MaxContexts,  (* bound: contexts of a thread, the root not in    *)
          MaxThreads    (* bound: threads that are given the same id       *)

ASSUME ContextTreeAssumption ==
    /\ NoFrame \notin Frames
    /\ MaxContexts \in Nat
    /\ MaxThreads \in Nat

Ids == 0..MaxContexts
NoId == -1

VARIABLES
    idCounter,  (* _id_counter: _context_map holds the ids below it        *)
    parent,     (* _parent of each context                                 *)
    frame,      (* _frame of each context                                  *)
    metrics,    (* contexts with metrics                                   *)
    at,         (* last_ctxt of a constructContext, 0 between two of them  *)
    phase,      (* no thread with this id, one that runs, one that ends    *)
    todo,       (* what threadEnd's loop has not visited                   *)
    dumpCtxt,   (* dump_ctxt: contexts written                             *)
    walk,       (* the ancestor threadEnd looks at                         *)
    files       (* the files named after this thread id                    *)

treeVars == <<idCounter, parent, frame, metrics, at, phase, todo, dumpCtxt, walk, files>>

TreeInit ==
    /\ idCounter = 1
    /\ parent = [c \in Ids |-> NoId]
    /\ frame = [c \in Ids |-> NoFrame]
    /\ metrics = {}
    /\ at = 0
    /\ phase = "none"
    /\ todo = {}
    /\ dumpCtxt = {}
    /\ walk = NoId
    /\ files = <<>>

(* threadStart: a tree with a root, and an output file.  A name that is    *)
(* taken gets a suffix the reader ignores.                                 *)
ThreadStart ==
    /\ phase = "none"
    /\ Len(files) < MaxThreads
    /\ phase' = "run"
    /\ idCounter' = 1
    /\ parent' = [c \in Ids |-> NoId]
    /\ frame' = [c \in Ids |-> NoFrame]
    /\ metrics' = {}
    /\ files' = Append(files, <<>>)
    /\ UNCHANGED <<at, todo, dumpCtxt, walk>>

Children(p) == {c \in 1..(idCounter - 1) : parent[c] = p}

(* The bound leaves room for the callee's frame below a first frame.       *)
Room == idCounter + (IF at = 0 THEN 1 ELSE 0) <= MaxContexts

(* Mutant: only the overload for the root looks for the child.             *)
AddContext_NoLookup(f) ==
    /\ phase = "run"
    /\ IF at = 0 /\ \E c \in Children(at) : frame[c] = f
       THEN /\ at' \in {c \in Children(at) : frame[c] = f}
            /\ UNCHANGED <<parent, frame, idCounter>>
       ELSE /\ Room
            /\ at' = idCounter
            /\ parent' = [parent EXCEPT ![idCounter] = at]
            /\ frame' = [frame EXCEPT ![idCounter] = f]
            /\ idCounter' = idCounter + 1
    /\ UNCHANGED <<metrics, phase, todo, dumpCtxt, walk, files>>

(* Find or create the child with frame f.                                  *)
AddContext(f) ==
    /\ phase = "run"
    /\ IF \E c \in Children(at) : frame[c] = f
       THEN /\ at' \in {c \in Children(at) : frame[c] = f}
            /\ UNCHANGED <<parent, frame, idCounter>>
       ELSE /\ Room
            /\ at' = idCounter
            /\ parent' = [parent EXCEPT ![idCounter] = at]
            /\ frame' = [frame EXCEPT ![idCounter] = f]
            /\ idCounter' = idCounter + 1
    /\ UNCHANGED <<metrics, phase, todo, dumpCtxt, walk, files>>

(* constructContext returns, at the callee's frame below the caller's at   *)
(* least; some of its callers record metrics.                              *)
ConstructedContext(recorded) ==
    /\ phase = "run"
    /\ at # 0
    /\ parent[at] # 0
    /\ metrics' = IF recorded THEN metrics \cup {at} ELSE metrics
    /\ at' = 0
    /\ UNCHANGED <<idCounter, parent, frame, phase, todo, dumpCtxt, walk, files>>

-----------------------------------------------------------------------------
(* threadEnd.                                                              *)

(* Mutant: the loop starts and ends one context too late.                  *)
ThreadEnd_OffByOne ==
    /\ phase = "run"
    /\ at = 0
    /\ phase' = "dump"
    /\ todo' = 1..idCounter
    /\ dumpCtxt' = {}
    /\ walk' = NoId
    /\ UNCHANGED <<idCounter, parent, frame, metrics, at, files>>

ThreadEnd ==
    /\ phase = "run"
    /\ at = 0
    /\ phase' = "dump"
    /\ todo' = 0..(idCounter - 1)
    /\ dumpCtxt' = {}
    /\ walk' = NoId
    /\ UNCHANGED <<idCounter, parent, frame, metrics, at, files>>

Write(c) ==
    /\ dumpCtxt' = dumpCtxt \cup {c}
    /\ files' = [files EXCEPT ![Len(files)] =
                    Append(@, [id |-> c, parent |-> parent[c], frame |-> frame[c]])]
    /\ walk' = parent[c]

(* The map is unordered: any context may come next.                        *)
VisitContext(c) ==
    /\ phase = "dump"
    /\ walk = NoId
    /\ c \in todo
    /\ todo' = todo \ {c}
    /\ IF c \in metrics \ dumpCtxt THEN Write(c)
       ELSE UNCHANGED <<dumpCtxt, files, walk>>
    /\ UNCHANGED <<idCounter, parent, frame, metrics, at, phase>>

(* Mutant: the walk goes on through contexts that were written.            *)
WalkParent_Again ==
    /\ phase = "dump"
    /\ walk # NoId
    /\ Write(walk)
    /\ UNCHANGED <<idCounter, parent, frame, metrics, at, phase, todo>>

(* Up to the first ancestor that is written already.                       *)
WalkParent ==
    /\ phase = "dump"
    /\ walk # NoId
    /\ IF walk \in dumpCtxt THEN walk' = NoId /\ UNCHANGED <<dumpCtxt, files>>
                            ELSE Write(walk)
    /\ UNCHANGED <<idCounter, parent, frame, metrics, at, phase, todo>>

ThreadGone ==
    /\ phase = "dump"
    /\ todo = {}
    /\ walk = NoId
    /\ phase' = "none"
    /\ UNCHANGED <<idCounter, parent, frame, metrics, at, todo, dumpCtxt, walk, files>>

TreeNext ==
    \/ ThreadStart
    \/ \E f \in Frames : AddContext(f)
    \/ \E recorded \in BOOLEAN : ConstructedContext(recorded)
    \/ ThreadEnd
    \/ \E c \in Ids : VisitContext(c)
    \/ WalkParent
    \/ ThreadGone

-----------------------------------------------------------------------------
(* Properties.                                                             *)

Nodes == [id : Ids, parent : Ids \cup {NoId}, frame : Frames \cup {NoFrame}]

(* Every variable of the tree and its writer keeps its shape.              *)
TreeTypeOK ==
    /\ idCounter \in 1..(MaxContexts + 1)
    /\ parent \in [Ids -> Ids \cup {NoId}]
    /\ frame \in [Ids -> Frames \cup {NoFrame}]
    /\ metrics \subseteq Ids
    /\ at \in Ids
    /\ phase \in {"none", "run", "dump"}
    /\ todo \subseteq Ids
    /\ dumpCtxt \subseteq Ids
    /\ walk \in Ids \cup {NoId}
    /\ files \in Seq(Seq(Nodes))

(* One call path is one context: no two children of a context have the     *)
(* same frame, however often and in whatever order paths are added         *)
(* (ContextTree::addContext).                                              *)
SiblingsDistinct ==
    \A c, d \in 1..(idCounter - 1) : parent[c] = parent[d] /\ frame[c] = frame[d] => c = d

(* When the thread is gone its file holds the contexts with metrics and    *)
(* all their ancestors, every one once, although the walks from different  *)
(* contexts share ancestors and each stops at the first one that is        *)
(* written (Profiler::threadEnd).                                          *)
FileIsSubtree ==
    phase = "none" /\ files # <<>> =>
      LET f   == files[Len(files)]
          ids == {f[i].id : i \in 1..Len(f)}
      IN  /\ metrics \subseteq ids
          /\ \A c \in ids : c # 0 => parent[c] \in ids
          /\ \A c \in ids \ metrics : \E d \in ids : parent[d] = c
          /\ \A i, j \in 1..Len(f) : f[i].id = f[j].id => i = j

=============================================================================

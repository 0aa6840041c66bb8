--------------------------- MODULE OfflineReader ---------------------------
(***************************************************************************)
(* How the offline scripts read the context files of one thread id back.   *)
(* HomoXMLParser gives the file to one producer and a number of consumers  *)
(* that put the parsed nodes under a common root in the order they happen  *)
(* to finish; the worker manager runs a task itself when it has no worker  *)
(* left.  load_context then rebuilds the tree from nodes in any order.     *)
(***************************************************************************)
EXTENDS Integers, Sequences, FiniteSets

CONSTANTS Frames, NoFrame,
          MaxContexts,   (* context ids are 0..MaxContexts                 *)
          NumConsumers,  (* consumers per file                             *)
          MaxWorkers     (* bound: worker threads, at most                 *)

Ids == 0..MaxContexts
NoId == -1
Producer == 0
Consumers == 1..NumConsumers
Tasks == 0..NumConsumers
NoTask == -1

VARIABLES
    files,         (* the input: one sequence of nodes per file            *)
    truncated,     (* external: the last node of the last file is cut off  *)
    maxWorkers,    (* external: one less than the number of processors     *)
    fileNo,        (* the file being parsed                                *)
    assigned,      (* tasks handed to assignWork                           *)
    active,        (* _active_worker_list                                  *)
    master,        (* the task the manager runs itself                     *)
    pc,            (* where each task is                                   *)
    next,          (* the node the producer cuts out next                  *)
    queue,         (* _level_one_str_queue                                 *)
    producerDone,  (* _producer_work_done                                  *)
    held,          (* the node each consumer parses                        *)
    parsed,        (* the children of HomoXMLParser's root                 *)
    children,      (* the children of parallel1's root                     *)
    stage,         (* what the scripts are doing                           *)
    loaded,        (* children given to addContext                         *)
    contextDict,   (* _context_dict: the frame of each known id            *)
    rootSet,       (* _root_set                                            *)
    parentRoot,    (* _parent_root_dict, as positions in children          *)
    childIds       (* _children_id_set of each known context               *)

parseVars == <<fileNo, assigned, active, master, pc, next, queue, producerDone, held, parsed>>
loadVars == <<loaded, contextDict, rootSet, parentRoot, childIds>>
input == <<files, truncated, maxWorkers>>

NoNode == [id |-> NoId, parent |-> NoId, frame |-> NoFrame]
Unknown == "unknown"

ReaderInit ==
    /\ truncated \in BOOLEAN
    /\ maxWorkers \in 0..MaxWorkers
    /\ fileNo = 1
    /\ assigned = 0
    /\ active = {}
    /\ master = NoTask
    /\ pc = [t \in Tasks |-> "idle"]
    /\ next = 1
    /\ queue = <<>>
    /\ producerDone = FALSE
    /\ held = [t \in Consumers |-> NoNode]
    /\ parsed = <<>>
    /\ children = <<>>
    /\ stage = "parse"
    /\ loaded = 0
    /\ contextDict = [c \in Ids |-> Unknown]
    /\ rootSet = {}
    /\ parentRoot = [c \in Ids \cup {NoId} |-> {}]
    /\ childIds = [c \in Ids |-> {}]

File == files[fileNo]

-----------------------------------------------------------------------------
(* The worker manager, on the main thread.                                 *)

AssignWork ==
    /\ stage = "parse"
    /\ master = NoTask
    /\ assigned <= NumConsumers
    /\ assigned' = assigned + 1
    /\ pc' = [pc EXCEPT ![assigned] = "loop"]
    /\ IF Cardinality(active) >= maxWorkers
       THEN master' = assigned /\ UNCHANGED active
       ELSE active' = active \cup {assigned} /\ UNCHANGED master
    /\ UNCHANGED <<input, fileNo, next, queue, producerDone, held, parsed, children, stage,
                   loadVars>>

(* The routine of a task returned.                                         *)
WorkerFinish(t) ==
    /\ pc[t] = "finish"
    /\ pc' = [pc EXCEPT ![t] = "idle"]
    /\ IF master = t THEN master' = NoTask /\ UNCHANGED active
                     ELSE active' = active \ {t} /\ UNCHANGED master
    /\ UNCHANGED <<input, fileNo, assigned, next, queue, producerDone, held, parsed, children,
                   stage, loadVars>>

(* finish: no worker is active.  parallel1 goes on to the next file.       *)
FinishFile ==
    /\ stage = "parse"
    /\ assigned > NumConsumers
    /\ master = NoTask
    /\ active = {}
    /\ children' = children \o parsed
    /\ parsed' = <<>>
    /\ fileNo' = fileNo + 1
    /\ assigned' = 0
    /\ next' = 1
    /\ queue' = <<>>
    /\ producerDone' = FALSE
    /\ stage' = IF fileNo < Len(files) THEN "parse"
                ELSE IF children' = <<>> THEN "done" ELSE "load"
    /\ UNCHANGED <<input, active, master, pc, held, loadVars>>

-----------------------------------------------------------------------------
(* The producer.                                                           *)

CutOff(n) == truncated /\ fileNo = Len(files) /\ n = Len(File)

ProducerPut ==
    /\ pc[Producer] = "loop"
    /\ next <= Len(File)
    /\ ~CutOff(next)
    /\ queue' = Append(queue, File[next])
    /\ next' = next + 1
    /\ UNCHANGED <<input, fileNo, assigned, active, master, pc, producerDone, held, parsed,
                   children, stage, loadVars>>

(* No close tag: the exception ends the thread before its finish callback, *)
(* or the scripts when the manager runs the producer.                      *)
ProducerRaises ==
    /\ pc[Producer] = "loop"
    /\ next <= Len(File)
    /\ CutOff(next)
    /\ pc' = [pc EXCEPT ![Producer] = "dead"]
    /\ stage' = IF master = Producer THEN "failed" ELSE stage
    /\ UNCHANGED <<input, fileNo, assigned, active, master, next, queue, producerDone, held,
                   parsed, children, loadVars>>

(* Mutant: the flag is set when the last node is still to be put.          *)
ProducerDone_Early ==
    /\ pc[Producer] = "loop"
    /\ next >= Len(File)
    /\ producerDone' = TRUE
    /\ pc' = [pc EXCEPT ![Producer] = "finish"]
    /\ UNCHANGED <<input, fileNo, assigned, active, master, next, queue, held, parsed, children,
                   stage, loadVars>>

(* Mutant: the flag is never set.                                          *)
ProducerDone_Forgotten ==
    /\ pc[Producer] = "loop"
    /\ next > Len(File)
    /\ pc' = [pc EXCEPT ![Producer] = "finish"]
    /\ UNCHANGED <<input, fileNo, assigned, active, master, next, queue, producerDone, held,
                   parsed, children, stage, loadVars>>

ProducerDone ==
    /\ pc[Producer] = "loop"
    /\ next > Len(File)
    /\ producerDone' = TRUE
    /\ pc' = [pc EXCEPT ![Producer] = "finish"]
    /\ UNCHANGED <<input, fileNo, assigned, active, master, next, queue, held, parsed, children,
                   stage, loadVars>>

-----------------------------------------------------------------------------
(* A consumer: the two halves of its loop test, get_nowait, addChild.      *)

ConsumerGoto(t, from, to) ==
    /\ pc[t] = from
    /\ pc' = [pc EXCEPT ![t] = to]
    /\ UNCHANGED <<input, fileNo, assigned, active, master, next, producerDone, children, stage,
                   loadVars>>

ConsumerTestDone(t) ==
    /\ ConsumerGoto(t, "loop", IF producerDone THEN "test" ELSE "get")
    /\ UNCHANGED <<queue, held, parsed>>

ConsumerTestEmpty(t) ==
    /\ ConsumerGoto(t, "test", IF queue = <<>> THEN "finish" ELSE "get")
    /\ UNCHANGED <<queue, held, parsed>>

(* Another consumer may have been faster: queue.Empty, sleep, try again.   *)
ConsumerGet(t) ==
    /\ ConsumerGoto(t, "get", IF queue = <<>> THEN "loop" ELSE "add")
    /\ IF queue = <<>> THEN UNCHANGED <<queue, held>>
       ELSE held' = [held EXCEPT ![t] = Head(queue)] /\ queue' = Tail(queue)
    /\ UNCHANGED parsed

ConsumerAdd(t) ==
    /\ ConsumerGoto(t, "add", "loop")
    /\ parsed' = Append(parsed, held[t])
    /\ held' = [held EXCEPT ![t] = NoNode]
    /\ UNCHANGED queue

-----------------------------------------------------------------------------
(* load_context.                                                           *)

Id(p) == children[p].id

(* Mutant: the adopted orphans keep waiting.                               *)
Waiting_Kept(n) == parentRoot

(* Who waits once n is there.                                              *)
Waiting(n) == [parentRoot EXCEPT ![n.id] = {}]

(* Mutant: the orphans leave the roots but get no parent.                  *)
Adopt_Lost(n) == [childIds EXCEPT ![n.id] = {}]

(* n replaces a context of its id and takes over the orphans.              *)
Adopt(n) == [childIds EXCEPT ![n.id] = {Id(q) : q \in parentRoot[n.id]}]

(* addContext on the next node.  Orphans wait under the id of the parent   *)
(* they miss; set.remove raises on an orphan that is no longer a root.     *)
AddContext ==
    LET p       == loaded + 1
        n       == children[p]
        orphans == parentRoot[n.id]
        roots   == rootSet \ {Id(q) : q \in orphans}
        raises  == \/ \E q \in orphans : Id(q) \notin rootSet
                   \/ \E q, r \in orphans : q # r /\ Id(q) = Id(r)
        known   == n.parent # NoId /\ contextDict'[n.parent] # Unknown
    IN  /\ stage = "load"
        /\ loaded < Len(children)
        /\ loaded' = p
        /\ IF n.id = 0 /\ contextDict[0] # Unknown
           THEN UNCHANGED <<contextDict, rootSet, parentRoot, childIds, stage>>
           ELSE /\ contextDict' = [contextDict EXCEPT ![n.id] = n.frame]
                /\ stage' = IF raises THEN "failed" ELSE "load"
                /\ IF known
                   THEN /\ childIds' = [Adopt(n) EXCEPT ![n.parent] = @ \cup {n.id}]
                        /\ rootSet' = roots
                        /\ parentRoot' = Waiting(n)
                   ELSE /\ childIds' = Adopt(n)
                        /\ rootSet' = roots \cup {n.id}
                        /\ parentRoot' = [Waiting(n) EXCEPT ![n.parent] = @ \cup {p}]
        /\ UNCHANGED <<input, parseVars, children>>

(* The assertion that one root is left.                                    *)
LoadDone ==
    /\ stage = "load"
    /\ loaded = Len(children)
    /\ stage' = IF Cardinality(rootSet) = 1 THEN "done" ELSE "failed"
    /\ UNCHANGED <<input, parseVars, children, loadVars>>

-----------------------------------------------------------------------------
Main == AssignWork \/ FinishFile \/ AddContext \/ LoadDone

Task(t) ==
    /\ stage = "parse"
    /\ \/ WorkerFinish(t)
       \/ t = Producer /\ (ProducerPut \/ ProducerRaises \/ ProducerDone)
       \/ /\ t \in Consumers
          /\ \/ ConsumerTestDone(t)
             \/ ConsumerTestEmpty(t)
             \/ ConsumerGet(t)
             \/ ConsumerAdd(t)

ReaderNext == Main \/ \E t \in Tasks : Task(t)

-----------------------------------------------------------------------------
(* Properties.                                                             *)

Nodes == [id : Ids, parent : Ids \cup {NoId}, frame : Frames \cup {NoFrame}]

(* Every variable of the reader keeps its shape.                           *)
ReaderTypeOK ==
    /\ fileNo \in Nat
    /\ assigned \in 0..(NumConsumers + 1)
    /\ active \subseteq Tasks
    /\ master \in Tasks \cup {NoTask}
    /\ pc \in [Tasks -> {"idle", "loop", "test", "get", "add", "finish", "dead"}]
    /\ next \in Nat
    /\ queue \in Seq(Nodes)
    /\ producerDone \in BOOLEAN
    /\ held \in [Consumers -> Nodes \cup {NoNode}]
    /\ parsed \in Seq(Nodes)
    /\ children \in Seq(Nodes)
    /\ stage \in {"parse", "load", "done", "failed"}
    /\ loaded \in 0..Len(children)
    /\ contextDict \in [Ids -> Frames \cup {NoFrame, Unknown}]
    /\ rootSet \subseteq Ids
    /\ parentRoot \in [Ids \cup {NoId} -> SUBSET (1..Len(children))]
    /\ childIds \in [Ids -> SUBSET Ids]

InFiles == {x \in (1..Len(files)) \X (1..(MaxContexts + 1)) : x[2] <= Len(files[x[1]])}

(* Whatever the consumers do to each other, the tree is built from every   *)
(* node of the files and from each of them once; in particular a file that *)
(* ends inside a node never yields a tree without that node                *)
(* (HomoXMLParser, WorkerManager).                                         *)
NodesParsedOnce ==
    stage \in {"load", "done"} =>
      /\ Len(children) = Cardinality(InFiles)
      /\ \A n \in Nodes : Cardinality({p \in 1..Len(children) : children[p] = n})
                             = Cardinality({x \in InFiles : files[x[1]][x[2]] = n})

(* In whatever order the nodes arrive, load_context ends with the tree     *)
(* that was written: every context under its own id and frame, below its   *)
(* own parent, and the profiler's root the only root                       *)
(* (ContextManager.addContext).                                            *)
TreeRebuilt ==
    stage = "done" /\ children # <<>> =>
      /\ rootSet = {0}
      /\ \A p \in 1..Len(children) : contextDict[Id(p)] = children[p].frame
      /\ \A c \in Ids :
            childIds[c] = {Id(p) : p \in {q \in 1..Len(children) : children[q].parent = c}}

(* All the ids that wait for a parent are the roots, every one once.       *)
RootListsMatch ==
    stage # "failed" =>
      LET waiting == UNION {parentRoot[c] : c \in DOMAIN parentRoot}
      IN  /\ rootSet = {Id(p) : p \in waiting}
          /\ Cardinality(rootSet) = Cardinality(waiting)

=============================================================================

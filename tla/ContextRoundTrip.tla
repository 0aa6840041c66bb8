-------------------------- MODULE ContextRoundTrip --------------------------
(***************************************************************************)
(* From the contexts of a thread to the tree the offline scripts work on:  *)
(* the agent writes its files, then the reader reads them back.            *)
(***************************************************************************)
EXTENDS ContextTree, FiniteSets

CONSTANTS NumConsumers, MaxWorkers

ASSUME RoundTripAssumption ==
    /\ NumConsumers \in Nat \ {0}
    /\ MaxWorkers \in Nat

VARIABLES
    analysing,  (* the program has ended and the scripts were started      *)
    truncated, maxWorkers, fileNo, assigned, active, master, pc, next, queue,
    producerDone, held, parsed, children, stage, loaded, contextDict,
    rootSet, parentRoot, childIds

Reader == INSTANCE OfflineReader

ASSUME SentinelAssumption == Reader!Unknown \notin Frames \cup {NoFrame}

readerVars ==
    <<truncated, maxWorkers, fileNo, assigned, active, master, pc, next, queue,
      producerDone, held, parsed, children, stage, loaded, contextDict, rootSet,
      parentRoot, childIds>>

vars == <<treeVars, analysing, readerVars>>

Init ==
    /\ TreeInit
    /\ analysing = FALSE
    /\ Reader!ReaderInit

(* The user runs process_raw_data.py where the files are.                  *)
Analyse ==
    /\ ~analysing
    /\ phase = "none"
    /\ files # <<>>
    /\ analysing' = TRUE
    /\ UNCHANGED <<treeVars, readerVars>>

Profile == ~analysing /\ TreeNext /\ UNCHANGED <<analysing, readerVars>>

Read == analysing /\ Reader!ReaderNext /\ UNCHANGED <<treeVars, analysing>>

Finished == analysing /\ stage \in {"done", "failed"} /\ UNCHANGED vars

Next == Profile \/ Analyse \/ Read \/ Finished

(* The main thread and the tasks are threads of one Python process.        *)
Fairness ==
    /\ WF_vars(Read /\ Reader!Main)
    /\ \A t \in Reader!Tasks : WF_vars(Read /\ Reader!Task(t))

Spec == Init /\ [][Next]_vars

FairSpec == Spec /\ Fairness

-----------------------------------------------------------------------------
(* Every variable of both halves keeps its shape.                          *)
TypeOK == TreeTypeOK /\ Reader!ReaderTypeOK

(* The reader's consumers deliver every context threadEnd wrote, and each  *)
(* of them once, whatever the order in which they run                      *)
(* (HomoXMLParser._parseLevelOneNodeStr).                                  *)
NodesParsedOnce == Reader!NodesParsedOnce

(* load_context ends with the tree the agent wrote, in whatever order      *)
(* threadEnd wrote the contexts and the consumers delivered them           *)
(* (ContextManager.addContext).                                            *)
TreeRebuilt == Reader!TreeRebuilt

(* At every moment of the load the ids that wait for a parent are the      *)
(* roots, every one once (_root_set and _parent_root_dict of               *)
(* ContextManager).                                                        *)
RootListsMatch == Reader!RootListsMatch

(* Context information is kept per thread: a thread that was given the id  *)
(* of an earlier one costs that one no context, so as many contexts are    *)
(* known in the end as were written, the common root aside                 *)
(* (get_all_files, ContextManager.addContext).                             *)
ContextsPerThread ==
    stage = "done" =>
      Cardinality({c \in Ids \ {0} : contextDict[c] # Reader!Unknown})
        = Cardinality({p \in 1..Len(children) : children[p].id # 0})

(* Once started on files that are complete, the scripts come to an end and *)
(* none of their assertions fails, whether the tasks run on threads of     *)
(* their own or one after the other on the main thread.                    *)
ReadTerminates == analysing /\ ~truncated ~> stage = "done"

=============================================================================

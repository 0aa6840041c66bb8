----------------------- MODULE ContextRoundTripProofs -----------------------
(***************************************************************************)
(* The whole round trip: what the reader's tasks keep while they pass the  *)
(* nodes of the files on, what load_context keeps while it rebuilds the    *)
(* tree, and the theorems for every number of contexts, reused thread ids, *)
(* consumers and workers.                                                  *)
(***************************************************************************)
EXTENDS ContextRoundTrip, ContextTreeProofs, FiniteSetTheorems, FunctionTheorems,
        WellFoundedInduction

-----------------------------------------------------------------------------
(* The inductive invariant, part by part.                                  *)

(* The scripts start when the agent has gone, from their initial state.    *)
StartInv ==
    /\ analysing \in BOOLEAN
    /\ ~analysing => Reader!ReaderInit
    /\ analysing => phase = "none" /\ files # <<>>
    /\ (stage = "parse" /\ files # <<>>) => fileNo \in 1..Len(files)
    /\ stage \in {"load", "done"} => fileNo = Len(files) + 1

(* The manager knows which tasks have not returned.                        *)
WorkersInv ==
    /\ active = {t \in Reader!Tasks : pc[t] # "idle" /\ t # master}
    /\ master # Reader!NoTask => pc[master] # "idle"
    /\ \A t \in Reader!Tasks : pc[t] # "idle" => t < assigned

(* The flag says that the producer has put every node and left its loop.   *)
ProducerInv ==
    /\ pc[0] \in {"idle", "loop", "finish", "dead"}
    /\ producerDone <=> (assigned > 0 /\ pc[0] \in {"idle", "finish"})
    /\ stage = "parse" /\ files # <<>> => next \in 1..(Len(files[fileNo]) + 1)
    /\ stage = "parse" /\ producerDone => next = Len(files[fileNo]) + 1

(* A consumer that leaves its loop leaves nothing in the queue.            *)
ConsumersInv ==
    \A t \in Reader!Consumers :
        /\ pc[t] # "dead"
        /\ pc[t] = "test" => producerDone
        /\ (pc[t] = "finish" \/ (t < assigned /\ pc[t] = "idle")) =>
              producerDone /\ queue = <<>>
        /\ pc[t] = "add" => held[t] \in Nodes

(* How many of the first k elements of s are in N.                         *)
CountTo(s, k, N) == Cardinality({i \in 1..k : s[i] \in N})

Count(s, N) == CountTo(s, Len(s), N)

(* The consumers that hold a node of N.                                    *)
HeldIn(N) == {t \in Reader!Consumers : pc[t] = "add" /\ held[t] \in N}

(* The nodes of N in the files before file k.                              *)
PastFiles(k, N) == {x \in Reader!InFiles : x[1] < k /\ files[x[1]][x[2]] \in N}

(* Of the nodes that the producer has put each is in one place, and the    *)
(* root has those of the files that were read.                             *)
Counted(N) ==
    /\ stage = "parse" =>
          Count(parsed, N) + Count(queue, N) + Cardinality(HeldIn(N))
             = CountTo(files[fileNo], next - 1, N)
    /\ Count(children, N) = Cardinality(PastFiles(fileNo, N))

CountInv == \A N \in SUBSET Nodes : Counted(N)

(* The children make a tree; one that has the id of an earlier child comes *)
(* after the parent of that one; one file alone has no id twice.           *)
ChildrenInv ==
    /\ SubtreeFile(children)
    /\ \A p, q \in 1..Len(children) :
          (p < q /\ children[p].id = children[q].id /\ children[p].id # 0) =>
              \E r \in 1..(q - 1) : children[r].id = children[p].parent
    /\ fileNo = 1 => children = <<>>
    /\ fileNo = 2 => \A p, q \in 1..Len(children) : children[p].id = children[q].id => p = q

Known(c) == \E p \in 1..loaded : children[p].id = c

(* The child at p has no parent yet; of the roots the first one counts.    *)
Waits(p) ==
    IF children[p].id = 0 THEN \A q \in 1..(p - 1) : children[q].id # 0
                          ELSE ~Known(children[p].parent)

(* What load_context's dictionaries say of the children it has seen.       *)
LoadInv ==
    /\ \A c \in Ids : contextDict[c] # Reader!Unknown <=> Known(c)
    /\ \A c \in Ids \cup {NoId} :
          parentRoot[c] = {p \in 1..loaded : children[p].parent = c /\ Waits(p)}
    /\ rootSet = {children[p].id : p \in {q \in 1..loaded : Waits(q)}}
    /\ stage = "parse" => loaded = 0
    /\ stage = "done" => loaded = Len(children)

(* What they say when no id occurs twice.                                  *)
RebuildInv ==
    fileNo <= 2 =>
      /\ \A p \in 1..loaded : contextDict[children[p].id] = children[p].frame
      /\ \A c \in Ids :
            childIds[c] = IF Known(c)
                          THEN {children[p].id : p \in {q \in 1..loaded : children[q].parent = c}}
                          ELSE {}

(* The scripts fail on a file that is cut off, and on nothing else.        *)
FailInv == stage = "failed" => truncated /\ files # <<>> /\ files[Len(files)] # <<>>

(* There is something to load.                                             *)
NonEmptyLoad == stage = "load" => children # <<>>

IInv ==
    /\ TreeInv
    /\ Reader!ReaderTypeOK
    /\ StartInv
    /\ WorkersInv
    /\ ProducerInv
    /\ ConsumersInv
    /\ CountInv
    /\ ChildrenInv
    /\ LoadInv
    /\ RebuildInv
    /\ FailInv
    /\ NonEmptyLoad

-----------------------------------------------------------------------------
(* Counting.                                                               *)

(* The reader's instance of FiniteSets counts as this module's does.       *)
LEMMA SameCardinal == ASSUME NEW S PROVE Reader!Cardinality(S) = Cardinality(S)
  BY DEF Reader!Cardinality, Cardinality

(* The first n numbers are n.                                              *)
LEMMA UpTo == ASSUME NEW n \in Nat PROVE IsFiniteSet(1..n) /\ Cardinality(1..n) = n
  BY FS_Interval

(* An injective function keeps the cardinality.                            *)
LEMMA SameCardinality ==
    ASSUME NEW S, NEW T, IsFiniteSet(S), NEW f \in [S -> T],
           \A a, b \in S : f[a] = f[b] => a = b,
           \A t \in T : \E s \in S : f[s] = t
    PROVE  IsFiniteSet(T) /\ Cardinality(T) = Cardinality(S)
<1>1. f \in Injection(S, T)
  BY Fun_IsInj
<1>2. f \in Surjection(S, T)
  BY DEF Surjection
<1>3. ExistsBijection(S, T)
  BY <1>1, <1>2 DEF ExistsBijection, Bijection
<1> QED
  BY <1>3, FS_Bijection

(* Two finite sets that share nothing.                                     *)
LEMMA DisjointUnion ==
    ASSUME NEW S, NEW T, IsFiniteSet(S), IsFiniteSet(T), S \cap T = {}
    PROVE  /\ IsFiniteSet(S \cup T)
           /\ Cardinality(S \cup T) = Cardinality(S) + Cardinality(T)
<1>1. Cardinality(S) \in Nat /\ Cardinality(T) \in Nat
  BY FS_CardinalityType
<1>2. Cardinality(S \cap T) = 0
  BY FS_EmptySet
<1>3. /\ IsFiniteSet(S \cup T)
      /\ Cardinality(S \cup T) = Cardinality(S) + Cardinality(T) - Cardinality(S \cap T)
  BY FS_Union
<1> QED
  BY <1>1, <1>2, <1>3

(* Counts are natural numbers, of finite sets.                             *)
LEMMA CountType ==
    ASSUME NEW s, NEW k \in Nat, NEW N
    PROVE  /\ IsFiniteSet({i \in 1..k : s[i] \in N})
           /\ CountTo(s, k, N) \in Nat
<1>1. IsFiniteSet(1..k)
  BY FS_Interval
<1>2. IsFiniteSet({i \in 1..k : s[i] \in N})
  BY <1>1, FS_Subset
<1> QED
  BY <1>2, FS_CardinalityType DEF CountTo

(* Nothing counts nothing.                                                 *)
LEMMA CountZero == ASSUME NEW s, NEW N PROVE CountTo(s, 0, N) = 0
<1>1. {i \in 1..0 : s[i] \in N} = {}
  OBVIOUS
<1> QED
  BY <1>1, FS_EmptySet DEF CountTo

(* One element more.                                                       *)
LEMMA CountNext ==
    ASSUME NEW s, NEW k \in Nat, NEW N
    PROVE  CountTo(s, k + 1, N) = CountTo(s, k, N) + (IF s[k + 1] \in N THEN 1 ELSE 0)
<1> DEFINE S == {i \in 1..k : s[i] \in N}
           T == {i \in 1..(k + 1) : s[i] \in N}
<1>1. IsFiniteSet(S) /\ Cardinality(S) \in Nat
  BY CountType DEF CountTo
<1>2. CASE s[k + 1] \in N
  <2>1. T = S \cup {k + 1} /\ (k + 1) \notin S
    BY <1>2
  <2>2. Cardinality(T) = Cardinality(S) + 1
    BY <1>1, <2>1, FS_AddElement
  <2> QED
    BY <1>2, <2>2 DEF CountTo
<1>3. CASE s[k + 1] \notin N
  <2>1. T = S
    BY <1>3
  <2> QED
    BY <1>1, <1>3, <2>1 DEF CountTo
<1> QED
  BY <1>2, <1>3

(* Counts look at the elements they count only.                            *)
LEMMA CountSame ==
    ASSUME NEW s, NEW t, NEW k \in Nat, NEW N, \A i \in 1..k : s[i] = t[i]
    PROVE  CountTo(s, k, N) = CountTo(t, k, N)
<1>1. {i \in 1..k : s[i] \in N} = {i \in 1..k : t[i] \in N}
  OBVIOUS
<1> QED
  BY <1>1 DEF CountTo

(* An element at the end.                                                  *)
LEMMA CountAppend ==
    ASSUME NEW D, NEW s \in Seq(D), NEW e \in D, NEW N
    PROVE  Count(Append(s, e), N) = Count(s, N) + (IF e \in N THEN 1 ELSE 0)
<1> DEFINE t == Append(s, e)
<1>1. /\ Len(s) \in Nat /\ Len(t) = Len(s) + 1 /\ t[Len(s) + 1] = e
      /\ \A i \in 1..Len(s) : t[i] = s[i]
  OBVIOUS
<1> HIDE DEF t
<1>2. CountTo(t, Len(s), N) = CountTo(s, Len(s), N)
  BY <1>1, CountSame
<1>3. CountTo(t, Len(s) + 1, N) = CountTo(t, Len(s), N) + (IF t[Len(s) + 1] \in N THEN 1 ELSE 0)
  BY <1>1, CountNext
<1> QED
  BY <1>1, <1>2, <1>3 DEF Count, t

(* One sequence behind another.                                            *)
LEMMA CountConcat ==
    ASSUME NEW D, NEW s \in Seq(D), NEW t \in Seq(D), NEW N
    PROVE  Count(s \o t, N) = Count(s, N) + Count(t, N)
<1> DEFINE u == s \o t
           S == {i \in 1..Len(s) : s[i] \in N}
           T == {i \in 1..Len(t) : t[i] \in N}
           R == {i \in (Len(s) + 1)..(Len(s) + Len(t)) : u[i] \in N}
           f == [i \in T |-> Len(s) + i]
<1>1. /\ Len(s) \in Nat /\ Len(t) \in Nat /\ Len(u) = Len(s) + Len(t)
      /\ \A i \in 1..Len(s) : u[i] = s[i]
      /\ \A i \in 1..Len(t) : u[Len(s) + i] = t[i]
  OBVIOUS
<1> HIDE DEF u
<1>2. {i \in 1..Len(u) : u[i] \in N} = S \cup R
  <2> DEFINE I == 1..Len(s)
             J == (Len(s) + 1)..(Len(s) + Len(t))
  <2>1. 1..Len(u) = I \cup J
    BY <1>1
  <2>2. /\ \A i \in I : u[i] = s[i]
        /\ S = {i \in I : s[i] \in N} /\ R = {i \in J : u[i] \in N}
    BY <1>1
  <2> HIDE DEF I, J, S, R
  <2> QED
    BY <2>1, <2>2, Zenon
<1>3. IsFiniteSet(S) /\ IsFiniteSet(T)
  <2>1. IsFiniteSet(1..Len(s)) /\ IsFiniteSet(1..Len(t))
    BY <1>1, UpTo
  <2>2. S \subseteq 1..Len(s) /\ T \subseteq 1..Len(t)
    OBVIOUS
  <2> QED
    BY <2>1, <2>2, FS_Subset, Zenon
<1>4. IsFiniteSet(R) /\ Cardinality(R) = Cardinality(T)
  <2>1. f \in [T -> R]
    BY <1>1
  <2>2. \A a, b \in T : f[a] = f[b] => a = b
    BY <1>1
  <2>3. ASSUME NEW j \in R PROVE \E i \in T : f[i] = j
    <3>1. /\ j - Len(s) \in 1..Len(t) /\ j = Len(s) + (j - Len(s))
      BY <1>1
    <3>2. t[j - Len(s)] \in N
      BY <1>1, <3>1
    <3> QED
      BY <3>1, <3>2
  <2> HIDE DEF f, T, R
  <2> QED
    BY <1>3, <2>1, <2>2, <2>3, SameCardinality
<1>5. S \cap R = {}
  BY <1>1
<1> HIDE DEF S, T, R
<1>6. Cardinality(S \cup R) = Cardinality(S) + Cardinality(R)
  BY <1>3, <1>4, <1>5, DisjointUnion
<1> QED
  BY <1>2, <1>4, <1>6 DEF Count, CountTo, S, T, u

(* An element taken from the front.                                        *)
LEMMA CountTail ==
    ASSUME NEW D, NEW s \in Seq(D), s # <<>>, NEW N
    PROVE  Count(s, N) = Count(Tail(s), N) + (IF Head(s) \in N THEN 1 ELSE 0)
<1> DEFINE e == <<Head(s)>>
<1>1. /\ e \in Seq(D) /\ Tail(s) \in Seq(D) /\ s = e \o Tail(s)
      /\ Len(e) = 1 /\ e[1] = Head(s)
  OBVIOUS
<1> HIDE DEF e
<1>2. Count(s, N) = Count(e, N) + Count(Tail(s), N)
  <2>1. Count(e \o Tail(s), N) = Count(e, N) + Count(Tail(s), N)
    BY ONLY <1>1, CountConcat, Zenon
  <2> QED
    BY <1>1, <2>1, Zenon
<1>3. CountTo(e, 0 + 1, N) = CountTo(e, 0, N) + (IF e[0 + 1] \in N THEN 1 ELSE 0)
  BY CountNext
<1>4. CountTo(e, 0, N) = 0
  BY CountZero
<1>5. Count(e, N) = IF Head(s) \in N THEN 1 ELSE 0
  BY <1>1, <1>3, <1>4 DEF Count
<1>6. Len(Tail(s)) \in Nat
  BY <1>1
<1>7. Count(Tail(s), N) \in Nat
  BY <1>6, CountType DEF Count
<1> QED
  BY <1>2, <1>5, <1>7

(* A count is positive when there is something to count ...                *)
LEMMA CountSome ==
    ASSUME NEW s, NEW k \in Nat, NEW N
    PROVE  CountTo(s, k, N) # 0 <=> \E i \in 1..k : s[i] \in N
<1> DEFINE S == {i \in 1..k : s[i] \in N}
<1>1. IsFiniteSet(S)
  BY CountType
<1>2. Cardinality(S) = 0 <=> S = {}
  BY <1>1, FS_EmptySet
<1> QED
  BY <1>2 DEF CountTo

(* ... and at most one when nothing is there to count twice.               *)
LEMMA CountOne ==
    ASSUME NEW s, NEW k \in Nat, NEW N
    PROVE  CountTo(s, k, N) \in {0, 1} <=>
              \A i, j \in 1..k : (s[i] \in N /\ s[j] \in N) => i = j
<1> DEFINE S == {i \in 1..k : s[i] \in N}
<1>1. IsFiniteSet(S)
  BY CountType
<1>2. Cardinality(S) = 0 <=> S = {}
  BY <1>1, FS_EmptySet
<1>3. Cardinality(S) = 1 <=> \E x : S = {x}
  BY <1>1, FS_Singleton
<1>4. (S = {} \/ \E x : S = {x}) <=> \A i, j \in S : i = j
  OBVIOUS
<1> QED
  BY <1>2, <1>3, <1>4 DEF CountTo

(* Sequences with the same counts have the same elements ...               *)
LEMMA SameCountsElements ==
    ASSUME NEW s \in Seq(Nodes), NEW t \in Seq(Nodes),
           \A N \in SUBSET Nodes : Count(s, N) = Count(t, N),
           NEW i \in 1..Len(s)
    PROVE  \E j \in 1..Len(t) : t[j] = s[i]
<1> DEFINE N == {s[i]}
<1>1. Len(s) \in Nat /\ Len(t) \in Nat /\ N \in SUBSET Nodes
  OBVIOUS
<1>2. CountTo(s, Len(s), N) # 0
  BY <1>1, CountSome
<1>3. CountTo(t, Len(t), N) # 0
  BY <1>1, <1>2 DEF Count
<1>4. \E j \in 1..Len(t) : t[j] \in N
  BY <1>1, <1>3, CountSome
<1> QED
  BY <1>4

(* ... and if one has no id twice, neither has the other.                  *)
LEMMA SameCountsDistinct ==
    ASSUME NEW s \in Seq(Nodes), NEW t \in Seq(Nodes),
           \A N \in SUBSET Nodes : Count(s, N) = Count(t, N),
           \A i, j \in 1..Len(t) : t[i].id = t[j].id => i = j,
           NEW i \in 1..Len(s), NEW j \in 1..Len(s), s[i].id = s[j].id
    PROVE  i = j
<1> DEFINE N == {n \in Nodes : n.id = s[i].id}
<1>1. Len(s) \in Nat /\ Len(t) \in Nat /\ N \in SUBSET Nodes
  OBVIOUS
<1>2. \A x, y \in 1..Len(t) : (t[x] \in N /\ t[y] \in N) => x = y
  OBVIOUS
<1>3. s[i] \in N /\ s[j] \in N
  OBVIOUS
<1> HIDE DEF N
<1>4. CountTo(t, Len(t), N) \in {0, 1}
  BY <1>1, <1>2, CountOne
<1>5. CountTo(s, Len(s), N) \in {0, 1}
  BY <1>1, <1>4 DEF Count
<1>6. \A x, y \in 1..Len(s) : (s[x] \in N /\ s[y] \in N) => x = y
  BY <1>1, <1>5, CountOne
<1> QED
  BY <1>3, <1>6

-----------------------------------------------------------------------------
(* The files.                                                              *)

(* No file has more nodes than there are ids.                              *)
LEMMA FileLength ==
    ASSUME TreeInv, NEW k \in 1..Len(files)
    PROVE  /\ files[k] \in Seq(Nodes)
           /\ Len(files[k]) \in 0..(MaxContexts + 1)
<1>1. files \in Seq(Seq(Nodes)) /\ FilesDistinct
  BY DEF TreeInv, TreeTypeOK
<1>2. files[k] \in Seq(Nodes)
  BY <1>1
<1> DEFINE f == [i \in 1..Len(files[k]) |-> files[k][i].id]
<1>3. f \in [1..Len(files[k]) -> Ids]
  <2>1. ASSUME NEW i \in 1..Len(files[k]) PROVE files[k][i].id \in Ids
    <3>1. files[k][i] \in Nodes
      BY <1>2
    <3> QED
      BY <3>1 DEF Nodes
  <2> QED
    BY <2>1
<1>4. \A a, b \in 1..Len(files[k]) : f[a] = f[b] => a = b
  BY <1>1 DEF FilesDistinct
<1> HIDE DEF f
<1>5. f \in Injection(1..Len(files[k]), Ids)
  BY <1>3, <1>4, Fun_IsInj
<1>6. IsFiniteSet(Ids) /\ Cardinality(Ids) = MaxContexts + 1
  BY FS_Interval, ContextTreeAssumption DEF Ids
<1>7. Cardinality(1..Len(files[k])) <= MaxContexts + 1
  BY <1>5, <1>6, FS_Injection
<1>8. Len(files[k]) \in Nat
  BY <1>2
<1>9. Cardinality(1..Len(files[k])) = Len(files[k])
  BY <1>8, UpTo
<1> QED
  BY <1>2, <1>7, <1>8, <1>9, ContextTreeAssumption

(* The nodes of the files are finitely many.                               *)
LEMMA PastFilesFinite ==
    ASSUME TreeInv, NEW k, NEW N PROVE IsFiniteSet(PastFiles(k, N))
<1>1. Len(files) \in Int /\ MaxContexts + 1 \in Int
  BY ContextTreeAssumption DEF TreeInv, TreeTypeOK
<1>2. IsFiniteSet(1..Len(files)) /\ IsFiniteSet(1..(MaxContexts + 1))
  BY <1>1, FS_Interval
<1>3. IsFiniteSet((1..Len(files)) \X (1..(MaxContexts + 1)))
  BY <1>2, FS_Product
<1>4. PastFiles(k, N) \subseteq (1..Len(files)) \X (1..(MaxContexts + 1))
  BY DEF PastFiles, Reader!InFiles
<1> QED
  BY <1>3, <1>4, FS_Subset

(* There is no file before the first.                                      *)
LEMMA PastFilesFirst == ASSUME NEW N PROVE Cardinality(PastFiles(1, N)) = 0
<1>1. PastFiles(1, N) = {}
  BY DEF PastFiles, Reader!InFiles
<1> QED
  BY <1>1, FS_EmptySet

(* A file more.                                                            *)
LEMMA PastFilesNext ==
    ASSUME TreeInv, NEW k \in 1..Len(files), NEW N
    PROVE  Cardinality(PastFiles(k + 1, N))
              = Cardinality(PastFiles(k, N)) + Count(files[k], N)
<1> DEFINE S == {i \in 1..Len(files[k]) : files[k][i] \in N}
           R == {x \in Reader!InFiles : x[1] = k /\ files[x[1]][x[2]] \in N}
           f == [i \in S |-> <<k, i>>]
<1>1. Len(files[k]) \in 0..(MaxContexts + 1) /\ Len(files) \in Nat /\ MaxContexts \in Nat
  BY FileLength, ContextTreeAssumption DEF TreeInv, TreeTypeOK
<1>2. IsFiniteSet(S)
  <2>1. Len(files[k]) \in Nat
    BY <1>1
  <2> QED
    BY <2>1, CountType
<1>3. f \in [S -> R]
  <2>1. ASSUME NEW i \in S PROVE <<k, i>> \in R
    BY <1>1 DEF Reader!InFiles
  <2> QED
    BY <2>1
<1>4. \A a, b \in S : f[a] = f[b] => a = b
  OBVIOUS
<1>5. ASSUME NEW x \in R PROVE \E i \in S : f[i] = x
  <2>1. /\ x \in (1..Len(files)) \X (1..(MaxContexts + 1))
        /\ x[2] <= Len(files[x[1]]) /\ x[1] = k /\ files[x[1]][x[2]] \in N
    BY DEF Reader!InFiles
  <2>2. x = <<k, x[2]>> /\ x[2] \in S
    BY <1>1, <2>1
  <2> QED
    BY <2>2
<1>6. PastFiles(k + 1, N) = PastFiles(k, N) \cup R
  <2>1. ASSUME NEW x \in Reader!InFiles PROVE x[1] < k + 1 <=> (x[1] < k \/ x[1] = k)
    BY <1>1 DEF Reader!InFiles
  <2> QED
    BY <2>1 DEF PastFiles
<1>7. PastFiles(k, N) \cap R = {}
  BY DEF PastFiles
<1> HIDE DEF f, S, R
<1>8. IsFiniteSet(R) /\ Cardinality(R) = Cardinality(S)
  BY <1>2, <1>3, <1>4, <1>5, SameCardinality
<1>9. Cardinality(PastFiles(k, N) \cup R) = Cardinality(PastFiles(k, N)) + Cardinality(R)
  BY <1>7, <1>8, PastFilesFinite, DisjointUnion
<1> QED
  BY <1>6, <1>8, <1>9 DEF Count, CountTo, S

-----------------------------------------------------------------------------
(* The initial states.                                                     *)

(* Both halves of the model speak of the same nodes.                       *)
LEMMA SameNodes ==
    /\ Reader!Ids = Ids /\ Reader!NoId = NoId /\ Reader!Nodes = Nodes
    /\ Reader!Producer = 0 /\ Reader!Tasks = 0..NumConsumers
    /\ Reader!Consumers = 1..NumConsumers /\ Reader!NoTask = -1
BY DEF Reader!Ids, Reader!NoId, Reader!Nodes, Ids, NoId, Nodes, Reader!Tasks,
       Reader!Consumers, Reader!NoTask, Reader!Producer

(* Nothing is counted before the scripts start.                            *)
LEMMA NothingCounted ==
    ASSUME Reader!ReaderInit, NEW N
    PROVE  Counted(N)
<1>1. Count(<<>>, N) = 0
  BY CountZero DEF Count
<1>2. HeldIn(N) = {}
  BY SameNodes DEF HeldIn, Reader!ReaderInit
<1>3. Cardinality(HeldIn(N)) = 0
  BY <1>2, FS_EmptySet
<1>4. CountTo(files[fileNo], next - 1, N) = 0
  BY CountZero DEF Reader!ReaderInit
<1>5. Cardinality(PastFiles(fileNo, N)) = 0
  BY PastFilesFirst DEF Reader!ReaderInit
<1> QED
  BY <1>1, <1>3, <1>4, <1>5 DEF Counted, Reader!ReaderInit

(* The reader's part of the invariant holds while it waits for its start,  *)
(* whatever the agent does.                                                *)
LEMMA ReaderInitInv == TreeInv /\ Reader!ReaderInit /\ analysing = FALSE => IInv
<1> SUFFICES ASSUME TreeInv, Reader!ReaderInit, analysing = FALSE PROVE IInv
  OBVIOUS
<1> USE ContextTreeAssumption, RoundTripAssumption
<1>1. Reader!ReaderTypeOK
  <2>1. /\ queue \in Seq(Reader!Nodes) /\ parsed \in Seq(Reader!Nodes)
        /\ children \in Seq(Reader!Nodes)
    BY DEF Reader!ReaderInit
  <2>2. held \in [Reader!Consumers -> Reader!Nodes \cup {Reader!NoNode}]
    BY DEF Reader!ReaderInit
  <2>3. /\ contextDict \in [Reader!Ids -> Frames \cup {NoFrame, Reader!Unknown}]
        /\ rootSet \subseteq Reader!Ids
        /\ parentRoot \in [Reader!Ids \cup {Reader!NoId} -> SUBSET (1..Len(children))]
        /\ childIds \in [Reader!Ids -> SUBSET Reader!Ids]
    BY DEF Reader!ReaderInit
  <2>4. loaded \in 0..Len(children)
    BY DEF Reader!ReaderInit
  <2>5. /\ fileNo \in Nat /\ assigned \in 0..(NumConsumers + 1) /\ next \in Nat
        /\ active \subseteq Reader!Tasks /\ master \in Reader!Tasks \cup {Reader!NoTask}
        /\ pc \in [Reader!Tasks -> {"idle", "loop", "test", "get", "add", "finish", "dead"}]
        /\ producerDone \in BOOLEAN
        /\ stage \in {"parse", "load", "done", "failed"}
    <3>1. fileNo = 1 /\ assigned = 0 /\ next = 1 /\ active = {} /\ master = Reader!NoTask
      BY DEF Reader!ReaderInit
    <3>2. fileNo \in Nat /\ assigned \in 0..(NumConsumers + 1) /\ next \in Nat
      BY <3>1
    <3> QED
      BY <3>1, <3>2 DEF Reader!ReaderInit
  <2> QED
    BY <2>1, <2>2, <2>3, <2>4, <2>5 DEF Reader!ReaderTypeOK
<1>2. StartInv
  <2>1. files # <<>> => 1 \in 1..Len(files)
    BY DEF TreeInv, TreeTypeOK
  <2> QED
    BY <2>1 DEF StartInv, Reader!ReaderInit
<1>3. WorkersInv
  BY DEF WorkersInv, Reader!ReaderInit
<1>4. ProducerInv
  <2>1. pc[0] = "idle"
    BY SameNodes DEF Reader!ReaderInit
  <2>2. files # <<>> => 1 \in 1..(Len(files[1]) + 1)
    <3>1. files # <<>> => 1 \in 1..Len(files)
      BY DEF TreeInv, TreeTypeOK
    <3> QED
      BY <3>1, FileLength
  <2> QED
    BY <2>1, <2>2 DEF ProducerInv, Reader!ReaderInit
<1>5. ConsumersInv
  BY SameNodes DEF ConsumersInv, Reader!ReaderInit
<1>6. CountInv
  BY NothingCounted DEF CountInv
<1>7. ChildrenInv
  BY DEF ChildrenInv, SubtreeFile, Reader!ReaderInit
<1>8. LoadInv
  <2>1. loaded = 0 /\ 1..0 = {} /\ rootSet = {} /\ stage = "parse"
    BY DEF Reader!ReaderInit
  <2>2. \A c \in Ids : contextDict[c] = Reader!Unknown
    BY SameNodes DEF Reader!ReaderInit
  <2>3. \A c \in Ids \cup {NoId} : parentRoot[c] = {}
    BY SameNodes DEF Reader!ReaderInit
  <2> QED
    BY <2>1, <2>2, <2>3 DEF LoadInv, Known
<1>9. RebuildInv
  <2>1. loaded = 0 /\ 1..0 = {} /\ \A c \in Ids : childIds[c] = {}
    BY SameNodes DEF Reader!ReaderInit
  <2> QED
    BY <2>1 DEF RebuildInv, Known
<1>10. FailInv /\ NonEmptyLoad
  BY DEF FailInv, NonEmptyLoad, Reader!ReaderInit
<1> QED
  BY <1>1, <1>2, <1>3, <1>4, <1>5, <1>6, <1>7, <1>8, <1>9, <1>10 DEF IInv

(* The initial states satisfy the invariant.                               *)
LEMMA InitInv == Init => IInv
BY TreeInitInv, ReaderInitInv DEF Init

-----------------------------------------------------------------------------
(* The agent's steps and the start of the scripts.                         *)

(* The agent leaves the reader in its initial state.                       *)
LEMMA ProfileInv == IInv /\ Profile => IInv'
<1> SUFFICES ASSUME IInv, Profile PROVE IInv'
  OBVIOUS
<1>1. TreeInv'
  BY TreeNextInv DEF IInv, Profile
<1>2. Reader!ReaderInit' /\ analysing' = FALSE
  <2>1. analysing = FALSE /\ Reader!ReaderInit
    BY DEF IInv, StartInv, Profile
  <2>2. UNCHANGED <<analysing, readerVars>>
    BY DEF Profile
  <2> QED
    BY <2>1, <2>2 DEF readerVars, Reader!ReaderInit
<1>3. (TreeInv /\ Reader!ReaderInit /\ analysing = FALSE => IInv)'
  BY ReaderInitInv, PTL
<1> QED
  BY <1>1, <1>2, <1>3

(* What is said of the load speaks of the children and the load only.      *)
LEMMA LoadSame ==
    ASSUME LoadInv, RebuildInv, UNCHANGED <<fileNo, children, stage, loaded>>,
           UNCHANGED <<contextDict, rootSet, parentRoot, childIds>>
    PROVE  LoadInv' /\ RebuildInv'
<1>1. ASSUME NEW c PROVE Known(c)' <=> Known(c)
  BY DEF Known
<1>2. ASSUME NEW p PROVE Waits(p)' <=> Waits(p)
  BY DEF Waits, Known
<1>3. LoadInv'
  BY <1>1, <1>2 DEF LoadInv
<1>4. RebuildInv'
  BY <1>1 DEF RebuildInv
<1> QED
  BY <1>3, <1>4

(* The scripts start from their initial state on the files of the agent.   *)
LEMMA AnalyseInv == IInv /\ Analyse => IInv'
<1> SUFFICES ASSUME IInv, Analyse PROVE IInv'
  OBVIOUS
<1>0. /\ phase = "none" /\ files # <<>> /\ ~analysing /\ analysing' = TRUE
      /\ UNCHANGED <<treeVars, readerVars>>
  BY DEF Analyse
<1>1. TreeInv'
  BY <1>0, TreeUnchangedInv DEF IInv
<1>2. Reader!ReaderTypeOK'
  BY <1>0 DEF IInv, Reader!ReaderTypeOK, readerVars
<1>3. StartInv'
  BY <1>0 DEF IInv, StartInv, readerVars, treeVars
<1>4. WorkersInv' /\ ProducerInv' /\ ConsumersInv'
  BY <1>0 DEF IInv, WorkersInv, ProducerInv, ConsumersInv, readerVars, treeVars
<1>5. CountInv'
  <2>1. UNCHANGED <<files, fileNo, stage, parsed, queue, next, children, pc, held>>
    BY <1>0 DEF readerVars, treeVars
  <2>2. ASSUME NEW N \in SUBSET Nodes PROVE Counted(N)'
    <3>1. HeldIn(N)' = HeldIn(N) /\ PastFiles(fileNo, N)' = PastFiles(fileNo, N)
      BY <2>1 DEF HeldIn, PastFiles, Reader!InFiles
    <3>2. Counted(N)
      BY DEF IInv, CountInv
    <3> QED
      BY <2>1, <3>1, <3>2 DEF Counted
  <2> QED
    BY <2>2 DEF CountInv
<1>6. ChildrenInv'
  <2>1. UNCHANGED <<children, fileNo>>
    BY <1>0 DEF readerVars
  <2>2. ChildrenInv
    BY DEF IInv
  <2> QED
    BY <2>1, <2>2 DEF ChildrenInv, SubtreeFile
<1>7. LoadInv' /\ RebuildInv'
  <2>1. UNCHANGED <<fileNo, children, stage, loaded, contextDict, rootSet, parentRoot, childIds>>
    BY <1>0 DEF readerVars
  <2> QED
    BY <2>1, LoadSame DEF IInv
<1>8. FailInv' /\ NonEmptyLoad'
  BY <1>0 DEF IInv, FailInv, NonEmptyLoad, readerVars, treeVars
<1> QED
  BY <1>1, <1>2, <1>3, <1>4, <1>5, <1>6, <1>7, <1>8 DEF IInv

-----------------------------------------------------------------------------
(* The manager and the tasks.                                              *)

PcValues == {"idle", "loop", "test", "get", "add", "finish", "dead"}

(* What a task of the reader leaves alone.                                 *)
TaskFrame ==
    /\ analysing /\ stage = "parse"
    /\ UNCHANGED <<treeVars, analysing, truncated, maxWorkers, fileNo, children, stage,
                   loaded, contextDict, rootSet, parentRoot, childIds>>

(* Such a step cannot disturb what is said of the children and the load.   *)
LEMMA TaskFrameInv ==
    ASSUME IInv, TaskFrame
    PROVE  /\ TreeInv' /\ StartInv' /\ ChildrenInv' /\ LoadInv' /\ RebuildInv'
           /\ FailInv' /\ NonEmptyLoad'
<1>1. TreeInv'
  BY TreeUnchangedInv DEF IInv, TaskFrame
<1>2. StartInv'
  BY DEF IInv, StartInv, TaskFrame, treeVars
<1>3. ChildrenInv'
  BY DEF IInv, ChildrenInv, SubtreeFile, TaskFrame
<1>4. LoadInv' /\ RebuildInv'
  BY LoadSame DEF IInv, TaskFrame
<1>5. FailInv' /\ NonEmptyLoad'
  BY DEF IInv, FailInv, NonEmptyLoad, TaskFrame, treeVars
<1> QED
  BY <1>1, <1>2, <1>3, <1>4, <1>5

(* The types of what it may change.                                        *)
LEMMA TaskFrameTypes ==
    ASSUME IInv, TaskFrame,
           assigned' \in 0..(NumConsumers + 1),
           active' \subseteq Reader!Tasks,
           master' \in Reader!Tasks \cup {Reader!NoTask},
           pc' \in [Reader!Tasks -> PcValues],
           next' \in Nat, queue' \in Seq(Nodes), producerDone' \in BOOLEAN,
           held' \in [Reader!Consumers -> Nodes \cup {Reader!NoNode}],
           parsed' \in Seq(Nodes)
    PROVE  Reader!ReaderTypeOK'
BY SameNodes DEF IInv, Reader!ReaderTypeOK, TaskFrame, PcValues

(* It keeps the counts if the nodes in flight stay as many as were put.    *)
LEMMA TaskFrameCounts ==
    ASSUME IInv, TaskFrame,
           \A N \in SUBSET Nodes :
              Count(parsed', N) + Count(queue', N) + Cardinality(HeldIn(N)')
                 = CountTo(files[fileNo], next' - 1, N)
    PROVE  CountInv'
<1>1. files' = files
  BY DEF TaskFrame, treeVars
<1>2. ASSUME NEW N \in SUBSET Nodes PROVE Counted(N)'
  <2>1. PastFiles(fileNo, N)' = PastFiles(fileNo, N)
    BY <1>1 DEF TaskFrame, PastFiles, Reader!InFiles
  <2>2. Counted(N) /\ UNCHANGED <<fileNo, children, stage>>
    BY DEF IInv, CountInv, TaskFrame
  <2> QED
    BY <1>1, <2>1, <2>2 DEF Counted
<1> QED
  BY <1>2 DEF CountInv

(* The types, as the steps below use them.                                 *)
LEMMA ReaderTypes ==
    ASSUME IInv
    PROVE  /\ assigned \in 0..(NumConsumers + 1)
           /\ active \subseteq 0..NumConsumers
           /\ master \in 0..NumConsumers \cup {-1}
           /\ pc \in [0..NumConsumers -> PcValues]
           /\ next \in Nat /\ queue \in Seq(Nodes) /\ producerDone \in BOOLEAN
           /\ held \in [1..NumConsumers -> Nodes \cup {Reader!NoNode}]
           /\ parsed \in Seq(Nodes)
           /\ NumConsumers \in Nat \ {0}
BY SameNodes, RoundTripAssumption DEF IInv, Reader!ReaderTypeOK, PcValues

(* A task moves, and no other.                                             *)
LEMMA Moves ==
    ASSUME IInv, NEW t \in 0..NumConsumers, NEW to \in PcValues,
           pc' = [pc EXCEPT ![t] = to]
    PROVE  /\ pc' \in [0..NumConsumers -> PcValues]
           /\ pc'[t] = to
           /\ \A u \in 0..NumConsumers : u # t => pc'[u] = pc[u]
BY ReaderTypes

(* The holders are the same if none takes or gives up a node.              *)
LEMMA HoldersSame ==
    ASSUME held' = held,
           \A t \in 1..NumConsumers : pc'[t] = "add" <=> pc[t] = "add", NEW N
    PROVE  HeldIn(N)' = HeldIn(N)
BY SameNodes DEF HeldIn

(* A step that moves tasks and no node.                                    *)
LEMMA NoNodeMoves ==
    ASSUME IInv, TaskFrame, UNCHANGED <<next, queue, held, parsed>>,
           \A t \in 1..NumConsumers : pc'[t] = "add" <=> pc[t] = "add"
    PROVE  CountInv'
<1>1. ASSUME NEW N \in SUBSET Nodes
      PROVE  Count(parsed', N) + Count(queue', N) + Cardinality(HeldIn(N)')
                 = CountTo(files[fileNo], next' - 1, N)
  <2>1. HeldIn(N)' = HeldIn(N)
    BY HoldersSame
  <2>2. Count(parsed, N) + Count(queue, N) + Cardinality(HeldIn(N))
                 = CountTo(files[fileNo], next - 1, N)
    BY DEF IInv, CountInv, Counted, TaskFrame
  <2> QED
    BY <2>1, <2>2
<1> QED
  BY <1>1, TaskFrameCounts

(* assignWork: a task begins, on a worker or on the main thread.           *)
LEMMA AssignWorkInv ==
    ASSUME IInv, analysing, Reader!AssignWork, UNCHANGED <<treeVars, analysing>>
    PROVE  IInv'
<1>0. /\ master = -1 /\ assigned <= NumConsumers /\ assigned' = assigned + 1
      /\ pc' = [pc EXCEPT ![assigned] = "loop"]
      /\ (master' = assigned /\ active' = active)
            \/ (active' = active \cup {assigned} /\ master' = master)
      /\ UNCHANGED <<next, queue, producerDone, held, parsed>>
      /\ TaskFrame
  BY SameNodes DEF Reader!AssignWork, TaskFrame, Reader!input, Reader!loadVars
<1>1. /\ assigned \in 0..NumConsumers /\ active \subseteq 0..NumConsumers
      /\ next \in Nat /\ queue \in Seq(Nodes) /\ producerDone \in BOOLEAN
      /\ held \in [1..NumConsumers -> Nodes \cup {Reader!NoNode}]
      /\ parsed \in Seq(Nodes) /\ NumConsumers \in Nat
  BY <1>0, ReaderTypes
<1>2. /\ pc' \in [0..NumConsumers -> PcValues] /\ pc'[assigned] = "loop"
      /\ \A u \in 0..NumConsumers : u # assigned => pc'[u] = pc[u]
  BY <1>0, <1>1, Moves DEF PcValues
<1>3. \A u \in 0..NumConsumers : pc[u] # "idle" => u < assigned
  BY SameNodes DEF IInv, WorkersInv
<1>4. pc[assigned] = "idle"
  BY <1>1, <1>3
<1>5. Reader!ReaderTypeOK'
  <2>1. assigned' \in 0..(NumConsumers + 1)
    BY <1>0, <1>1
  <2>2. active' \subseteq 0..NumConsumers /\ master' \in 0..NumConsumers \cup {-1}
    BY <1>0, <1>1
  <2> QED
    BY <1>0, <1>1, <1>2, <2>1, <2>2, TaskFrameTypes, SameNodes
<1>6. CountInv'
  BY <1>0, <1>2, <1>4, NoNodeMoves
<1>7. WorkersInv'
  <2>1. active = {u \in 0..NumConsumers : pc[u] # "idle" /\ u # -1}
    BY <1>0, SameNodes DEF IInv, WorkersInv
  <2>2. active' = {u \in 0..NumConsumers : pc'[u] # "idle" /\ u # master'}
    BY <1>0, <1>1, <1>2, <1>4, <2>1
  <2>3. master' # -1 => pc'[master'] # "idle"
    BY <1>0, <1>2
  <2>4. \A u \in 0..NumConsumers : pc'[u] # "idle" => u < assigned'
    BY <1>0, <1>1, <1>2, <1>3
  <2> QED
    BY <2>2, <2>3, <2>4, SameNodes DEF WorkersInv
<1>8. ProducerInv'
  <2>1. /\ pc[0] \in {"idle", "loop", "finish", "dead"}
        /\ producerDone <=> (assigned > 0 /\ pc[0] \in {"idle", "finish"})
    BY DEF IInv, ProducerInv
  <2>2. /\ pc'[0] \in {"idle", "loop", "finish", "dead"}
        /\ producerDone <=> (assigned' > 0 /\ pc'[0] \in {"idle", "finish"})
    BY <1>0, <1>1, <1>2, <2>1
  <2>3. UNCHANGED <<stage, files, fileNo, next, producerDone>>
    BY <1>0 DEF TaskFrame, treeVars
  <2> QED
    BY <2>2, <2>3 DEF IInv, ProducerInv
<1>9. ConsumersInv'
  <2>1. ASSUME NEW u \in 1..NumConsumers
        PROVE  /\ pc'[u] # "dead"
               /\ pc'[u] = "test" => producerDone'
               /\ (pc'[u] = "finish" \/ (u < assigned' /\ pc'[u] = "idle")) =>
                     (producerDone' /\ queue' = <<>>)
               /\ pc'[u] = "add" => held'[u] \in Nodes
    <3>1. /\ pc[u] # "dead"
          /\ pc[u] = "test" => producerDone
          /\ (pc[u] = "finish" \/ (u < assigned /\ pc[u] = "idle")) =>
                (producerDone /\ queue = <<>>)
          /\ pc[u] = "add" => held[u] \in Nodes
      BY SameNodes DEF IInv, ConsumersInv
    <3>2. CASE u = assigned
      BY <1>0, <1>2, <3>2
    <3>3. CASE u # assigned
      BY <1>0, <1>1, <1>2, <3>1, <3>3
    <3> QED
      BY <3>2, <3>3
  <2> QED
    BY <2>1, SameNodes DEF ConsumersInv
<1> QED
  BY <1>0, <1>5, <1>6, <1>7, <1>8, <1>9, TaskFrameInv DEF IInv

(* A task returns.                                                         *)
LEMMA WorkerFinishInv ==
    ASSUME IInv, analysing, stage = "parse", NEW t \in 0..NumConsumers,
           Reader!WorkerFinish(t), UNCHANGED <<treeVars, analysing>>
    PROVE  IInv'
<1>0. /\ pc[t] = "finish" /\ pc' = [pc EXCEPT ![t] = "idle"]
      /\ IF master = t THEN master' = -1 /\ active' = active
                       ELSE active' = active \ {t} /\ master' = master
      /\ UNCHANGED <<assigned, next, queue, producerDone, held, parsed>>
      /\ TaskFrame
  BY SameNodes DEF Reader!WorkerFinish, TaskFrame, Reader!input, Reader!loadVars
<1>1. /\ assigned \in 0..(NumConsumers + 1) /\ active \subseteq 0..NumConsumers
      /\ master \in 0..NumConsumers \cup {-1}
      /\ next \in Nat /\ queue \in Seq(Nodes) /\ producerDone \in BOOLEAN
      /\ held \in [1..NumConsumers -> Nodes \cup {Reader!NoNode}]
      /\ parsed \in Seq(Nodes) /\ NumConsumers \in Nat
  BY ReaderTypes
<1>2. /\ pc' \in [0..NumConsumers -> PcValues] /\ pc'[t] = "idle"
      /\ \A u \in 0..NumConsumers : u # t => pc'[u] = pc[u]
  BY <1>0, <1>1, Moves DEF PcValues
<1>3. /\ active = {u \in 0..NumConsumers : pc[u] # "idle" /\ u # master}
      /\ \A u \in 0..NumConsumers : pc[u] # "idle" => u < assigned
      /\ master # -1 => pc[master] # "idle"
  BY SameNodes DEF IInv, WorkersInv
<1>5. Reader!ReaderTypeOK'
  <2>1. active' \subseteq 0..NumConsumers /\ master' \in 0..NumConsumers \cup {-1}
    BY <1>0, <1>1
  <2> QED
    BY <1>0, <1>1, <1>2, <2>1, TaskFrameTypes, SameNodes
<1>6. CountInv'
  BY <1>0, <1>2, NoNodeMoves
<1>7. WorkersInv'
  <2>1. active' = {u \in 0..NumConsumers : pc'[u] # "idle" /\ u # master'}
    BY <1>0, <1>1, <1>2, <1>3
  <2>2. master' # -1 => pc'[master'] # "idle"
    BY <1>0, <1>1, <1>2, <1>3
  <2>3. \A u \in 0..NumConsumers : pc'[u] # "idle" => u < assigned'
    BY <1>0, <1>2, <1>3
  <2> QED
    BY <2>1, <2>2, <2>3, SameNodes DEF WorkersInv
<1>8. ProducerInv'
  <2>1. /\ pc[0] \in {"idle", "loop", "finish", "dead"}
        /\ producerDone <=> (assigned > 0 /\ pc[0] \in {"idle", "finish"})
    BY DEF IInv, ProducerInv
  <2>2. /\ pc'[0] \in {"idle", "loop", "finish", "dead"}
        /\ producerDone <=> (assigned' > 0 /\ pc'[0] \in {"idle", "finish"})
    BY <1>0, <1>1, <1>2, <2>1
  <2>3. UNCHANGED <<stage, files, fileNo, next, producerDone>>
    BY <1>0 DEF TaskFrame, treeVars
  <2> QED
    BY <2>2, <2>3 DEF IInv, ProducerInv
<1>9. ConsumersInv'
  <2>1. ASSUME NEW u \in 1..NumConsumers
        PROVE  /\ pc'[u] # "dead"
               /\ pc'[u] = "test" => producerDone'
               /\ (pc'[u] = "finish" \/ (u < assigned' /\ pc'[u] = "idle")) =>
                     (producerDone' /\ queue' = <<>>)
               /\ pc'[u] = "add" => held'[u] \in Nodes
    <3>1. /\ pc[u] # "dead"
          /\ pc[u] = "test" => producerDone
          /\ (pc[u] = "finish" \/ (u < assigned /\ pc[u] = "idle")) =>
                (producerDone /\ queue = <<>>)
          /\ pc[u] = "add" => held[u] \in Nodes
      BY SameNodes DEF IInv, ConsumersInv
    <3>2. CASE u = t
      BY <1>0, <1>2, <3>1, <3>2
    <3>3. CASE u # t
      BY <1>0, <1>1, <1>2, <3>1, <3>3
    <3> QED
      BY <3>2, <3>3
  <2> QED
    BY <2>1, SameNodes DEF ConsumersInv
<1> QED
  BY <1>0, <1>5, <1>6, <1>7, <1>8, <1>9, TaskFrameInv DEF IInv

(* Counts and holders, as numbers.                                         *)
LEMMA CountIsNat == ASSUME NEW D, NEW s \in Seq(D), NEW N PROVE Count(s, N) \in Nat
<1>1. Len(s) \in Nat
  OBVIOUS
<1> QED
  BY <1>1, CountType DEF Count

(* The consumers hold finitely many nodes.                                 *)
LEMMA HeldFinite ==
    ASSUME NEW N PROVE IsFiniteSet(HeldIn(N)) /\ Cardinality(HeldIn(N)) \in Nat
<1>1. IsFiniteSet(1..NumConsumers)
  BY FS_Interval, RoundTripAssumption
<1>2. HeldIn(N) \in SUBSET (1..NumConsumers)
  BY SameNodes DEF HeldIn
<1> QED
  BY <1>1, <1>2, FS_Subset, FS_CardinalityType

(* The manager's view of a task that goes on.                              *)
LEMMA WorkersKept ==
    ASSUME IInv, NEW t \in 0..NumConsumers, NEW to \in PcValues \ {"idle"}, pc[t] # "idle",
           pc' = [pc EXCEPT ![t] = to], UNCHANGED <<assigned, active, master>>
    PROVE  WorkersInv'
<1>1. /\ pc' \in [0..NumConsumers -> PcValues] /\ pc'[t] = to
      /\ \A u \in 0..NumConsumers : u # t => pc'[u] = pc[u]
  BY Moves
<1>2. /\ active = {u \in 0..NumConsumers : pc[u] # "idle" /\ u # master}
      /\ \A u \in 0..NumConsumers : pc[u] # "idle" => u < assigned
      /\ master # -1 => pc[master] # "idle"
      /\ master \in 0..NumConsumers \cup {-1}
  BY SameNodes, ReaderTypes DEF IInv, WorkersInv
<1>3. \A u \in 0..NumConsumers : pc'[u] # "idle" <=> pc[u] # "idle"
  BY <1>1
<1> QED
  BY <1>2, <1>3, SameNodes DEF WorkersInv

(* The producer puts a node.                                               *)
LEMMA ProducerPutInv ==
    ASSUME IInv, analysing, stage = "parse", Reader!ProducerPut, UNCHANGED <<treeVars, analysing>>
    PROVE  IInv'
<1> DEFINE f == files[fileNo]
<1>0. /\ pc[0] = "loop" /\ next <= Len(f) /\ queue' = Append(queue, f[next]) /\ next' = next + 1
      /\ UNCHANGED <<assigned, active, master, pc, producerDone, held, parsed>>
      /\ TaskFrame
  BY SameNodes DEF Reader!ProducerPut, Reader!File, TaskFrame, Reader!input, Reader!loadVars
<1>1. /\ assigned \in 0..(NumConsumers + 1) /\ active \subseteq 0..NumConsumers
      /\ master \in 0..NumConsumers \cup {-1}
      /\ pc \in [0..NumConsumers -> PcValues]
      /\ next \in Nat /\ queue \in Seq(Nodes) /\ producerDone \in BOOLEAN
      /\ held \in [1..NumConsumers -> Nodes \cup {Reader!NoNode}]
      /\ parsed \in Seq(Nodes) /\ NumConsumers \in Nat
  BY ReaderTypes
<1>2. fileNo \in 1..Len(files) /\ next \in 1..(Len(f) + 1)
  BY DEF IInv, StartInv, ProducerInv
<1>3. f \in Seq(Nodes) /\ Len(f) \in Nat
  BY <1>2, FileLength DEF IInv
<1>4. ~producerDone
  BY <1>0 DEF IInv, ProducerInv
<1>5. next \in 1..Len(f) /\ f[next] \in Nodes
  BY <1>0, <1>2, <1>3
<1> HIDE DEF f
<1>6. queue' \in Seq(Nodes) /\ next' \in Nat
  BY <1>0, <1>1, <1>5
<1>7. Reader!ReaderTypeOK'
  BY <1>0, <1>1, <1>6, TaskFrameTypes, SameNodes
<1>8. CountInv'
  <2>1. ASSUME NEW N \in SUBSET Nodes
        PROVE  Count(parsed', N) + Count(queue', N) + Cardinality(HeldIn(N)')
                   = CountTo(files[fileNo], next' - 1, N)
    <3> DEFINE one == IF f[next] \in N THEN 1 ELSE 0
    <3>1. HeldIn(N)' = HeldIn(N)
      BY <1>0, HoldersSame
    <3>2. Count(parsed, N) + Count(queue, N) + Cardinality(HeldIn(N))
                   = CountTo(f, next - 1, N)
      BY <1>0 DEF IInv, CountInv, Counted, f
    <3>3. Count(queue', N) = Count(queue, N) + one
      BY <1>0, <1>1, <1>5, CountAppend
    <3>4. next - 1 \in Nat /\ (next - 1) + 1 = next /\ next' - 1 = next
      BY <1>0, <1>2, <1>5
    <3>5. CountTo(f, (next - 1) + 1, N)
             = CountTo(f, next - 1, N) + (IF f[(next - 1) + 1] \in N THEN 1 ELSE 0)
      BY <3>4, CountNext
    <3>6. CountTo(f, next' - 1, N) = CountTo(f, next - 1, N) + one
      BY <3>4, <3>5
    <3>7. /\ Count(parsed, N) \in Nat /\ Count(queue, N) \in Nat
          /\ Cardinality(HeldIn(N)) \in Nat /\ one \in Nat
      BY <1>1, CountIsNat, HeldFinite
    <3> HIDE DEF one
    <3> QED
      BY <1>0, <3>1, <3>2, <3>3, <3>6, <3>7 DEF f
  <2> QED
    BY <1>0, <2>1, TaskFrameCounts
<1>9. WorkersInv'
  BY <1>0 DEF IInv, WorkersInv
<1>10. ProducerInv'
  <2>1. next' \in 1..(Len(f) + 1)
    BY <1>0, <1>3, <1>5
  <2>2. UNCHANGED <<stage, files, fileNo, producerDone, pc, assigned>>
    BY <1>0 DEF TaskFrame, treeVars
  <2> QED
    BY <1>4, <2>1, <2>2 DEF IInv, ProducerInv, f
<1>11. ConsumersInv'
  BY <1>0, <1>4 DEF IInv, ConsumersInv
<1> QED
  BY <1>0, <1>7, <1>8, <1>9, <1>10, <1>11, TaskFrameInv DEF IInv

(* The producer meets the cut and ends without its flag; on the main       *)
(* thread this ends the scripts.                                           *)
LEMMA ProducerRaisesInv ==
    ASSUME IInv, analysing, stage = "parse", Reader!ProducerRaises,
           UNCHANGED <<treeVars, analysing>>
    PROVE  IInv'
<1>0. /\ pc[0] = "loop" /\ pc' = [pc EXCEPT ![0] = "dead"]
      /\ stage' \in {stage, "failed"}
      /\ UNCHANGED <<treeVars, analysing, truncated, maxWorkers, fileNo, children, loaded,
                     contextDict, rootSet, parentRoot, childIds>>
      /\ UNCHANGED <<assigned, active, master, next, queue, producerDone, held, parsed>>
  BY SameNodes DEF Reader!ProducerRaises, Reader!input, Reader!loadVars
<1>1. /\ assigned \in 0..(NumConsumers + 1) /\ active \subseteq 0..NumConsumers
      /\ master \in 0..NumConsumers \cup {-1}
      /\ next \in Nat /\ queue \in Seq(Nodes) /\ producerDone \in BOOLEAN
      /\ held \in [1..NumConsumers -> Nodes \cup {Reader!NoNode}]
      /\ parsed \in Seq(Nodes) /\ NumConsumers \in Nat
  BY ReaderTypes
<1>a. 0 \in 0..NumConsumers /\ "dead" \in PcValues \ {"idle"}
  BY <1>1 DEF PcValues
<1>2. /\ pc' \in [0..NumConsumers -> PcValues] /\ pc'[0] = "dead"
      /\ \A u \in 0..NumConsumers : u # 0 => pc'[u] = pc[u]
  BY <1>0, <1>a, Moves
<1>3. files' = files
  BY <1>0 DEF treeVars
<1>4. ~producerDone
  BY <1>0 DEF IInv, ProducerInv
<1>5. WorkersInv'
  BY <1>0, <1>a, WorkersKept
<1>6. ProducerInv'
  BY <1>0, <1>2, <1>3, <1>4 DEF IInv, ProducerInv
<1>7. ConsumersInv'
  <2>1. \A u \in 1..NumConsumers : pc'[u] = pc[u]
    BY <1>2
  <2> QED
    BY <1>0, <2>1, SameNodes DEF IInv, ConsumersInv
<1>8. CASE stage' = stage
  <2>1. TaskFrame
    BY <1>0, <1>8 DEF TaskFrame
  <2>2. CountInv'
    BY <1>0, <1>2, <2>1, NoNodeMoves
  <2>3. Reader!ReaderTypeOK'
    BY <1>0, <1>1, <1>2, <2>1, TaskFrameTypes, SameNodes
  <2> QED
    BY <1>5, <1>6, <1>7, <2>1, <2>2, <2>3, TaskFrameInv DEF IInv
<1>9. CASE stage' = "failed"
  <2>1. TreeInv'
    BY <1>0, TreeUnchangedInv DEF IInv
  <2>2. StartInv'
    BY <1>0, <1>3, <1>9 DEF IInv, StartInv, treeVars
  <2>3. ChildrenInv'
    BY <1>0 DEF IInv, ChildrenInv, SubtreeFile
  <2>4. LoadInv'
    <3>1. ASSUME NEW c PROVE Known(c)' <=> Known(c)
      BY <1>0 DEF Known
    <3>2. ASSUME NEW p PROVE Waits(p)' <=> Waits(p)
      BY <1>0 DEF Waits, Known
    <3> QED
      BY <1>0, <1>9, <3>1, <3>2 DEF IInv, LoadInv
  <2>5. RebuildInv'
    <3>1. ASSUME NEW c PROVE Known(c)' <=> Known(c)
      BY <1>0 DEF Known
    <3> QED
      BY <1>0, <3>1 DEF IInv, RebuildInv
  <2>6. Reader!ReaderTypeOK'
    BY <1>0, <1>2, <1>9, SameNodes DEF IInv, Reader!ReaderTypeOK, PcValues
  <2>7. CountInv'
    <3>1. ASSUME NEW N \in SUBSET Nodes PROVE Counted(N)'
      <4>1. PastFiles(fileNo, N)' = PastFiles(fileNo, N)
        BY <1>0, <1>3 DEF PastFiles, Reader!InFiles
      <4>2. Counted(N)
        BY DEF IInv, CountInv
      <4> QED
        BY <1>0, <1>9, <4>1, <4>2 DEF Counted
    <3> QED
      BY <3>1 DEF CountInv
  <2>8. FailInv' /\ NonEmptyLoad'
    <3>1. /\ truncated /\ fileNo = Len(files) /\ next = Len(files[fileNo])
      BY DEF Reader!ProducerRaises, Reader!CutOff, Reader!File
    <3>2. files # <<>> /\ next \in 1..(Len(files[fileNo]) + 1)
      BY DEF IInv, StartInv, ProducerInv
    <3>3. files[Len(files)] # <<>>
      BY <3>1, <3>2
    <3> QED
      BY <1>0, <1>3, <1>9, <3>1, <3>2, <3>3 DEF FailInv, NonEmptyLoad
  <2> QED
    BY <1>5, <1>6, <1>7, <2>1, <2>2, <2>3, <2>4, <2>5, <2>6, <2>7, <2>8 DEF IInv
<1> QED
  BY <1>0, <1>8, <1>9

(* The producer has put the last node and sets its flag.                   *)
LEMMA ProducerDoneInv ==
    ASSUME IInv, analysing, stage = "parse", Reader!ProducerDone,
           UNCHANGED <<treeVars, analysing>>
    PROVE  IInv'
<1> DEFINE f == files[fileNo]
<1>0. /\ pc[0] = "loop" /\ next > Len(f) /\ producerDone' = TRUE
      /\ pc' = [pc EXCEPT ![0] = "finish"]
      /\ UNCHANGED <<assigned, active, master, next, queue, held, parsed>>
      /\ TaskFrame
  BY SameNodes DEF Reader!ProducerDone, Reader!File, TaskFrame, Reader!input, Reader!loadVars
<1>1. /\ assigned \in 0..(NumConsumers + 1) /\ active \subseteq 0..NumConsumers
      /\ master \in 0..NumConsumers \cup {-1}
      /\ next \in Nat /\ queue \in Seq(Nodes)
      /\ held \in [1..NumConsumers -> Nodes \cup {Reader!NoNode}]
      /\ parsed \in Seq(Nodes) /\ NumConsumers \in Nat
  BY ReaderTypes
<1>a. 0 \in 0..NumConsumers /\ "finish" \in PcValues \ {"idle"}
  BY <1>1 DEF PcValues
<1>2. /\ pc' \in [0..NumConsumers -> PcValues] /\ pc'[0] = "finish"
      /\ \A u \in 0..NumConsumers : u # 0 => pc'[u] = pc[u]
  BY <1>0, <1>a, Moves
<1>3. fileNo \in 1..Len(files) /\ next \in 1..(Len(f) + 1)
  BY DEF IInv, StartInv, ProducerInv
<1>4. f \in Seq(Nodes) /\ Len(f) \in Nat
  BY <1>3, FileLength DEF IInv
<1> HIDE DEF f
<1>5. next = Len(f) + 1
  BY <1>0, <1>3, <1>4
<1>6. assigned > 0 /\ ~producerDone
  <2>1. \A u \in 0..NumConsumers : pc[u] # "idle" => u < assigned
    BY SameNodes DEF IInv, WorkersInv
  <2>2. 0 < assigned
    BY <1>0, <1>1, <2>1
  <2> QED
    BY <1>0, <1>1, <2>2 DEF IInv, ProducerInv
<1>7. WorkersInv'
  BY <1>0, <1>a, WorkersKept
<1>8. ProducerInv'
  <2>1. UNCHANGED <<stage, files, fileNo, next, assigned>>
    BY <1>0 DEF TaskFrame, treeVars
  <2> QED
    BY <1>0, <1>2, <1>3, <1>5, <1>6, <2>1 DEF ProducerInv, f
<1>9. ConsumersInv'
  <2>1. \A u \in 1..NumConsumers : pc'[u] = pc[u]
    BY <1>2
  <2> QED
    BY <1>0, <1>6, <2>1, SameNodes DEF IInv, ConsumersInv
<1>10. CountInv'
  BY <1>0, <1>2, NoNodeMoves
<1>11. Reader!ReaderTypeOK'
  BY <1>0, <1>1, <1>2, TaskFrameTypes, SameNodes
<1> QED
  BY <1>0, <1>7, <1>8, <1>9, <1>10, <1>11, TaskFrameInv DEF IInv

(* A consumer goes on: what its step has to show of itself and of the      *)
(* nodes in flight.                                                        *)
LEMMA ConsumerStepInv ==
    ASSUME IInv, TaskFrame, NEW t \in 1..NumConsumers, NEW to \in PcValues \ {"idle", "dead"},
           pc[t] \notin {"idle", "finish"}, pc' = [pc EXCEPT ![t] = to],
           UNCHANGED <<assigned, active, master, next, producerDone>>,
           queue' \in Seq(Nodes), queue = <<>> => queue' = <<>>,
           held' \in [1..NumConsumers -> Nodes \cup {Reader!NoNode}],
           \A u \in 1..NumConsumers : u # t => held'[u] = held[u],
           parsed' \in Seq(Nodes),
           to = "test" => producerDone,
           to = "finish" => (producerDone /\ queue = <<>>),
           to = "add" => held'[t] \in Nodes,
           \A N \in SUBSET Nodes :
              Count(parsed', N) + Count(queue', N) + Cardinality(HeldIn(N)')
                 = Count(parsed, N) + Count(queue, N) + Cardinality(HeldIn(N))
    PROVE  IInv'
<1>1. /\ assigned \in 0..(NumConsumers + 1) /\ active \subseteq 0..NumConsumers
      /\ master \in 0..NumConsumers \cup {-1} /\ next \in Nat /\ producerDone \in BOOLEAN
      /\ NumConsumers \in Nat
  BY ReaderTypes
<1>2. t \in 0..NumConsumers /\ t # 0 /\ to \in PcValues
  BY <1>1
<1>3. /\ pc' \in [0..NumConsumers -> PcValues] /\ pc'[t] = to
      /\ \A u \in 0..NumConsumers : u # t => pc'[u] = pc[u]
  BY <1>2, Moves
<1>4. Reader!ReaderTypeOK'
  BY <1>1, <1>3, TaskFrameTypes, SameNodes
<1>5. CountInv'
  <2>1. ASSUME NEW N \in SUBSET Nodes
        PROVE  Count(parsed', N) + Count(queue', N) + Cardinality(HeldIn(N)')
                   = CountTo(files[fileNo], next' - 1, N)
    <3>1. Count(parsed, N) + Count(queue, N) + Cardinality(HeldIn(N))
                   = CountTo(files[fileNo], next - 1, N)
      BY DEF IInv, CountInv, Counted, TaskFrame
    <3> QED
      BY <3>1
  <2> QED
    BY <2>1, TaskFrameCounts
<1>6. WorkersInv'
  BY <1>2, WorkersKept
<1>7. ProducerInv'
  <2>1. pc'[0] = pc[0]
    BY <1>2, <1>3
  <2>2. UNCHANGED <<stage, files, fileNo, next, assigned, producerDone>>
    BY DEF TaskFrame, treeVars
  <2> QED
    BY <2>1, <2>2 DEF IInv, ProducerInv
<1>8. ConsumersInv'
  <2>1. ASSUME NEW u \in 1..NumConsumers
        PROVE  /\ pc'[u] # "dead"
               /\ pc'[u] = "test" => producerDone'
               /\ (pc'[u] = "finish" \/ (u < assigned' /\ pc'[u] = "idle")) =>
                     (producerDone' /\ queue' = <<>>)
               /\ pc'[u] = "add" => held'[u] \in Nodes
    <3>1. /\ pc[u] # "dead"
          /\ pc[u] = "test" => producerDone
          /\ (pc[u] = "finish" \/ (u < assigned /\ pc[u] = "idle")) =>
                (producerDone /\ queue = <<>>)
          /\ pc[u] = "add" => held[u] \in Nodes
      BY SameNodes DEF IInv, ConsumersInv
    <3>2. CASE u = t
      BY <1>3, <3>2
    <3>3. CASE u # t
      <4>1. pc'[u] = pc[u] /\ held'[u] = held[u]
        BY <1>1, <1>3, <3>3
      <4> QED
        BY <3>1, <4>1
    <3> QED
      BY <3>2, <3>3
  <2> QED
    BY <2>1, SameNodes DEF ConsumersInv
<1> QED
  BY <1>4, <1>5, <1>6, <1>7, <1>8, TaskFrameInv DEF IInv

(* The nodes in flight are the same if none moves.                         *)
LEMMA InFlightSame ==
    ASSUME UNCHANGED <<queue, held, parsed>>,
           \A u \in 1..NumConsumers : pc'[u] = "add" <=> pc[u] = "add",
           NEW N \in SUBSET Nodes
    PROVE  Count(parsed', N) + Count(queue', N) + Cardinality(HeldIn(N)')
              = Count(parsed, N) + Count(queue, N) + Cardinality(HeldIn(N))
<1>1. HeldIn(N)' = HeldIn(N)
  BY HoldersSame
<1> QED
  BY <1>1

(* The two halves of the consumer's loop test.                             *)
LEMMA ConsumerTestInv ==
    ASSUME IInv, analysing, stage = "parse", NEW t \in 1..NumConsumers,
           Reader!ConsumerTestDone(t) \/ Reader!ConsumerTestEmpty(t),
           UNCHANGED <<treeVars, analysing>>
    PROVE  IInv'
<1>0. PICK to \in {"test", "get", "finish"} :
          /\ pc[t] \in {"loop", "test"} /\ pc' = [pc EXCEPT ![t] = to]
          /\ to = "test" => producerDone
          /\ to = "finish" => (pc[t] = "test" /\ queue = <<>>)
          /\ UNCHANGED <<assigned, active, master, next, producerDone, queue, held, parsed>>
          /\ TaskFrame
  <2>1. CASE Reader!ConsumerTestDone(t)
    BY <2>1 DEF Reader!ConsumerTestDone, Reader!ConsumerGoto, TaskFrame, Reader!input,
                Reader!loadVars
  <2>2. CASE Reader!ConsumerTestEmpty(t)
    BY <2>2 DEF Reader!ConsumerTestEmpty, Reader!ConsumerGoto, TaskFrame, Reader!input,
                Reader!loadVars
  <2> QED
    BY <2>1, <2>2
<1>1. to \in PcValues \ {"idle", "dead"} /\ to # "add"
  BY DEF PcValues
<1>2. /\ queue \in Seq(Nodes) /\ parsed \in Seq(Nodes) /\ NumConsumers \in Nat
      /\ held \in [1..NumConsumers -> Nodes \cup {Reader!NoNode}]
      /\ pc \in [0..NumConsumers -> PcValues]
  BY ReaderTypes
<1>3. to = "finish" => (producerDone /\ queue = <<>>)
  BY <1>0, SameNodes DEF IInv, ConsumersInv
<1>4. \A u \in 1..NumConsumers : pc'[u] = "add" <=> pc[u] = "add"
  BY <1>0, <1>1, <1>2
<1>5. \A N \in SUBSET Nodes :
         Count(parsed', N) + Count(queue', N) + Cardinality(HeldIn(N)')
            = Count(parsed, N) + Count(queue, N) + Cardinality(HeldIn(N))
  BY <1>0, <1>4, InFlightSame
<1>6. queue' \in Seq(Nodes) /\ parsed' \in Seq(Nodes) /\ (queue = <<>> => queue' = <<>>)
      /\ held' \in [1..NumConsumers -> Nodes \cup {Reader!NoNode}]
      /\ \A u \in 1..NumConsumers : u # t => held'[u] = held[u]
  BY <1>0, <1>2
<1>7. pc[t] \notin {"idle", "finish"} /\ (to = "add" => held'[t] \in Nodes)
  BY <1>0, <1>1
<1> QED
  BY <1>0, <1>1, <1>3, <1>5, <1>6, <1>7, ConsumerStepInv

(* get_nowait: a node goes from the queue to the consumer, or the queue    *)
(* was empty.                                                              *)
LEMMA ConsumerGetInv ==
    ASSUME IInv, analysing, stage = "parse", NEW t \in 1..NumConsumers,
           Reader!ConsumerGet(t), UNCHANGED <<treeVars, analysing>>
    PROVE  IInv'
<1>0. /\ pc[t] = "get" /\ pc' = [pc EXCEPT ![t] = IF queue = <<>> THEN "loop" ELSE "add"]
      /\ IF queue = <<>> THEN queue' = queue /\ held' = held
         ELSE held' = [held EXCEPT ![t] = Head(queue)] /\ queue' = Tail(queue)
      /\ UNCHANGED <<assigned, active, master, next, producerDone, parsed>>
      /\ TaskFrame
  BY DEF Reader!ConsumerGet, Reader!ConsumerGoto, TaskFrame, Reader!input, Reader!loadVars
<1>1. /\ queue \in Seq(Nodes) /\ parsed \in Seq(Nodes) /\ NumConsumers \in Nat
      /\ held \in [1..NumConsumers -> Nodes \cup {Reader!NoNode}]
      /\ pc \in [0..NumConsumers -> PcValues]
  BY ReaderTypes
<1>2. CASE queue = <<>>
  <2>1. "loop" \in PcValues \ {"idle", "dead"} /\ pc[t] \notin {"idle", "finish"}
    BY <1>0 DEF PcValues
  <2>2. pc' = [pc EXCEPT ![t] = "loop"] /\ queue' = queue /\ held' = held
    BY <1>0, <1>2
  <2>3. \A u \in 1..NumConsumers : pc'[u] = "add" <=> pc[u] = "add"
    BY <1>0, <1>1, <2>2
  <2>4. \A N \in SUBSET Nodes :
           Count(parsed', N) + Count(queue', N) + Cardinality(HeldIn(N)')
              = Count(parsed, N) + Count(queue, N) + Cardinality(HeldIn(N))
    BY <1>0, <2>2, <2>3, InFlightSame
  <2>5. queue' \in Seq(Nodes) /\ parsed' \in Seq(Nodes) /\ (queue = <<>> => queue' = <<>>)
        /\ held' \in [1..NumConsumers -> Nodes \cup {Reader!NoNode}]
        /\ \A u \in 1..NumConsumers : u # t => held'[u] = held[u]
    BY <1>0, <1>1, <2>2
  <2> QED
    BY <1>0, <2>1, <2>2, <2>4, <2>5, ConsumerStepInv
<1>3. CASE queue # <<>>
  <2>1. "add" \in PcValues \ {"idle", "dead"} /\ pc[t] \notin {"idle", "finish"}
    BY <1>0 DEF PcValues
  <2>2. /\ pc' = [pc EXCEPT ![t] = "add"] /\ queue' = Tail(queue)
        /\ held' = [held EXCEPT ![t] = Head(queue)]
    BY <1>0, <1>3
  <2>3. Head(queue) \in Nodes /\ Tail(queue) \in Seq(Nodes)
    BY <1>1, <1>3
  <2>4. /\ queue' \in Seq(Nodes) /\ parsed' \in Seq(Nodes) /\ held'[t] = Head(queue)
        /\ held' \in [1..NumConsumers -> Nodes \cup {Reader!NoNode}]
        /\ \A u \in 1..NumConsumers : u # t => held'[u] = held[u]
    BY <1>0, <1>1, <2>2, <2>3
  <2>5. pc'[t] = "add" /\ \A u \in 1..NumConsumers : u # t => pc'[u] = pc[u]
    BY <1>1, <2>2
  <2>6. ASSUME NEW N \in SUBSET Nodes
        PROVE  Count(parsed', N) + Count(queue', N) + Cardinality(HeldIn(N)')
                 = Count(parsed, N) + Count(queue, N) + Cardinality(HeldIn(N))
    <3> DEFINE one == IF Head(queue) \in N THEN 1 ELSE 0
    <3>1. Count(queue, N) = Count(queue', N) + one
      BY <1>1, <1>3, <2>2, CountTail
    <3>2. Cardinality(HeldIn(N)') = Cardinality(HeldIn(N)) + one
      <4>1. t \notin HeldIn(N) /\ IsFiniteSet(HeldIn(N)) /\ Cardinality(HeldIn(N)) \in Nat
        BY <1>0, HeldFinite DEF HeldIn
      <4>2. CASE Head(queue) \in N
        <5>1. HeldIn(N)' = HeldIn(N) \cup {t}
          BY <2>4, <2>5, <4>2, SameNodes DEF HeldIn
        <5> QED
          BY <4>1, <4>2, <5>1, FS_AddElement
      <4>3. CASE Head(queue) \notin N
        <5>1. HeldIn(N)' = HeldIn(N)
          BY <1>0, <2>4, <2>5, <4>3, SameNodes DEF HeldIn
        <5> QED
          BY <4>1, <4>3, <5>1
      <4> QED
        BY <4>2, <4>3
    <3>3. /\ Count(parsed, N) \in Nat /\ Count(queue', N) \in Nat
          /\ Cardinality(HeldIn(N)) \in Nat /\ one \in Nat
      BY <1>1, <2>4, CountIsNat, HeldFinite
    <3> HIDE DEF one
    <3> QED
      BY <1>0, <3>1, <3>2, <3>3
  <2> QED
    BY <1>0, <1>3, <2>1, <2>2, <2>3, <2>4, <2>6, ConsumerStepInv
<1> QED
  BY <1>2, <1>3

(* addChild: the node goes from the consumer to the root.                  *)
LEMMA ConsumerAddInv ==
    ASSUME IInv, analysing, stage = "parse", NEW t \in 1..NumConsumers,
           Reader!ConsumerAdd(t), UNCHANGED <<treeVars, analysing>>
    PROVE  IInv'
<1>0. /\ pc[t] = "add" /\ pc' = [pc EXCEPT ![t] = "loop"]
      /\ parsed' = Append(parsed, held[t]) /\ held' = [held EXCEPT ![t] = Reader!NoNode]
      /\ queue' = queue
      /\ UNCHANGED <<assigned, active, master, next, producerDone>>
      /\ TaskFrame
  BY DEF Reader!ConsumerAdd, Reader!ConsumerGoto, TaskFrame, Reader!input, Reader!loadVars
<1>1. /\ queue \in Seq(Nodes) /\ parsed \in Seq(Nodes) /\ NumConsumers \in Nat
      /\ held \in [1..NumConsumers -> Nodes \cup {Reader!NoNode}]
      /\ pc \in [0..NumConsumers -> PcValues]
  BY ReaderTypes
<1>2. held[t] \in Nodes
  BY <1>0, SameNodes DEF IInv, ConsumersInv
<1>3. "loop" \in PcValues \ {"idle", "dead"} /\ pc[t] \notin {"idle", "finish"}
  BY <1>0 DEF PcValues
<1>4. /\ queue' \in Seq(Nodes) /\ parsed' \in Seq(Nodes) /\ (queue = <<>> => queue' = <<>>)
      /\ held' \in [1..NumConsumers -> Nodes \cup {Reader!NoNode}]
      /\ \A u \in 1..NumConsumers : u # t => held'[u] = held[u]
  BY <1>0, <1>1, <1>2
<1>5. pc'[t] = "loop" /\ \A u \in 1..NumConsumers : u # t => pc'[u] = pc[u]
  BY <1>0, <1>1
<1>6. ASSUME NEW N \in SUBSET Nodes
      PROVE  Count(parsed', N) + Count(queue', N) + Cardinality(HeldIn(N)')
               = Count(parsed, N) + Count(queue, N) + Cardinality(HeldIn(N))
  <2> DEFINE one == IF held[t] \in N THEN 1 ELSE 0
  <2>1. Count(parsed', N) = Count(parsed, N) + one
    BY <1>0, <1>1, <1>2, CountAppend
  <2>2. HeldIn(N)' = HeldIn(N) \ {t}
    BY <1>4, <1>5, SameNodes DEF HeldIn
  <2>3. t \in HeldIn(N) <=> held[t] \in N
    BY <1>0, SameNodes DEF HeldIn
  <2>4. IsFiniteSet(HeldIn(N)) /\ Cardinality(HeldIn(N)) \in Nat
    BY HeldFinite
  <2>5. Cardinality(HeldIn(N)') = Cardinality(HeldIn(N)) - one
    <3>1. Cardinality(HeldIn(N) \ {t})
             = IF t \in HeldIn(N) THEN Cardinality(HeldIn(N)) - 1 ELSE Cardinality(HeldIn(N))
      BY <2>4, FS_RemoveElement
    <3> QED
      BY <2>2, <2>3, <2>4, <3>1
  <2>6. Count(parsed, N) \in Nat /\ Count(queue, N) \in Nat /\ one \in Nat
    BY <1>1, CountIsNat
  <2> HIDE DEF one
  <2> QED
    BY <1>0, <2>1, <2>4, <2>5, <2>6
<1> QED
  BY <1>0, <1>3, <1>4, <1>6, ConsumerStepInv

-----------------------------------------------------------------------------
(* The end of a file.                                                      *)

(* Whatever order the nodes of a complete file are in ...                  *)
LEMMA SubtreePermuted ==
    ASSUME NEW s \in Seq(Nodes), NEW t \in Seq(Nodes),
           \A N \in SUBSET Nodes : Count(s, N) = Count(t, N), SubtreeFile(t)
    PROVE  SubtreeFile(s)
<1>1. ASSUME NEW i \in 1..Len(s) PROVE \E j \in 1..Len(t) : t[j] = s[i]
  BY SameCountsElements
<1>2. ASSUME NEW j \in 1..Len(t) PROVE \E i \in 1..Len(s) : s[i] = t[j]
  BY SameCountsElements
<1>3. ASSUME NEW i \in 1..Len(s)
      PROVE  /\ s[i].id = 0 => s[i].parent = NoId
             /\ s[i].id # 0 => /\ s[i].parent \in 0..(s[i].id - 1)
                               /\ \E j \in 1..Len(s) : s[j].id = s[i].parent
  <2>1. PICK j \in 1..Len(t) : t[j] = s[i]
    BY <1>1
  <2>2. CASE s[i].id = 0
    BY <2>1, <2>2 DEF SubtreeFile
  <2>3. CASE s[i].id # 0
    <3>1. /\ s[i].parent \in 0..(s[i].id - 1)
          /\ \E k \in 1..Len(t) : t[k].id = s[i].parent
      BY <2>1, <2>3 DEF SubtreeFile
    <3>2. PICK k \in 1..Len(t) : t[k].id = s[i].parent
      BY <3>1
    <3>3. PICK m \in 1..Len(s) : s[m] = t[k]
      BY <1>2
    <3> QED
      BY <2>3, <3>1, <3>2, <3>3
  <2> QED
    BY <2>2, <2>3
<1>4. s # <<>> => \E i \in 1..Len(s) : s[i].id = 0
  <2> SUFFICES ASSUME s # <<>> PROVE \E i \in 1..Len(s) : s[i].id = 0
    OBVIOUS
  <2>1. 1 \in 1..Len(s)
    OBVIOUS
  <2>2. PICK j \in 1..Len(t) : t[j] = s[1]
    BY <1>1, <2>1
  <2>3. t # <<>>
    BY <2>2
  <2>4. PICK k \in 1..Len(t) : t[k].id = 0
    BY <2>3 DEF SubtreeFile
  <2>5. PICK m \in 1..Len(s) : s[m] = t[k]
    BY <1>2
  <2> QED
    BY <2>4, <2>5
<1>5. \A i \in 1..Len(s) :
         /\ s[i].id = 0 => s[i].parent = NoId
         /\ s[i].id # 0 => /\ s[i].parent \in 0..(s[i].id - 1)
                           /\ \E j \in 1..Len(s) : s[j].id = s[i].parent
  BY <1>3
<1> QED
  BY <1>4, <1>5 DEF SubtreeFile

(* ... and whatever complete file it is read after.                        *)
LEMMA SubtreeConcat ==
    ASSUME NEW s \in Seq(Nodes), NEW t \in Seq(Nodes), SubtreeFile(s), SubtreeFile(t)
    PROVE  SubtreeFile(s \o t)
<1> DEFINE u == s \o t
<1>1. /\ Len(s) \in Nat /\ Len(t) \in Nat /\ Len(u) = Len(s) + Len(t)
      /\ \A i \in 1..Len(s) : u[i] = s[i]
      /\ \A i \in 1..Len(t) : u[Len(s) + i] = t[i]
  OBVIOUS
<1>2. u # <<>> => (s # <<>> \/ t # <<>>)
  OBVIOUS
<1> HIDE DEF u
<1>3. ASSUME NEW i \in 1..Len(u)
      PROVE  /\ u[i].id = 0 => u[i].parent = NoId
             /\ u[i].id # 0 => /\ u[i].parent \in 0..(u[i].id - 1)
                               /\ \E j \in 1..Len(u) : u[j].id = u[i].parent
  <2>1. CASE i \in 1..Len(s)
    <3>1. u[i] = s[i]
      BY <1>1, <2>1
    <3>2. /\ s[i].id = 0 => s[i].parent = NoId
          /\ s[i].id # 0 => /\ s[i].parent \in 0..(s[i].id - 1)
                            /\ \E j \in 1..Len(s) : s[j].id = s[i].parent
      BY <2>1 DEF SubtreeFile
    <3>3. ASSUME NEW j \in 1..Len(s) PROVE j \in 1..Len(u) /\ u[j] = s[j]
      BY <1>1
    <3> QED
      BY <3>1, <3>2, <3>3
  <2>2. CASE i \notin 1..Len(s)
    <3>1. PICK k \in 1..Len(t) : i = Len(s) + k
      <4>1. i - Len(s) \in 1..Len(t) /\ i = Len(s) + (i - Len(s))
        BY <1>1, <2>2
      <4> QED
        BY <4>1
    <3>2. u[i] = t[k]
      BY <1>1, <3>1
    <3>3. /\ t[k].id = 0 => t[k].parent = NoId
          /\ t[k].id # 0 => /\ t[k].parent \in 0..(t[k].id - 1)
                            /\ \E j \in 1..Len(t) : t[j].id = t[k].parent
      BY DEF SubtreeFile
    <3>4. ASSUME NEW j \in 1..Len(t) PROVE Len(s) + j \in 1..Len(u) /\ u[Len(s) + j] = t[j]
      BY <1>1
    <3> QED
      BY <3>2, <3>3, <3>4
  <2> QED
    BY <2>1, <2>2
<1>4. u # <<>> => \E i \in 1..Len(u) : u[i].id = 0
  <2>1. CASE s # <<>>
    <3>1. PICK i \in 1..Len(s) : s[i].id = 0
      BY <2>1 DEF SubtreeFile
    <3>2. i \in 1..Len(u) /\ u[i] = s[i]
      BY <1>1
    <3> QED
      BY <3>1, <3>2
  <2>2. CASE t # <<>>
    <3>1. PICK i \in 1..Len(t) : t[i].id = 0
      BY <2>2 DEF SubtreeFile
    <3>2. Len(s) + i \in 1..Len(u) /\ u[Len(s) + i] = t[i]
      BY <1>1
    <3> QED
      BY <3>1, <3>2
  <2> QED
    BY <1>2, <2>1, <2>2
<1>5. \A i \in 1..Len(u) :
         /\ u[i].id = 0 => u[i].parent = NoId
         /\ u[i].id # 0 => /\ u[i].parent \in 0..(u[i].id - 1)
                           /\ \E j \in 1..Len(u) : u[j].id = u[i].parent
  BY <1>3
<1>6. SubtreeFile(u)
  BY <1>4, <1>5 DEF SubtreeFile
<1> QED
  BY <1>6 DEF u

(* A file the scripts read is complete.                                    *)
LEMMA ReadFilesComplete ==
    ASSUME IInv, analysing, NEW k \in 1..Len(files) PROVE SubtreeFile(files[k])
<1>1. TreeInv /\ phase = "none" /\ files # <<>> /\ FilesComplete /\ Len(files) \in Nat
  BY DEF IInv, StartInv, TreeInv, TreeTypeOK
<1>2. CASE k = Len(files)
  BY <1>1, <1>2, LastComplete DEF Last
<1>3. CASE k # Len(files)
  BY <1>1, <1>3 DEF FilesComplete
<1> QED
  BY <1>2, <1>3

(* When finish() returns the tasks have done all their work: what was      *)
(* parsed is what the file holds.                                          *)
LEMMA FileParsed ==
    ASSUME IInv, analysing, stage = "parse", assigned > NumConsumers, master = -1, active = {}
    PROVE  /\ \A t \in 0..NumConsumers : pc[t] = "idle"
           /\ fileNo \in 1..Len(files)
           /\ files[fileNo] \in Seq(Nodes)
           /\ \A N \in SUBSET Nodes : Count(parsed, N) = Count(files[fileNo], N)
<1>1. /\ assigned \in 0..(NumConsumers + 1) /\ NumConsumers \in Nat \ {0}
      /\ pc \in [0..NumConsumers -> PcValues] /\ parsed \in Seq(Nodes)
  BY ReaderTypes
<1>2. ASSUME NEW t \in 0..NumConsumers PROVE pc[t] = "idle"
  <2>1. {u \in 0..NumConsumers : pc[u] # "idle" /\ u # -1} = {}
    BY SameNodes DEF IInv, WorkersInv
  <2> QED
    BY <1>1, <2>1
<1>3. fileNo \in 1..Len(files)
  BY DEF IInv, StartInv
<1>4. files[fileNo] \in Seq(Nodes) /\ Len(files[fileNo]) \in Nat
  BY <1>3, FileLength DEF IInv
<1>5. producerDone
  BY <1>1, <1>2 DEF IInv, ProducerInv
<1>6. next = Len(files[fileNo]) + 1
  BY <1>5 DEF IInv, ProducerInv
<1>7. queue = <<>>
  <2>1. 1 \in 1..NumConsumers /\ 1 < assigned /\ pc[1] = "idle"
    BY <1>1, <1>2
  <2> QED
    BY <2>1, SameNodes DEF IInv, ConsumersInv
<1>8. ASSUME NEW N \in SUBSET Nodes PROVE Count(parsed, N) = Count(files[fileNo], N)
  <2>1. HeldIn(N) = {}
    BY <1>1, <1>2, SameNodes DEF HeldIn
  <2>2. Cardinality(HeldIn(N)) = 0
    BY <2>1, FS_EmptySet
  <2>3. Count(queue, N) = 0
    BY <1>7, CountZero DEF Count
  <2>4. Count(parsed, N) + Count(queue, N) + Cardinality(HeldIn(N))
                   = CountTo(files[fileNo], next - 1, N)
    BY DEF IInv, CountInv, Counted
  <2>5. next - 1 = Len(files[fileNo]) /\ Count(parsed, N) \in Nat
    BY <1>1, <1>4, <1>6, CountIsNat
  <2> QED
    BY <2>2, <2>3, <2>4, <2>5 DEF Count
<1> QED
  BY <1>2, <1>3, <1>4, <1>8

(* finish: what was parsed joins the children, and the next file is read.  *)
LEMMA FinishFileInv ==
    ASSUME IInv, analysing, Reader!FinishFile, UNCHANGED <<treeVars, analysing>>
    PROVE  IInv'
<1>0. /\ stage = "parse" /\ assigned > NumConsumers /\ master = -1 /\ active = {}
      /\ children' = children \o parsed /\ parsed' = <<>> /\ fileNo' = fileNo + 1
      /\ assigned' = 0 /\ next' = 1 /\ queue' = <<>> /\ producerDone' = FALSE
      /\ stage' = IF fileNo < Len(files) THEN "parse"
                  ELSE IF children' = <<>> THEN "done" ELSE "load"
      /\ UNCHANGED <<truncated, maxWorkers, active, master, pc, held>>
      /\ UNCHANGED <<loaded, contextDict, rootSet, parentRoot, childIds>>
      /\ files' = files /\ analysing'
  BY SameNodes DEF Reader!FinishFile, Reader!input, Reader!loadVars, treeVars
<1>1. /\ \A t \in 0..NumConsumers : pc[t] = "idle"
      /\ fileNo \in 1..Len(files)
      /\ files[fileNo] \in Seq(Nodes)
      /\ \A N \in SUBSET Nodes : Count(parsed, N) = Count(files[fileNo], N)
  BY <1>0, FileParsed
<1>2. /\ parsed \in Seq(Nodes) /\ children \in Seq(Nodes) /\ loaded \in 0..Len(children)
      /\ Len(files) \in Nat /\ fileNo \in Nat /\ NumConsumers \in Nat
  BY SameNodes, ReaderTypes DEF IInv, Reader!ReaderTypeOK, TreeInv, TreeTypeOK
<1>3. /\ children' \in Seq(Nodes)
      /\ Len(children) \in Nat /\ Len(parsed) \in Nat
      /\ Len(children') = Len(children) + Len(parsed)
      /\ \A i \in 1..Len(children) : children'[i] = children[i]
      /\ \A i \in 1..Len(parsed) : children'[Len(children) + i] = parsed[i]
  BY <1>0, <1>2
<1>4. loaded = 0
  BY <1>0 DEF IInv, LoadInv
<1>5. TreeInv' /\ TreeInv
  BY TreeUnchangedInv DEF IInv
<1>6. Reader!ReaderTypeOK'
  <2>1. /\ children' \in Seq(Reader!Nodes) /\ parsed' \in Seq(Reader!Nodes)
        /\ queue' \in Seq(Reader!Nodes) /\ loaded' \in 0..Len(children')
    BY <1>0, <1>3, <1>4, SameNodes
  <2>2. /\ fileNo' \in Nat /\ assigned' \in 0..(NumConsumers + 1) /\ next' \in Nat
    BY <1>0, <1>2
  <2>3. stage' \in {"parse", "load", "done", "failed"} /\ producerDone' \in BOOLEAN
    BY <1>0
  <2>4. parentRoot' \in [Reader!Ids \cup {Reader!NoId} -> SUBSET (1..Len(children'))]
    <3>1. 1..Len(children) \subseteq 1..Len(children')
      BY <1>3
    <3>2. parentRoot \in [Reader!Ids \cup {Reader!NoId} -> SUBSET (1..Len(children))]
      BY DEF IInv, Reader!ReaderTypeOK
    <3> QED
      BY <1>0, <3>1, <3>2
  <2> QED
    BY <1>0, <2>1, <2>2, <2>3, <2>4 DEF IInv, Reader!ReaderTypeOK
<1>7. StartInv'
  <2>1. stage' = "parse" => fileNo' \in 1..Len(files)
    BY <1>0, <1>1, <1>2
  <2>2. stage' \in {"load", "done"} => fileNo' = Len(files) + 1
    BY <1>0, <1>1, <1>2
  <2>3. phase' = "none" /\ files' # <<>>
    BY <1>0 DEF IInv, StartInv, treeVars
  <2> QED
    BY <1>0, <2>1, <2>2, <2>3 DEF StartInv
<1>8. WorkersInv'
  <2>1. \A u \in 0..NumConsumers : pc'[u] = "idle"
    BY <1>0, <1>1
  <2> QED
    BY <1>0, <2>1, SameNodes DEF WorkersInv
<1>9. ProducerInv'
  <2>1. pc'[0] = "idle"
    BY <1>0, <1>1, <1>2
  <2>2. stage' = "parse" => next' \in 1..(Len(files'[fileNo']) + 1)
    <3> SUFFICES ASSUME stage' = "parse" PROVE next' \in 1..(Len(files'[fileNo']) + 1)
      OBVIOUS
    <3>1. fileNo' \in 1..Len(files)
      BY <1>0, <1>1, <1>2
    <3>2. Len(files[fileNo']) \in Nat
      BY <1>5, <3>1, FileLength
    <3> QED
      BY <1>0, <3>2
  <2> QED
    BY <1>0, <2>1, <2>2 DEF ProducerInv
<1>10. ConsumersInv'
  <2>1. \A u \in 1..NumConsumers : pc'[u] = "idle" /\ ~ (u < assigned')
    BY <1>0, <1>1, <1>2
  <2> QED
    BY <2>1, SameNodes DEF ConsumersInv
<1>11. CountInv'
  <2>1. ASSUME NEW N \in SUBSET Nodes PROVE Counted(N)'
    <3>1. Count(children', N) = Count(children, N) + Count(parsed, N)
      BY <1>0, <1>2, CountConcat
    <3>2. Cardinality(PastFiles(fileNo + 1, N))
             = Cardinality(PastFiles(fileNo, N)) + Count(files[fileNo], N)
      BY <1>1, <1>5, PastFilesNext
    <3>3. Count(children, N) = Cardinality(PastFiles(fileNo, N))
      BY DEF IInv, CountInv, Counted
    <3>4. PastFiles(fileNo, N)' = PastFiles(fileNo + 1, N)
      BY <1>0 DEF PastFiles, Reader!InFiles
    <3>5. Count(children', N) = Cardinality(PastFiles(fileNo, N)')
      BY <1>1, <3>1, <3>2, <3>3, <3>4
    <3>6. HeldIn(N)' = {}
      BY <1>0, <1>1, <1>2, SameNodes DEF HeldIn
    <3>7. /\ Cardinality(HeldIn(N)') = 0 /\ Count(<<>>, N) = 0
          /\ CountTo(files[fileNo'], 0, N) = 0
      BY <3>6, FS_EmptySet, CountZero DEF Count
    <3>8. Count(parsed', N) + Count(queue', N) + Cardinality(HeldIn(N)')
             = CountTo(files[fileNo'], next' - 1, N)
      BY <1>0, <3>7
    <3> QED
      BY <1>0, <3>5, <3>8 DEF Counted
  <2> QED
    BY <2>1 DEF CountInv
<1>12. ChildrenInv'
  <2>1. SubtreeFile(files[fileNo]) /\ SubtreeFile(children)
    BY <1>1, ReadFilesComplete DEF IInv, ChildrenInv
  <2>2. SubtreeFile(parsed)
    BY <1>1, <1>2, <2>1, SubtreePermuted
  <2>3. SubtreeFile(children')
    BY <1>0, <1>2, <2>1, <2>2, SubtreeConcat
  <2>4. ASSUME NEW i \in 1..Len(parsed), NEW j \in 1..Len(parsed), parsed[i].id = parsed[j].id
        PROVE  i = j
    <3>1. \A x, y \in 1..Len(files[fileNo]) : files[fileNo][x].id = files[fileNo][y].id => x = y
      BY <1>1, <1>5 DEF TreeInv, FilesDistinct
    <3> QED
      BY <1>1, <1>2, <2>4, <3>1, SameCountsDistinct
  <2>5. ASSUME NEW p \in 1..Len(children'), p \notin 1..Len(children)
        PROVE  p - Len(children) \in 1..Len(parsed)
               /\ children'[p] = parsed[p - Len(children)]
    <3>1. p - Len(children) \in 1..Len(parsed) /\ p = Len(children) + (p - Len(children))
      BY <1>3, <2>5
    <3> QED
      BY <1>3, <3>1
  <2>6. ASSUME NEW p \in 1..Len(children'), NEW q \in 1..Len(children'), p < q,
               children'[p].id = children'[q].id, children'[p].id # 0
        PROVE  \E r \in 1..(q - 1) : children'[r].id = children'[p].parent
    <3>1. CASE q \in 1..Len(children)
      <4>1. p \in 1..Len(children)
        BY <1>3, <2>6, <3>1
      <4>2. children'[p] = children[p] /\ children'[q] = children[q]
        BY <1>3, <3>1, <4>1
      <4>3. PICK r \in 1..(q - 1) : children[r].id = children[p].parent
        BY <2>6, <3>1, <4>1, <4>2 DEF IInv, ChildrenInv
      <4>4. children'[r] = children[r]
        BY <1>3, <3>1
      <4> QED
        BY <4>2, <4>3, <4>4
    <3>2. CASE q \notin 1..Len(children) /\ p \in 1..Len(children)
      <4>1. children'[p] = children[p]
        BY <1>3, <3>2
      <4>2. PICK r \in 1..Len(children) : children[r].id = children[p].parent
        BY <2>1, <2>6, <3>2, <4>1 DEF SubtreeFile
      <4>3. r \in 1..(q - 1) /\ children'[r] = children[r]
        BY <1>3, <3>2
      <4> QED
        BY <4>1, <4>2, <4>3
    <3>3. CASE q \notin 1..Len(children) /\ p \notin 1..Len(children)
      <4>1. p - Len(children) = q - Len(children)
        BY <2>4, <2>5, <2>6, <3>3
      <4> QED
        BY <1>3, <2>6, <4>1
    <3> QED
      BY <3>1, <3>2, <3>3
  <2>7. fileNo' # 1
    BY <1>0, <1>1, <1>2
  <2>8. ASSUME fileNo' = 2, NEW p \in 1..Len(children'), NEW q \in 1..Len(children'),
               children'[p].id = children'[q].id
        PROVE  p = q
    <3>1. fileNo = 1
      BY <1>0, <1>2, <2>8
    <3>2. children = <<>>
      BY <3>1 DEF IInv, ChildrenInv
    <3>3. children' = parsed
      BY <1>0, <1>2, <3>2
    <3> QED
      BY <2>4, <2>8, <3>3
  <2>9. \A p, q \in 1..Len(children') :
          (p < q /\ children'[p].id = children'[q].id /\ children'[p].id # 0) =>
              \E r \in 1..(q - 1) : children'[r].id = children'[p].parent
    BY <2>6
  <2>10. fileNo' = 2 =>
           \A p, q \in 1..Len(children') : children'[p].id = children'[q].id => p = q
    BY <2>8
  <2> QED
    BY <2>3, <2>7, <2>9, <2>10 DEF ChildrenInv
<1>13. 1..loaded = {} /\ 1..loaded' = {}
  BY <1>0, <1>4
<1>14. LoadInv'
  <2>1. /\ \A c \in Ids : contextDict[c] = Reader!Unknown
        /\ \A c \in Ids \cup {NoId} : parentRoot[c] = {}
        /\ rootSet = {}
    BY <1>13 DEF IInv, LoadInv, Known
  <2>2. stage' = "done" => loaded' = Len(children')
    BY <1>0, <1>4
  <2>3. stage' = "parse" => loaded' = 0
    BY <1>0, <1>4
  <2> QED
    BY <1>0, <1>13, <2>1, <2>2, <2>3 DEF LoadInv, Known
<1>15. RebuildInv'
  <2> SUFFICES ASSUME fileNo' <= 2 PROVE RebuildInv'
    BY DEF RebuildInv
  <2>1. fileNo <= 2
    BY <1>0, <1>2
  <2>2. \A c \in Ids : childIds[c] = {}
    BY <1>13, <2>1 DEF IInv, RebuildInv, Known
  <2> QED
    BY <1>0, <1>13, <2>2 DEF RebuildInv, Known
<1>16. FailInv' /\ NonEmptyLoad'
  BY <1>0 DEF FailInv, NonEmptyLoad
<1> QED
  BY <1>5, <1>6, <1>7, <1>8, <1>9, <1>10, <1>11, <1>12, <1>14, <1>15, <1>16 DEF IInv

-----------------------------------------------------------------------------
(* load_context.                                                           *)

(* The types of the load, and what is said of every child.                 *)
LEMMA LoadTypes ==
    ASSUME IInv
    PROVE  /\ children \in Seq(Nodes) /\ Len(children) \in Nat
           /\ loaded \in 0..Len(children)
           /\ contextDict \in [Ids -> Frames \cup {NoFrame, Reader!Unknown}]
           /\ rootSet \subseteq Ids
           /\ parentRoot \in [Ids \cup {NoId} -> SUBSET (1..Len(children))]
           /\ childIds \in [Ids -> SUBSET Ids]
           /\ \A p \in 1..Len(children) :
                /\ children[p] \in Nodes
                /\ children[p].id \in Ids
                /\ children[p].parent \in Ids \cup {NoId}
                /\ children[p].frame \in Frames \cup {NoFrame}
                /\ children[p].id = 0 => children[p].parent = NoId
                /\ children[p].id # 0 => children[p].parent \in 0..(children[p].id - 1)
<1>1. /\ children \in Seq(Nodes)
      /\ loaded \in 0..Len(children)
      /\ contextDict \in [Ids -> Frames \cup {NoFrame, Reader!Unknown}]
      /\ rootSet \subseteq Ids
      /\ parentRoot \in [Ids \cup {NoId} -> SUBSET (1..Len(children))]
      /\ childIds \in [Ids -> SUBSET Ids]
  BY SameNodes DEF IInv, Reader!ReaderTypeOK
<1>2. ASSUME NEW p \in 1..Len(children)
      PROVE  /\ children[p] \in Nodes
             /\ children[p].id \in Ids
             /\ children[p].parent \in Ids \cup {NoId}
             /\ children[p].frame \in Frames \cup {NoFrame}
             /\ children[p].id = 0 => children[p].parent = NoId
             /\ children[p].id # 0 => children[p].parent \in 0..(children[p].id - 1)
  <2>1. children[p] \in Nodes
    BY <1>1
  <2>2. /\ children[p].id = 0 => children[p].parent = NoId
        /\ children[p].id # 0 => children[p].parent \in 0..(children[p].id - 1)
    BY DEF IInv, ChildrenInv, SubtreeFile
  <2> QED
    BY <2>1, <2>2 DEF Nodes
<1>3. Len(children) \in Nat
  BY <1>1
<1> QED
  BY <1>1, <1>2, <1>3

(* No two children with the same id wait for their parents, although ids   *)
(* may occur in several files.                                             *)
LEMMA WaitingDistinct ==
    ASSUME IInv, NEW p \in 1..loaded, NEW q \in 1..loaded, Waits(p), Waits(q),
           children[p].id = children[q].id
    PROVE  p = q
<1>1. /\ loaded \in 0..Len(children) /\ Len(children) \in Nat
  BY LoadTypes
<1>2. ASSUME NEW x \in 1..loaded, NEW y \in 1..loaded, Waits(x), Waits(y), x < y,
             children[x].id = children[y].id
      PROVE  FALSE
  <2>1. CASE children[x].id = 0
    <3>1. x \in 1..(y - 1)
      BY <1>1, <1>2
    <3> QED
      BY <1>2, <2>1, <3>1 DEF Waits
  <2>2. CASE children[x].id # 0
    <3>1. x \in 1..Len(children) /\ y \in 1..Len(children)
      BY <1>1
    <3>2. PICK r \in 1..(y - 1) : children[r].id = children[x].parent
      BY <1>2, <2>2, <3>1 DEF IInv, ChildrenInv
    <3>3. r \in 1..loaded
      BY <1>1
    <3> QED
      BY <1>2, <2>2, <3>2, <3>3 DEF Waits, Known
  <2> QED
    BY <2>1, <2>2
<1>3. p < q \/ q < p \/ p = q
  BY <1>1
<1> QED
  BY <1>2, <1>3

(* What the load leaves alone.                                             *)
LoadFrame ==
    /\ analysing /\ stage = "load"
    /\ UNCHANGED <<treeVars, analysing, truncated, maxWorkers, fileNo, assigned, active, master,
                   pc, next, queue, producerDone, held, parsed, children>>

(* It cannot disturb what is said of the tasks and the children.           *)
LEMMA LoadFrameInv ==
    ASSUME IInv, LoadFrame, stage' # "parse"
    PROVE  /\ TreeInv' /\ WorkersInv' /\ ProducerInv' /\ ConsumersInv' /\ CountInv'
           /\ ChildrenInv' /\ StartInv'
<1>1. TreeInv'
  BY TreeUnchangedInv DEF IInv, LoadFrame
<1>2. files' = files /\ phase' = phase
  BY DEF LoadFrame, treeVars
<1>3. WorkersInv' /\ ProducerInv' /\ ConsumersInv'
  BY <1>2 DEF IInv, LoadFrame, WorkersInv, ProducerInv, ConsumersInv
<1>4. CountInv'
  <2>1. ASSUME NEW N \in SUBSET Nodes PROVE Counted(N)'
    <3>1. PastFiles(fileNo, N)' = PastFiles(fileNo, N)
      BY <1>2 DEF LoadFrame, PastFiles, Reader!InFiles
    <3>2. Counted(N)
      BY DEF IInv, CountInv
    <3> QED
      BY <3>1, <3>2 DEF Counted, LoadFrame
  <2> QED
    BY <2>1 DEF CountInv
<1>5. ChildrenInv'
  BY DEF IInv, LoadFrame, ChildrenInv, SubtreeFile
<1>6. StartInv'
  BY <1>2 DEF IInv, LoadFrame, StartInv
<1> QED
  BY <1>1, <1>3, <1>4, <1>5, <1>6

(* The types of what it changes.                                           *)
LEMMA LoadFrameTypes ==
    ASSUME IInv, LoadFrame,
           stage' \in {"parse", "load", "done", "failed"},
           loaded' \in 0..Len(children),
           contextDict' \in [Ids -> Frames \cup {NoFrame, Reader!Unknown}],
           rootSet' \subseteq Ids,
           parentRoot' \in [Ids \cup {NoId} -> SUBSET (1..Len(children))],
           childIds' \in [Ids -> SUBSET Ids]
    PROVE  Reader!ReaderTypeOK'
BY SameNodes DEF IInv, LoadFrame, Reader!ReaderTypeOK

(* One child more is known.                                                *)
LEMMA KnownNext ==
    ASSUME IInv, loaded' = loaded + 1, children' = children, NEW c
    PROVE  Known(c)' <=> (Known(c) \/ c = children[loaded + 1].id)
<1>1. loaded \in Nat
  BY LoadTypes
<1> QED
  BY <1>1 DEF Known

(* addContext skips the root of a second file.                             *)
LEMMA SkipRootInv ==
    ASSUME IInv, LoadFrame, loaded < Len(children), loaded' = loaded + 1, stage' = stage,
           children[loaded + 1].id = 0, contextDict[0] # Reader!Unknown,
           UNCHANGED <<contextDict, rootSet, parentRoot, childIds>>
    PROVE  IInv'
<1>1. /\ loaded \in Nat /\ Len(children) \in Nat /\ children' = children
      /\ loaded + 1 \in 1..Len(children) /\ fileNo' = fileNo /\ truncated' = truncated
      /\ files' = files /\ stage = "load"
  BY LoadTypes DEF LoadFrame, treeVars
<1>2. 0 \in Ids
  BY ContextTreeAssumption DEF Ids
<1>3. Known(0)
  BY <1>2 DEF IInv, LoadInv
<1>4. ASSUME NEW c PROVE Known(c)' <=> Known(c)
  BY <1>1, <1>3, KnownNext
<1>5. ASSUME NEW q PROVE Waits(q)' <=> Waits(q)
  BY <1>1, <1>4 DEF Waits
<1>6. ~Waits(loaded + 1)
  <2>1. PICK q \in 1..loaded : children[q].id = 0
    BY <1>3 DEF Known
  <2>2. q \in 1..((loaded + 1) - 1)
    BY <1>1
  <2> QED
    BY <2>1, <2>2 DEF Waits
<1>7. ASSUME NEW q PROVE (q \in 1..loaded' /\ Waits(q)) <=> (q \in 1..loaded /\ Waits(q))
  BY <1>1, <1>6
<1>8. LoadInv'
  <2>1. \A c \in Ids : contextDict'[c] # Reader!Unknown <=> Known(c)'
    BY <1>4 DEF IInv, LoadInv
  <2>2. \A c \in Ids \cup {NoId} :
          parentRoot'[c] = {p \in 1..loaded' : children'[p].parent = c /\ Waits(p)'}
    BY <1>1, <1>5, <1>7 DEF IInv, LoadInv
  <2>3. rootSet' = {children'[p].id : p \in {q \in 1..loaded' : Waits(q)'}}
    <3>1. {q \in 1..loaded' : Waits(q)'} = {q \in 1..loaded : Waits(q)}
      BY <1>5, <1>7
    <3> QED
      BY <1>1, <3>1 DEF IInv, LoadInv
  <2> QED
    BY <1>1, <2>1, <2>2, <2>3 DEF LoadInv
<1>9. RebuildInv'
  <2> SUFFICES ASSUME fileNo <= 2 PROVE FALSE
    BY <1>1 DEF RebuildInv
  <2>1. fileNo = 2
    <3>1. fileNo = Len(files) + 1 /\ files # <<>> /\ files \in Seq(Seq(Nodes))
      BY DEF IInv, StartInv, LoadFrame, TreeInv, TreeTypeOK
    <3> QED
      BY <3>1
  <2>2. PICK q \in 1..loaded : children[q].id = 0
    BY <1>3 DEF Known
  <2>3. q \in 1..Len(children) /\ q # loaded + 1
    BY <1>1
  <2> QED
    BY <1>1, <2>1, <2>2, <2>3 DEF IInv, ChildrenInv
<1>10. Reader!ReaderTypeOK'
  <2>1. loaded' \in 0..Len(children)
    BY <1>1
  <2>2. /\ contextDict' \in [Ids -> Frames \cup {NoFrame, Reader!Unknown}]
        /\ rootSet' \subseteq Ids
        /\ parentRoot' \in [Ids \cup {NoId} -> SUBSET (1..Len(children))]
        /\ childIds' \in [Ids -> SUBSET Ids]
    BY LoadTypes
  <2> QED
    BY <1>1, <2>1, <2>2, LoadFrameTypes
<1>11. FailInv' /\ NonEmptyLoad'
  BY <1>1 DEF IInv, FailInv, NonEmptyLoad
<1> QED
  BY <1>1, <1>8, <1>9, <1>10, <1>11, LoadFrameInv DEF IInv

(* addContext takes the next child in: the children that waited for it are *)
(* roots no longer, and it waits itself unless its parent is known.        *)
LEMMA TakeInInv ==
    ASSUME IInv, analysing, Reader!AddContext, UNCHANGED <<treeVars, analysing>>,
           ~ (children[loaded + 1].id = 0 /\ contextDict[0] # Reader!Unknown)
    PROVE  IInv'
<1> DEFINE n       == children[loaded + 1]
           orphans == parentRoot[n.id]
           roots   == rootSet \ {children[q].id : q \in orphans}
           adopted == [childIds EXCEPT ![n.id] = {children[q].id : q \in orphans}]
           waiting == [parentRoot EXCEPT ![n.id] = {}]
           raises  == \/ \E q \in orphans : children[q].id \notin rootSet
                      \/ \E q, r \in orphans : q # r /\ children[q].id = children[r].id
           known   == n.parent # NoId /\ contextDict'[n.parent] # Reader!Unknown
<1>a. LoadFrame /\ loaded < Len(children) /\ loaded' = loaded + 1
  BY DEF Reader!AddContext, LoadFrame, Reader!input, Reader!parseVars
<1>b. /\ contextDict' = [contextDict EXCEPT ![n.id] = n.frame]
      /\ stage' = IF raises THEN "failed" ELSE "load"
      /\ known => /\ childIds' = [adopted EXCEPT ![n.parent] = @ \cup {n.id}]
                  /\ rootSet' = roots
                  /\ parentRoot' = waiting
      /\ ~known => /\ childIds' = adopted
                   /\ rootSet' = roots \cup {n.id}
                   /\ parentRoot' = [waiting EXCEPT ![n.parent] = @ \cup {loaded + 1}]
      /\ n.id = 0 => contextDict[0] = Reader!Unknown
  BY SameNodes DEF Reader!AddContext, Reader!Id, Reader!Adopt, Reader!Waiting
<1>c. /\ known \in BOOLEAN /\ raises \in BOOLEAN
      /\ known <=> (n.parent # NoId /\ contextDict'[n.parent] # Reader!Unknown)
      /\ raises <=> \/ \E q \in orphans : children[q].id \notin rootSet
                    \/ \E q, r \in orphans : q # r /\ children[q].id = children[r].id
      /\ n = children[loaded + 1] /\ orphans = parentRoot[n.id]
      /\ roots = rootSet \ {children[q].id : q \in orphans}
      /\ adopted = [childIds EXCEPT ![n.id] = {children[q].id : q \in orphans}]
      /\ waiting = [parentRoot EXCEPT ![n.id] = {}]
  OBVIOUS
<1> HIDE DEF n, orphans, roots, adopted, waiting, raises, known
<1> USE <1>a, <1>b, <1>c
<1>0. PICK p : p = loaded + 1
  OBVIOUS
<1>1. /\ loaded \in Nat /\ Len(children) \in Nat /\ children' = children /\ p \in 1..Len(children)
      /\ loaded' = p /\ 1..loaded' = (1..loaded) \cup {p} /\ p \notin 1..loaded
      /\ 1..loaded \subseteq 1..Len(children)
      /\ fileNo' = fileNo /\ truncated' = truncated /\ files' = files /\ stage = "load"
  BY <1>0, LoadTypes DEF LoadFrame, treeVars
<1>2. /\ n \in Nodes /\ n.id \in Ids /\ n.parent \in Ids \cup {NoId}
      /\ n.frame \in Frames \cup {NoFrame}
      /\ n.id = 0 => n.parent = NoId
      /\ n.id # 0 => n.parent \in 0..(n.id - 1)
  BY <1>0, <1>1, LoadTypes
<1>3. n.parent # n.id /\ n.id # NoId /\ (n.parent = NoId <=> n.id = 0)
  BY <1>2, ContextTreeAssumption DEF Ids, NoId
<1>4. /\ contextDict \in [Ids -> Frames \cup {NoFrame, Reader!Unknown}]
      /\ rootSet \subseteq Ids
      /\ parentRoot \in [Ids \cup {NoId} -> SUBSET (1..Len(children))]
      /\ childIds \in [Ids -> SUBSET Ids]
  BY LoadTypes
<1>5. ASSUME NEW q \in 1..Len(children)
      PROVE  /\ children[q].id \in Ids /\ children[q].parent \in Ids \cup {NoId}
             /\ children[q].id = 0 <=> children[q].parent = NoId
  <2>1. /\ children[q].id \in Ids /\ children[q].parent \in Ids \cup {NoId}
        /\ children[q].id = 0 => children[q].parent = NoId
        /\ children[q].id # 0 => children[q].parent \in 0..(children[q].id - 1)
    BY LoadTypes
  <2> QED
    BY <2>1, ContextTreeAssumption DEF Ids, NoId
<1>6. /\ \A c \in Ids : contextDict[c] # Reader!Unknown <=> Known(c)
      /\ \A c \in Ids \cup {NoId} :
            parentRoot[c] = {q \in 1..loaded : children[q].parent = c /\ Waits(q)}
      /\ rootSet = {children[q].id : q \in {r \in 1..loaded : Waits(r)}}
  BY DEF IInv, LoadInv
<1>7. \A c : Known(c)' <=> (Known(c) \/ c = n.id)
  BY <1>1, KnownNext
<1>8. \A c \in Ids : contextDict'[c] # Reader!Unknown <=> Known(c)'
  <2>1. ASSUME NEW c \in Ids PROVE contextDict'[c] # Reader!Unknown <=> Known(c)'
    <3>1. CASE c = n.id
      <4>1. contextDict'[c] = n.frame
        BY <1>4, <3>1
      <4> QED
        BY <1>2, <1>7, <3>1, <4>1, SentinelAssumption
    <3>2. CASE c # n.id
      <4>1. contextDict'[c] = contextDict[c]
        BY <1>4, <3>2
      <4> QED
        BY <1>6, <1>7, <3>2, <4>1
    <3> QED
      BY <3>1, <3>2
  <2> QED
    BY <2>1
<1>9. known <=> (n.id # 0 /\ Known(n.parent))
  BY <1>2, <1>3, <1>7, <1>8
<1>10. n.id = 0 => ~Known(0)
  BY <1>2, <1>6
<1>11. ASSUME NEW q \in 1..loaded
       PROVE  Waits(q)' <=> (Waits(q) /\ children[q].parent # n.id)
  <2>1. q \in 1..Len(children)
    BY <1>1
  <2>2. CASE children[q].id = 0
    BY <1>1, <1>3, <1>5, <2>1, <2>2 DEF Waits
  <2>3. CASE children[q].id # 0
    BY <1>1, <1>7, <2>3 DEF Waits
  <2> QED
    BY <2>2, <2>3
<1>12. Waits(p)' <=> ~known
  <2>1. CASE n.id = 0
    <3>1. \A q \in 1..(p - 1) : children[q].id # 0
      <4>1. p - 1 = loaded
        BY <1>0, <1>1
      <4> QED
        BY <1>10, <2>1, <4>1 DEF Known
    <3> QED
      BY <1>0, <1>1, <1>9, <2>1, <3>1 DEF Waits
  <2>2. CASE n.id # 0
    BY <1>0, <1>1, <1>3, <1>7, <1>9, <2>2 DEF Waits
  <2> QED
    BY <2>1, <2>2
<1>13. orphans = {q \in 1..loaded : children[q].parent = n.id /\ Waits(q)}
  BY <1>2, <1>6
<1>14. \A c \in Ids \cup {NoId} :
          parentRoot'[c] = {q \in 1..loaded' : children'[q].parent = c /\ Waits(q)'}
  <2>1. ASSUME NEW c \in Ids \cup {NoId}
        PROVE  parentRoot'[c] = {q \in 1..loaded' : children'[q].parent = c /\ Waits(q)'}
    <3>1. {q \in 1..loaded' : children'[q].parent = c /\ Waits(q)'}
             = {q \in 1..loaded : children[q].parent = c /\ Waits(q) /\ c # n.id}
                  \cup {q \in {p} : n.parent = c /\ ~known}
      BY <1>0, <1>1, <1>11, <1>12
    <3>2. waiting[c] = {q \in 1..loaded : children[q].parent = c /\ Waits(q) /\ c # n.id}
      <4>1. CASE c = n.id
        BY <1>2, <1>4, <4>1
      <4>2. CASE c # n.id
        BY <1>4, <1>6, <4>2
      <4> QED
        BY <4>1, <4>2
    <3>3. CASE known
      BY <3>1, <3>2, <3>3
    <3>4. CASE ~known
      <4>1. waiting \in [Ids \cup {NoId} -> SUBSET (1..Len(children))]
        BY <1>4
      <4>2. parentRoot'[c] = waiting[c] \cup (IF c = n.parent THEN {p} ELSE {})
        BY <1>0, <1>2, <3>4, <4>1
      <4> QED
        BY <3>1, <3>2, <3>4, <4>2
    <3> QED
      BY <3>3, <3>4
  <2> QED
    BY <2>1
<1>15. ~raises
  <2>1. ASSUME NEW q \in orphans PROVE children[q].id \in rootSet
    BY <1>6, <1>13
  <2>2. ASSUME NEW q \in orphans, NEW r \in orphans, children[q].id = children[r].id
        PROVE  q = r
    BY <1>13, <2>2, WaitingDistinct
  <2> QED
    BY <2>1, <2>2
<1>16. rootSet' = {children'[q].id : q \in {r \in 1..loaded' : Waits(r)'}}
  <2>1. {r \in 1..loaded' : Waits(r)'}
           = {r \in 1..loaded : Waits(r) /\ children[r].parent # n.id} \cup {r \in {p} : ~known}
    BY <1>0, <1>1, <1>11, <1>12
  <2>2. roots = {children[q].id : q \in {r \in 1..loaded : Waits(r) /\ children[r].parent # n.id}}
    <3>1. ASSUME NEW q \in 1..loaded, Waits(q), children[q].parent # n.id,
                 NEW r \in orphans
          PROVE  children[q].id # children[r].id
      BY <1>13, <3>1, WaitingDistinct
    <3>2. ASSUME NEW q \in 1..loaded, Waits(q), children[q].id \in roots
          PROVE  children[q].parent # n.id
      BY <1>13, <3>2
    <3> QED
      BY <1>6, <3>1, <3>2
  <2>3. ASSUME NEW x
        PROVE  x \in rootSet' <=> \E q \in {r \in 1..loaded' : Waits(r)'} : x = children[q].id
    <3>1. x \in roots <=>
             \E q \in {r \in 1..loaded : Waits(r) /\ children[r].parent # n.id} :
                x = children[q].id
      BY <2>2
    <3>2. CASE known
      BY <2>1, <3>1, <3>2
    <3>3. CASE ~known
      BY <1>0, <2>1, <3>1, <3>3
    <3> QED
      BY <3>2, <3>3
  <2> QED
    BY <1>1, <2>3
<1>17. LoadInv'
  <2>1. stage' = "load"
    BY <1>15
  <2> QED
    BY <1>8, <1>14, <1>16, <2>1 DEF LoadInv
<1>18. RebuildInv'
  <2> SUFFICES ASSUME fileNo <= 2 PROVE RebuildInv'
    BY <1>1 DEF RebuildInv
  <2>1. fileNo = 2
    <3>1. fileNo = Len(files) + 1 /\ files # <<>> /\ files \in Seq(Seq(Nodes))
      BY DEF IInv, StartInv, LoadFrame, TreeInv, TreeTypeOK
    <3> QED
      BY <3>1
  <2>2. ASSUME NEW q \in 1..loaded PROVE children[q].id # n.id
    <3>1. q \in 1..Len(children) /\ q # p
      BY <1>1
    <3> QED
      BY <1>0, <1>1, <2>1, <3>1 DEF IInv, ChildrenInv
  <2>3. ~Known(n.id)
    BY <2>2 DEF Known
  <2>4. /\ \A q \in 1..loaded : contextDict[children[q].id] = children[q].frame
        /\ \A c \in Ids :
              childIds[c] = IF Known(c)
                  THEN {children[r].id : r \in {q \in 1..loaded : children[q].parent = c}}
                  ELSE {}
    BY DEF IInv, RebuildInv
  <2>5. ASSUME NEW q \in 1..loaded' PROVE contextDict'[children'[q].id] = children'[q].frame
    <3>1. CASE q = p
      BY <1>0, <1>1, <1>2, <1>4, <3>1
    <3>2. CASE q # p
      <4>1. q \in 1..loaded /\ children[q].id \in Ids /\ children[q].id # n.id
        BY <1>1, <1>5, <2>2, <3>2
      <4> QED
        BY <1>1, <1>4, <2>4, <4>1
    <3> QED
      BY <3>1, <3>2
  <2>6. ASSUME NEW c \in Ids
        PROVE  childIds'[c] = IF Known(c)'
                   THEN {children'[r].id : r \in {q \in 1..loaded' : children'[q].parent = c}}
                   ELSE {}
    <3> DEFINE below == {q \in 1..loaded : children[q].parent = c}
    <3>1. {children'[r].id : r \in {q \in 1..loaded' : children'[q].parent = c}}
             = {children[r].id : r \in below} \cup (IF n.parent = c THEN {n.id} ELSE {})
      BY <1>0, <1>1
    <3> HIDE DEF below
    <3>2. adopted \in [Ids -> SUBSET Ids]
      <4>1. {children[q].id : q \in orphans} \subseteq Ids
        BY <1>1, <1>5, <1>13
      <4> QED
        BY <1>2, <1>4, <4>1
    <3>3. CASE c = n.id
      <4>1. adopted[c] = {children[q].id : q \in orphans}
        BY <1>4, <3>3
      <4>2. orphans = below
        <5>1. ASSUME NEW q \in 1..loaded, children[q].parent = n.id PROVE Waits(q)
          BY <1>1, <1>3, <1>5, <2>3, <5>1 DEF Waits
        <5> QED
          BY <1>13, <3>3, <5>1 DEF below
      <4>3. childIds'[c] = adopted[c]
        <5>1. CASE known
          BY <1>3, <3>2, <3>3, <5>1
        <5>2. CASE ~known
          BY <5>2
        <5> QED
          BY <5>1, <5>2
      <4>4. Known(c)' /\ n.parent # c
        BY <1>3, <1>7, <3>3
      <4> QED
        BY <3>1, <4>1, <4>2, <4>3, <4>4
    <3>4. CASE c # n.id /\ c = n.parent
      <4>1. adopted[c] = childIds[c] /\ (Known(c)' <=> Known(c))
        BY <1>4, <1>7, <3>4
      <4>2. CASE known
        <5>1. childIds'[c] = childIds[c] \cup {n.id}
          BY <3>2, <3>4, <4>1, <4>2
        <5>2. Known(c)
          BY <1>9, <3>4, <4>2
        <5> QED
          BY <2>4, <3>1, <3>4, <4>1, <5>1, <5>2 DEF below
      <4>3. CASE ~known
        <5>1. ~Known(c)
          <6>1. n.parent # NoId
            BY <3>4, ContextTreeAssumption DEF Ids, NoId
          <6> QED
            BY <1>3, <1>9, <3>4, <4>3, <6>1
        <5>2. childIds'[c] = childIds[c]
          BY <4>1, <4>3
        <5> QED
          BY <2>4, <4>1, <5>1, <5>2
      <4> QED
        BY <4>2, <4>3
    <3>5. CASE c # n.id /\ c # n.parent
      <4>1. adopted[c] = childIds[c] /\ (Known(c)' <=> Known(c))
        BY <1>4, <1>7, <3>5
      <4>2. childIds'[c] = adopted[c]
        BY <3>2, <3>5
      <4>3. childIds[c] = IF Known(c) THEN {children[r].id : r \in below} ELSE {}
        BY <2>4 DEF below
      <4>4. {children'[r].id : r \in {q \in 1..loaded' : children'[q].parent = c}}
               = {children[r].id : r \in below}
        BY <3>1, <3>5
      <4>5. CASE Known(c)
        <5>1. Known(c)' /\ childIds'[c] = {children[r].id : r \in below}
          BY <4>1, <4>2, <4>3, <4>5
        <5> QED
          BY <4>4, <5>1, Zenon
      <4>6. CASE ~Known(c)
        BY <4>1, <4>2, <4>3, <4>6
      <4> QED
        BY <4>5, <4>6
    <3> QED
      BY <3>3, <3>4, <3>5
  <2> QED
    BY <2>5, <2>6 DEF RebuildInv
<1>19. Reader!ReaderTypeOK'
  <2>1. loaded' \in 0..Len(children) /\ stage' = "load"
    BY <1>1, <1>15
  <2>2. contextDict' \in [Ids -> Frames \cup {NoFrame, Reader!Unknown}]
    BY <1>2, <1>4
  <2>3. rootSet' \subseteq Ids
    BY <1>2, <1>4
  <2>4. parentRoot' \in [Ids \cup {NoId} -> SUBSET (1..Len(children))]
    <3>1. waiting \in [Ids \cup {NoId} -> SUBSET (1..Len(children))]
      BY <1>4
    <3> QED
      BY <1>0, <1>1, <1>2, <3>1
  <2>5. childIds' \in [Ids -> SUBSET Ids]
    <3>1. {children[q].id : q \in orphans} \subseteq Ids
      BY <1>1, <1>5, <1>13
    <3>2. adopted \in [Ids -> SUBSET Ids]
      BY <1>2, <1>4, <3>1
    <3> QED
      BY <1>2, <3>2
  <2> QED
    BY <2>1, <2>2, <2>3, <2>4, <2>5, LoadFrameTypes
<1>20. FailInv' /\ NonEmptyLoad'
  BY <1>1, <1>15 DEF IInv, FailInv, NonEmptyLoad
<1> QED
  BY <1>1, <1>15, <1>17, <1>18, <1>19, <1>20, LoadFrameInv DEF IInv

(* addContext on the next child.                                           *)
LEMMA LoadStepInv ==
    ASSUME IInv, analysing, Reader!AddContext, UNCHANGED <<treeVars, analysing>>
    PROVE  IInv'
<1>1. LoadFrame /\ loaded < Len(children) /\ loaded' = loaded + 1
  BY DEF Reader!AddContext, LoadFrame, Reader!input, Reader!parseVars
<1>2. CASE children[loaded + 1].id = 0 /\ contextDict[0] # Reader!Unknown
  <2>1. UNCHANGED <<contextDict, rootSet, parentRoot, childIds, stage>>
    BY <1>2 DEF Reader!AddContext
  <2> QED
    BY <1>1, <1>2, <2>1, SkipRootInv
<1> QED
  BY <1>2, TakeInInv

(* A set of natural numbers has a least element.                           *)
LEMMA Least ==
    ASSUME NEW T \in SUBSET Nat, T # {} PROVE \E m \in T : \A k \in T : m <= k
<1>1. PICK m \in T : \A k \in T : ~ (<<k, m>> \in OpToRel(<, Nat))
  BY NatLessThanWellFounded, WFMin
<1>2. \A k \in T : ~ (k < m)
  BY <1>1 DEF OpToRel
<1> QED
  BY <1>2

(* All children are known when the last one is: the only root is the root  *)
(* of the tree.                                                            *)
LEMMA OneRoot ==
    ASSUME IInv, loaded = Len(children), children # <<>>
    PROVE  rootSet = {0}
<1>1. /\ children \in Seq(Nodes) /\ Len(children) \in Nat
      /\ rootSet = {children[q].id : q \in {r \in 1..loaded : Waits(r)}}
  BY LoadTypes DEF IInv, LoadInv
<1>2. ASSUME NEW q \in 1..loaded, Waits(q) PROVE children[q].id = 0
  BY <1>2 DEF IInv, ChildrenInv, SubtreeFile, Waits, Known
<1>3. \E q \in 1..loaded : Waits(q) /\ children[q].id = 0
  <2>1. 0 \in Ids /\ NoId \in Ids \cup {NoId}
    BY ContextTreeAssumption DEF Ids
  <2> DEFINE zeros == {q \in 1..loaded : children[q].id = 0}
  <2>2. PICK q \in 1..loaded : children[q].id = 0
    BY DEF IInv, ChildrenInv, SubtreeFile
  <2>3. PICK m \in zeros : \A k \in zeros : m <= k
    <3>1. zeros \in SUBSET Nat /\ zeros # {}
      BY <2>2
    <3> HIDE DEF zeros
    <3> QED
      BY <3>1, Least
  <2>4. \A k \in 1..(m - 1) : children[k].id # 0
    <3> SUFFICES ASSUME NEW k \in 1..(m - 1), children[k].id = 0 PROVE FALSE
      OBVIOUS
    <3>1. m \in 1..loaded /\ loaded \in Nat
      BY <1>1
    <3>2. k \in zeros /\ k < m
      BY <3>1
    <3> QED
      BY <2>3, <3>1, <3>2
  <2> QED
    BY <2>4 DEF Waits
<1> QED
  BY <1>1, <1>2, <1>3

(* The assertion at the end of load_context.                               *)
LEMMA LoadDoneInv ==
    ASSUME IInv, analysing, Reader!LoadDone, UNCHANGED <<treeVars, analysing>>
    PROVE  IInv'
<1>1. /\ LoadFrame /\ loaded = Len(children)
      /\ stage' = IF Cardinality(rootSet) = 1 THEN "done" ELSE "failed"
      /\ UNCHANGED <<loaded, contextDict, rootSet, parentRoot, childIds>>
  <2>1. LoadFrame
    BY DEF Reader!LoadDone, LoadFrame, Reader!input, Reader!parseVars
  <2>2. /\ loaded = Len(children)
        /\ stage' = IF Reader!Cardinality(rootSet) = 1 THEN "done" ELSE "failed"
        /\ UNCHANGED <<loaded, contextDict, rootSet, parentRoot, childIds>>
    BY DEF Reader!LoadDone, Reader!loadVars
  <2> QED
    BY <2>1, <2>2, SameCardinal
<1>2. stage' = "done"
  <2>1. rootSet = {0}
    BY <1>1, OneRoot DEF IInv, LoadFrame, NonEmptyLoad
  <2>2. Cardinality(rootSet) = 1
    BY <2>1, FS_Singleton
  <2> QED
    BY <1>1, <2>2
<1>3. children' = children /\ fileNo' = fileNo /\ stage = "load"
  BY <1>1 DEF LoadFrame
<1>4. ASSUME NEW c PROVE Known(c)' <=> Known(c)
  BY <1>1, <1>3 DEF Known
<1>5. ASSUME NEW p PROVE Waits(p)' <=> Waits(p)
  BY <1>3, <1>4 DEF Waits
<1>6. LoadInv'
  BY <1>1, <1>2, <1>3, <1>4, <1>5 DEF IInv, LoadInv
<1>7. RebuildInv'
  BY <1>1, <1>3, <1>4 DEF IInv, RebuildInv
<1>8. Reader!ReaderTypeOK'
  <2>1. /\ loaded' \in 0..Len(children)
        /\ contextDict' \in [Ids -> Frames \cup {NoFrame, Reader!Unknown}]
        /\ rootSet' \subseteq Ids
        /\ parentRoot' \in [Ids \cup {NoId} -> SUBSET (1..Len(children))]
        /\ childIds' \in [Ids -> SUBSET Ids]
    BY <1>1, LoadTypes
  <2> QED
    BY <1>1, <1>2, <2>1, LoadFrameTypes
<1>9. FailInv' /\ NonEmptyLoad'
  BY <1>2 DEF FailInv, NonEmptyLoad
<1> QED
  BY <1>1, <1>2, <1>6, <1>7, <1>8, <1>9, LoadFrameInv DEF IInv

-----------------------------------------------------------------------------
(* The step lemma and the theorems.                                        *)

(* Every step of the model keeps the invariant.                            *)
LEMMA NextInv == IInv /\ [Next]_vars => IInv'
<1> SUFFICES ASSUME IInv, [Next]_vars PROVE IInv'
  OBVIOUS
<1>1. CASE Profile
  BY <1>1, ProfileInv
<1>2. CASE Analyse
  BY <1>2, AnalyseInv
<1>3. CASE Read
  <2>1. analysing /\ Reader!ReaderNext /\ UNCHANGED <<treeVars, analysing>>
    BY <1>3 DEF Read
  <2>2. CASE Reader!Main
    BY <2>1, <2>2, AssignWorkInv, FinishFileInv, LoadStepInv, LoadDoneInv DEF Reader!Main
  <2>3. ASSUME NEW t \in 0..NumConsumers, Reader!Task(t) PROVE IInv'
    <3>1. CASE Reader!WorkerFinish(t)
      BY <2>1, <2>3, <3>1, WorkerFinishInv DEF Reader!Task
    <3>2. CASE Reader!ProducerPut \/ Reader!ProducerRaises \/ Reader!ProducerDone
      BY <2>1, <2>3, <3>2, ProducerPutInv, ProducerRaisesInv, ProducerDoneInv DEF Reader!Task
    <3>3. ASSUME t \in 1..NumConsumers,
                 \/ Reader!ConsumerTestDone(t) \/ Reader!ConsumerTestEmpty(t)
                 \/ Reader!ConsumerGet(t) \/ Reader!ConsumerAdd(t)
          PROVE  IInv'
      BY <2>1, <2>3, <3>3, ConsumerTestInv, ConsumerGetInv, ConsumerAddInv DEF Reader!Task
    <3> QED
      BY <2>3, <3>1, <3>2, <3>3, SameNodes DEF Reader!Task
  <2> QED
    BY <2>1, <2>2, <2>3, SameNodes DEF Reader!ReaderNext
<1>4. CASE UNCHANGED vars
  <2>1. TreeInv'
    BY <1>4, TreeUnchangedInv DEF IInv, vars
  <2>2. UNCHANGED <<analysing, files, phase, truncated, maxWorkers, fileNo, assigned, active>>
        /\ UNCHANGED <<master, pc, next, queue, producerDone, held, parsed, children, stage>>
        /\ UNCHANGED <<loaded, contextDict, rootSet, parentRoot, childIds>>
    BY <1>4 DEF vars, treeVars, readerVars
  <2>3. StartInv'
    BY <2>2 DEF IInv, StartInv, Reader!ReaderInit
  <2>4. Reader!ReaderTypeOK'
    BY <2>2 DEF IInv, Reader!ReaderTypeOK
  <2>5. WorkersInv' /\ ProducerInv' /\ ConsumersInv'
    BY <2>2 DEF IInv, WorkersInv, ProducerInv, ConsumersInv
  <2>6. CountInv'
    <3>1. ASSUME NEW N \in SUBSET Nodes PROVE Counted(N)'
      <4>1. HeldIn(N)' = HeldIn(N) /\ PastFiles(fileNo, N)' = PastFiles(fileNo, N)
        BY <2>2 DEF HeldIn, PastFiles, Reader!InFiles
      <4>2. Counted(N)
        BY DEF IInv, CountInv
      <4> QED
        BY <2>2, <4>1, <4>2 DEF Counted
    <3> QED
      BY <3>1 DEF CountInv
  <2>7. ChildrenInv' /\ FailInv' /\ NonEmptyLoad'
    BY <2>2 DEF IInv, ChildrenInv, SubtreeFile, FailInv, NonEmptyLoad
  <2>8. LoadInv' /\ RebuildInv'
    BY <2>2, LoadSame DEF IInv
  <2> QED
    BY <2>1, <2>3, <2>4, <2>5, <2>6, <2>7, <2>8 DEF IInv
<1> QED
  BY <1>1, <1>2, <1>3, <1>4 DEF Next, Finished

(* The invariant holds in every behaviour.                                 *)
LEMMA Invariance == Spec => []IInv
BY InitInv, NextInv, PTL DEF Spec

(* Every variable of the agent's tree and of the reader keeps its shape.   *)
THEOREM RoundTripTypes == Spec => []TypeOK
<1>1. IInv => TypeOK
  BY DEF IInv, TreeInv, TypeOK
<1> QED
  BY Invariance, <1>1, PTL

(* ContextTree::addContext never makes two children with one frame under   *)
(* one parent, however many paths handlers add and in whatever order.      *)
THEOREM SiblingsStayDistinct == Spec => []SiblingsDistinct
<1>1. IInv => SiblingsDistinct
  BY DEF IInv, TreeInv
<1> QED
  BY Invariance, <1>1, PTL

(* Profiler::threadEnd writes the contexts with metrics and all their      *)
(* ancestors, each once and nothing else, in whatever order it meets them. *)
THEOREM FilesAreSubtrees == Spec => []FileIsSubtree
<1>1. IInv => FileIsSubtree
  BY InvFileIsSubtree DEF IInv
<1> QED
  BY Invariance, <1>1, PTL

(* The producer, the consumers and the manager lose no node and double     *)
(* none, for every number of consumers and workers and every interleaving, *)
(* and a file that is cut off never passes for a whole one.                *)
THEOREM EveryNodeParsedOnce == Spec => []NodesParsedOnce
<1>1. IInv => NodesParsedOnce
  <2> SUFFICES ASSUME IInv, stage \in {"load", "done"}
               PROVE  /\ Len(children) = Reader!Cardinality(Reader!InFiles)
                      /\ \A n \in Nodes :
                            Reader!Cardinality({p \in 1..Len(children) : children[p] = n})
                              = Reader!Cardinality({x \in Reader!InFiles :
                                                      files[x[1]][x[2]] = n})
    BY SameNodes DEF NodesParsedOnce, Reader!NodesParsedOnce
  <2>1. fileNo = Len(files) + 1 /\ Len(files) \in Nat /\ TreeInv
    BY DEF IInv, StartInv, TreeInv, TreeTypeOK
  <2>2. children \in Seq(Nodes) /\ Len(children) \in Nat
    BY LoadTypes
  <2>3. ASSUME NEW N \in SUBSET Nodes
        PROVE  Cardinality({p \in 1..Len(children) : children[p] \in N})
                  = Cardinality({x \in Reader!InFiles : files[x[1]][x[2]] \in N})
    <3>1. PastFiles(fileNo, N) = {x \in Reader!InFiles : files[x[1]][x[2]] \in N}
      <4>1. ASSUME NEW x \in Reader!InFiles PROVE x[1] < fileNo
        BY <2>1 DEF Reader!InFiles
      <4> QED
        BY <4>1 DEF PastFiles
    <3>2. Count(children, N) = Cardinality(PastFiles(fileNo, N))
      BY DEF IInv, CountInv, Counted
    <3> QED
      BY <3>1, <3>2 DEF Count, CountTo
  <2>4. Len(children) = Cardinality(Reader!InFiles)
    <3>1. {p \in 1..Len(children) : children[p] \in Nodes} = 1..Len(children)
      BY <2>2
    <3>2. {x \in Reader!InFiles : files[x[1]][x[2]] \in Nodes} = Reader!InFiles
      <4>1. ASSUME NEW x \in Reader!InFiles PROVE files[x[1]][x[2]] \in Nodes
        <5>1. x[1] \in 1..Len(files) /\ x[2] \in Nat \ {0} /\ x[2] <= Len(files[x[1]])
          BY DEF Reader!InFiles
        <5>2. files[x[1]] \in Seq(Nodes) /\ Len(files[x[1]]) \in Nat
          BY <2>1, <5>1, FileLength
        <5>3. x[2] \in 1..Len(files[x[1]])
          BY <5>1, <5>2
        <5> QED
          BY <5>2, <5>3
      <4> QED
        BY <4>1
    <3>3. Cardinality(1..Len(children)) = Len(children)
      BY <2>2, UpTo
    <3> QED
      BY <2>3, <3>1, <3>2, <3>3
  <2>5. ASSUME NEW n \in Nodes
        PROVE  Cardinality({p \in 1..Len(children) : children[p] = n})
                 = Cardinality({x \in Reader!InFiles : files[x[1]][x[2]] = n})
    <3>1. /\ {p \in 1..Len(children) : children[p] = n}
                = {p \in 1..Len(children) : children[p] \in {n}}
          /\ {x \in Reader!InFiles : files[x[1]][x[2]] = n}
                = {x \in Reader!InFiles : files[x[1]][x[2]] \in {n}}
      OBVIOUS
    <3>2. {n} \in SUBSET Nodes
      OBVIOUS
    <3> QED
      BY <2>3, <3>1, <3>2
  <2> QED
    BY <2>4, <2>5, SameCardinal
<1> QED
  BY Invariance, <1>1, PTL

(* ContextManager's _root_set and _parent_root_dict agree after every      *)
(* node, in whatever order nodes arrive and however often a thread id was  *)
(* reused.                                                                 *)
THEOREM RootListsAgree == Spec => []RootListsMatch
<1>1. IInv => RootListsMatch
  <2> SUFFICES ASSUME IInv
               PROVE  LET waiting == UNION {parentRoot[c] : c \in DOMAIN parentRoot}
                      IN  /\ rootSet = {children[p].id : p \in waiting}
                          /\ Reader!Cardinality(rootSet) = Reader!Cardinality(waiting)
    BY DEF RootListsMatch, Reader!RootListsMatch, Reader!Id
  <2> DEFINE waiting == {q \in 1..loaded : Waits(q)}
             f == [q \in waiting |-> children[q].id]
  <2>1. /\ loaded \in 0..Len(children) /\ Len(children) \in Nat
        /\ DOMAIN parentRoot = Ids \cup {NoId}
        /\ \A q \in 1..Len(children) : children[q].parent \in Ids \cup {NoId}
    BY LoadTypes
  <2>2. UNION {parentRoot[c] : c \in DOMAIN parentRoot} = waiting
    <3>1. \A c \in Ids \cup {NoId} :
            parentRoot[c] = {q \in 1..loaded : children[q].parent = c /\ Waits(q)}
      BY DEF IInv, LoadInv
    <3>2. ASSUME NEW q \in 1..loaded PROVE children[q].parent \in Ids \cup {NoId}
      BY <2>1
    <3> QED
      BY <2>1, <3>1, <3>2
  <2>3. rootSet = {children[q].id : q \in waiting}
    BY DEF IInv, LoadInv
  <2>4. f \in [waiting -> rootSet]
    BY <2>3
  <2>5. \A a, b \in waiting : f[a] = f[b] => a = b
    BY WaitingDistinct
  <2>6. \A x \in rootSet : \E a \in waiting : f[a] = x
    BY <2>3
  <2>7. IsFiniteSet(waiting)
    <3>1. IsFiniteSet(1..loaded)
      BY <2>1, FS_Interval
    <3> QED
      BY <3>1, FS_Subset
  <2> HIDE DEF waiting, f
  <2>8. Cardinality(rootSet) = Cardinality(waiting)
    BY <2>4, <2>5, <2>6, <2>7, SameCardinality
  <2> QED
    BY <2>2, <2>3, <2>8, SameCardinal
<1> QED
  BY Invariance, <1>1, PTL

(* load_context rebuilds the tree the agent wrote, whatever the order of   *)
(* the nodes, as long as no thread id was reused; a reused id breaks it    *)
(* (ContextsPerThread).                                                    *)
THEOREM TreeIsRebuilt == Spec => [](Len(files) <= 1 => TreeRebuilt)
<1>1. IInv => (Len(files) <= 1 => TreeRebuilt)
  <2> SUFFICES ASSUME IInv, Len(files) <= 1, stage = "done", children # <<>>
               PROVE  /\ rootSet = {0}
                      /\ \A p \in 1..Len(children) :
                            contextDict[children[p].id] = children[p].frame
                      /\ \A c \in Ids :
                            childIds[c] = {children[p].id :
                                             p \in {q \in 1..Len(children) :
                                                       children[q].parent = c}}
    BY SameNodes DEF TreeRebuilt, Reader!TreeRebuilt, Reader!Id
  <2>1. /\ fileNo = Len(files) + 1 /\ Len(files) \in Nat /\ loaded = Len(children)
    BY DEF IInv, StartInv, LoadInv, TreeInv, TreeTypeOK
  <2>2. fileNo <= 2
    BY <2>1
  <2>3. rootSet = {0}
    BY <2>1, OneRoot
  <2>4. /\ \A p \in 1..loaded : contextDict[children[p].id] = children[p].frame
        /\ \A c \in Ids :
              childIds[c] = IF Known(c)
                  THEN {children[r].id : r \in {q \in 1..loaded : children[q].parent = c}}
                  ELSE {}
    BY <2>2 DEF IInv, RebuildInv
  <2>5. ASSUME NEW c \in Ids
        PROVE  childIds[c] = {children[r].id :
                                 r \in {q \in 1..loaded : children[q].parent = c}}
    <3>1. CASE Known(c)
      BY <2>4, <3>1
    <3>2. CASE ~Known(c)
      <4>1. {q \in 1..loaded : children[q].parent = c} = {}
        <5> SUFFICES ASSUME NEW q \in 1..loaded, children[q].parent = c PROVE FALSE
          OBVIOUS
        <5>1. q \in 1..Len(children) /\ c # NoId
          BY <2>1, ContextTreeAssumption DEF Ids, NoId
        <5>2. \E r \in 1..Len(children) : children[r].id = c
          BY <5>1 DEF IInv, ChildrenInv, SubtreeFile
        <5> QED
          BY <2>1, <3>2, <5>2 DEF Known
      <4> QED
        BY <2>4, <3>2, <4>1
    <3> QED
      BY <3>1, <3>2
  <2> QED
    BY <2>1, <2>3, <2>4, <2>5
<1> QED
  BY Invariance, <1>1, PTL

(* None of the scripts' assertions fails, set.remove never raises and one  *)
(* root is left, however often thread ids were reused: the scripts fail on *)
(* a file that is cut off only (ContextManager.addContext, load_context).  *)
THEOREM FailsOnCutOffOnly == Spec => [](stage = "failed" => truncated /\ Last # <<>>)
<1>1. IInv => (stage = "failed" => truncated /\ Last # <<>>)
  BY DEF IInv, FailInv, Last
<1> QED
  BY Invariance, <1>1, PTL

=============================================================================

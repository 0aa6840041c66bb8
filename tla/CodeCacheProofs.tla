-------------------------- MODULE CodeCacheProofs --------------------------
(***************************************************************************)
(* Proofs about the code cache manager, for any number of threads, methods *)
(* and addresses.  The inductive invariant says what a thread in a         *)
(* callback holds, that the three maps and the JVM's code agree, and that  *)
(* a version is drawn once.                                                *)
(***************************************************************************)
EXTENDS CodeCache, TLAPS

LoadPc   == {"load", "load1", "jvmti", "relock", "load2"}
FlightPc == {"jvmti", "relock", "load2", "output"}
UnloadPc == {"unload", "unload1"}
BusyPc   == LoadPc \cup {"output"} \cup UnloadPc

(* What a thread holds in a callback is live code of its own.              *)
HeldInv ==
    /\ \A t \in Threads :
          /\ pc[t] \in LoadPc \cup {"output"} => blob[t] \in code \ unloading
          /\ pc[t] \in UnloadPc => blob[t] \in unloading
          /\ pc[t] \in FlightPc => obj[t] \in CompiledMethod /\ CodeOf(obj[t]) = blob[t]
    /\ \A t, u \in Threads :
          t # u /\ pc[t] \in BusyPc /\ pc[u] \in BusyPc => blob[t] # blob[u]

(* Live code does not overlap.                                             *)
CodeInv ==
    /\ \A b \in code : b.s <= b.e
    /\ \A b, c \in code : b # c => Disjoint(b, c)

TypeInv == TypeOK /\ HeldInv /\ CodeInv

(* The range set, the groups, the heap and the live code agree.            *)
RangeInv ==
    \A a \in Addrs : rangeSet[a] # NoMethod =>
        /\ rangeSet[a].s = a
        /\ rangeSet[a].m \in groups
        /\ addressMap[rangeSet[a].m][a] = rangeSet[a]
        /\ CodeOf(rangeSet[a]) \in code
        /\ rangeSet[a] \in heap

GroupInv ==
    \A m \in Methods, a \in Addrs : addressMap[m][a] # NoMethod =>
        /\ addressMap[m][a].m = m
        /\ addressMap[m][a] = rangeSet[a]

(* Code being loaded is not published yet, other code is.                  *)
FreshInv ==
    \A t \in Threads :
        /\ pc[t] \in LoadPc => rangeSet[blob[t].s] = NoMethod
        /\ pc[t] \in FlightPc => blob[t].m \in groups
        /\ pc[t] \in {"relock", "load2"} => obj[t] \in heap

PublishedInv ==
    \A b \in code \ PreAttach :
        Loading(b) \/ (rangeSet[b.s] # NoMethod /\ CodeOf(rangeSet[b.s]) = b)

(* No code under a handler is being unloaded.                              *)
HandlerInv ==
    \A t \in Threads : InHandler(t) => \A b \in unloading : ~Covers(b, ip[t])

CacheInv == RangeInv /\ GroupInv /\ FreshInv /\ PublishedInv /\ HandlerInv /\ HandlerPointerValid

(* A version is drawn once and described once.                             *)
VersionInv ==
    /\ \A x \in methodFile : /\ x.v <= recent[x.m]
                             /\ x.v = 0 => x.s = 0 /\ x.e = 0
    /\ \A t \in Threads : pc[t] \in FlightPc =>
          /\ 0 < obj[t].v /\ obj[t].v <= recent[obj[t].m]
          /\ \A x \in methodFile : x.m = obj[t].m => x.v # obj[t].v
          /\ \A u \in Threads :
                u # t /\ pc[u] \in FlightPc /\ obj[u].m = obj[t].m => obj[u].v # obj[t].v

IInv == TypeInv /\ CacheInv /\ DumpedMethodsFiledOnce /\ VersionInv /\ MethodFileUnambiguous

-----------------------------------------------------------------------------
(* Writing one entry keeps the type of a map.                              *)
LEMMA UpdateType ==
    ASSUME NEW S, NEW T, NEW f \in [S -> T], NEW x \in S, NEW y \in T
    PROVE  [f EXCEPT ![x] = y] \in [S -> T]
  OBVIOUS

(* A lookup returns null or an object of the range set that starts at or   *)
(* before the probe and reaches it.                                        *)
LEMMA GetRangeResult ==
    ASSUME NEW rs \in [Addrs -> Pointers], NEW a \in Addrs
    PROVE  /\ GetRange(rs, a) \in Pointers
           /\ GetRange(rs, a) # NoMethod =>
                \E s \in Addrs : GetRange(rs, a) = rs[s] /\ s <= a /\ a <= rs[s].e
<1>1. CASE \E s \in LastStart(rs, a) : a <= rs[s].e
  <2> DEFINE c == CHOOSE s \in LastStart(rs, a) : TRUE
  <2>1. PICK s \in LastStart(rs, a) : a <= rs[s].e
    BY <1>1
  <2>2. c \in LastStart(rs, a)
    BY <2>1
  <2>3. s \in Addrs /\ c \in Addrs /\ s <= a /\ c <= a
    BY <2>1, <2>2 DEF LastStart
  <2>4. c = s
    BY <2>1, <2>2, <2>3, CodeCacheAssumption DEF LastStart, Addrs
  <2>5. GetRange(rs, a) = rs[c]
    BY <1>1 DEF GetRange
  <2> QED
    BY <2>1, <2>3, <2>4, <2>5
<1>2. CASE ~ \E s \in LastStart(rs, a) : a <= rs[s].e
  BY <1>2 DEF GetRange, Pointers
<1> QED
  BY <1>1, <1>2

(* Pieces of code that do not overlap start at different addresses.        *)
LEMMA StartsDiffer ==
    ASSUME NEW b \in Blobs, NEW c \in Blobs, b.s <= b.e, c.s <= c.e, Disjoint(b, c)
    PROVE  b.s # c.s
  BY CodeCacheAssumption DEF Disjoint, Blobs, Addrs

(* The initial state has the types, and nothing is held in it.             *)
LEMMA TypeInvInit == Init => TypeInv
<1> SUFFICES ASSUME Init PROVE TypeInv
  OBVIOUS
<1>1. PreAttach \subseteq Blobs /\ 0 \in Addrs /\ MaxLoads \in Nat /\ MaxSamples \in Nat
  BY CodeCacheAssumption DEF Addrs
<1>2. addressMap \in [Methods -> [Addrs -> Pointers]]
  BY DEF Init, Pointers
<1>3. budget \in [loads : 0..MaxLoads, samples : 0..MaxSamples]
  BY <1>1 DEF Init
<1>4. aborted \in BOOLEAN
  BY DEF Init
<1>5. pc \in [Threads -> Where] /\ blob \in [Threads -> Blobs \cup {NoBlob}]
  BY DEF Init, Where
<1>6. TypeOK
  BY <1>1, <1>2, <1>3, <1>4, <1>5 DEF Init, TypeOK, Pointers
<1>7. HeldInv
  BY DEF Init, HeldInv, LoadPc, FlightPc, UnloadPc, BusyPc
<1>8. CodeInv
  BY CodeCacheAssumption DEF Init, CodeInv
<1> QED
  BY <1>6, <1>7, <1>8 DEF TypeInv

(* Every step keeps the types and what the callbacks hold.                 *)
LEMMA TypeInvStep == TypeInv /\ [Next]_vars => TypeInv'
<1> SUFFICES ASSUME TypeInv, [Next]_vars PROVE TypeInv'
  OBVIOUS
<1> USE DEF TypeInv, TypeOK, HeldInv, CodeInv, LoadPc, FlightPc, UnloadPc, BusyPc, CodeOf,
            Goto, Acquire, Release, cacheVars, jvmVars, outVars
<1>1. ASSUME NEW t \in Threads, LoadLock(t) PROVE TypeInv'
  BY <1>1 DEF LoadLock, Where
<1>2. ASSUME NEW t \in Threads, AddMethodBegin(t) PROVE TypeInv'
  BY <1>2 DEF AddMethodBegin, Where, Disturb, CompiledMethod, Blobs, Pointers
<1>3. ASSUME NEW t \in Threads, NewCompiledMethod(t) PROVE TypeInv'
  BY <1>3 DEF NewCompiledMethod, Where
<1>4. ASSUME NEW t \in Threads, AddMethodRelock(t) PROVE TypeInv'
  BY <1>4 DEF AddMethodRelock, Where
<1>5. ASSUME NEW t \in Threads, AddMethodEnd(t) PROVE TypeInv'
  BY <1>5 DEF AddMethodEnd, Where, Insert, CompiledMethod, Pointers
<1>6. ASSUME NEW t \in Threads, OutputMethod(t) PROVE TypeInv'
  BY <1>6 DEF OutputMethod, Where, NoBlob, Pointers
<1>7. ASSUME NEW t \in Threads, UnloadLock(t) PROVE TypeInv'
  BY <1>7 DEF UnloadLock, Where
<1>8. ASSUME NEW t \in Threads, RemoveMethod(t) PROVE TypeInv'
  <2>1. blob[t] \in unloading /\ blob[t].m \in Methods /\ blob[t].s \in Addrs
    BY <1>8 DEF RemoveMethod, Blobs
  <2>2. addressMap[blob[t].m] \in [Addrs -> Pointers] /\ NoMethod \in Pointers
    BY <2>1 DEF Pointers
  <2>3. [addressMap[blob[t].m] EXCEPT ![blob[t].s] = NoMethod] \in [Addrs -> Pointers]
    BY <2>1, <2>2, UpdateType
  <2>4. addressMap' \in [Methods -> [Addrs -> Pointers]] /\ rangeSet' \in [Addrs -> Pointers]
    <3>1. /\ addressMap \in [Methods -> [Addrs -> Pointers]]
          /\ rangeSet \in [Addrs -> Pointers]
      OBVIOUS
    <3> HIDE DEF TypeInv, TypeOK, HeldInv, CodeInv
    <3>2. [addressMap EXCEPT ![blob[t].m][blob[t].s] = NoMethod] \in [Methods -> [Addrs -> Pointers]]
      BY <2>1, <2>3, <3>1, UpdateType
    <3>3. Remove(rangeSet, blob[t].s) \in [Addrs -> Pointers]
      BY <2>1, <2>2, <3>1, UpdateType DEF Remove
    <3> QED
      BY <1>8, <3>1, <3>2, <3>3 DEF RemoveMethod
  <2>6. aborted' \in BOOLEAN
    BY <1>8 DEF RemoveMethod
  <2>7. TypeOK'
    BY <1>8, <2>1, <2>4, <2>6 DEF RemoveMethod, Where
  <2>8. HeldInv'
    BY <1>8, <2>1 DEF RemoveMethod, Where
  <2>9. CodeInv'
    BY <1>8 DEF RemoveMethod
  <2> QED
    BY <2>7, <2>8, <2>9
<1>9. ASSUME NEW t \in Threads, SampleLock(t) PROVE TypeInv'
  BY <1>9 DEF SampleLock, Where
<1>10. ASSUME NEW t \in Threads, GetMethod(t) PROVE TypeInv'
  BY <1>10, GetRangeResult DEF GetMethod, Where
<1>11. ASSUME NEW t \in Threads, NEW caller \in Methods, UseMethod(t, caller)
      PROVE  TypeInv'
  BY <1>11 DEF UseMethod, Where, Pointers, CompiledMethod
<1>12. ASSUME NEW t \in Threads, EndLock(t) PROVE TypeInv'
  BY <1>12 DEF EndLock, Where
<1>13. ASSUME NEW t \in Threads, NEW m \in Methods, CheckAndMoveMethodToUncompiledSet(t, m)
      PROVE  TypeInv'
  BY <1>13 DEF CheckAndMoveMethodToUncompiledSet, Where, Disturb
<1>14. ASSUME NEW t \in Threads, ThreadGone(t) PROVE TypeInv'
  BY <1>14 DEF ThreadGone, Where
<1>15. ASSUME NEW t \in Threads, NEW m \in Methods, DumpUncompiledMethod(t, m)
      PROVE  TypeInv'
  BY <1>15, CodeCacheAssumption DEF DumpUncompiledMethod, Where, CompiledMethod, Addrs
<1>16. ASSUME NEW t \in Threads, VMDead(t) PROVE TypeInv'
  BY <1>16 DEF VMDead, Where
<1>17. ASSUME NEW t \in Threads, NEW b \in Blobs, CompiledMethodLoad(t, b) PROVE TypeInv'
  <2>1. b \notin code /\ b.s \in Int /\ b.e \in Int
    <3> HIDE DEF TypeInv, TypeOK, HeldInv, CodeInv
    <3>1. b.s \in Int /\ b.e \in Int
      BY CodeCacheAssumption DEF Blobs, Addrs
    <3>2. b.s <= b.e /\ \A c \in code : Disjoint(b, c)
      BY <1>17 DEF CompiledMethodLoad
    <3> QED
      BY <3>1, <3>2 DEF Disjoint
  <2>2. TypeOK'
    <3> HIDE DEF HeldInv, CodeInv
    <3>1. budget' \in [loads : 0..MaxLoads, samples : 0..MaxSamples]
      BY <1>17, CodeCacheAssumption DEF CompiledMethodLoad
    <3>2. pc' \in [Threads -> Where] /\ blob' \in [Threads -> Blobs \cup {NoBlob}]
      BY <1>17 DEF CompiledMethodLoad, Where
    <3> QED
      BY <1>17, <3>1, <3>2 DEF CompiledMethodLoad
  <2>3. /\ pc' = [pc EXCEPT ![t] = "load"] /\ blob' = [blob EXCEPT ![t] = b]
        /\ code' = code \cup {b} /\ UNCHANGED <<unloading, obj>>
    BY <1>17 DEF CompiledMethodLoad
  <2>4. HeldInv'
    <3>1. ASSUME NEW u \in Threads, u # t
          PROVE  pc'[u] = pc[u] /\ blob'[u] = blob[u] /\ (pc[u] \in BusyPc => blob[u] # b)
      BY <2>1, <2>3, <3>1
    <3>2. pc'[t] = "load" /\ blob'[t] = b /\ b \in code' \ unloading'
      BY <2>1, <2>3
    <3> HIDE DEF TypeOK, CodeInv
    <3> QED
      BY <2>3, <3>1, <3>2
  <2>5. CodeInv'
    <3>1. /\ b.s <= b.e
          /\ \A c \in code : Disjoint(b, c) /\ Disjoint(c, b)
      BY <1>17 DEF CompiledMethodLoad, Disjoint
    <3> HIDE DEF TypeOK, HeldInv
    <3> QED
      BY <2>3, <3>1
  <2> QED
    BY <2>2, <2>4, <2>5
<1>18. ASSUME NEW t \in Threads, NEW b \in code, CompiledMethodUnload(t, b)
      PROVE  TypeInv'
  BY <1>18 DEF CompiledMethodUnload, Where
<1>19. ASSUME NEW t \in Threads, NEW a \in Addrs, Sample(t, a) PROVE TypeInv'
  BY <1>19, CodeCacheAssumption DEF Sample, Where
<1>20. ASSUME NEW t \in Threads, ThreadEnd(t) PROVE TypeInv'
  BY <1>20 DEF ThreadEnd, Where
<1>21. ASSUME NEW t \in Threads, VMDeath(t) PROVE TypeInv'
  BY <1>21 DEF VMDeath, Where
<1>22. CASE UNCHANGED vars
  BY <1>22 DEF vars
<1> QED
  BY <1>1, <1>2, <1>3, <1>4, <1>5, <1>6, <1>7, <1>8, <1>9, <1>10, <1>11,
     <1>12, <1>13, <1>14, <1>15, <1>16, <1>17, <1>18, <1>19, <1>20, <1>21, <1>22
  DEF Next, AgentStep, JvmStep, Exit

(* The initial state satisfies the cache invariant.                        *)
LEMMA CacheInvInit == Init => CacheInv
<1> SUFFICES ASSUME Init PROVE CacheInv
  OBVIOUS
<1>1. RangeInv /\ GroupInv
  BY DEF Init, RangeInv, GroupInv
<1>2. FreshInv /\ PublishedInv /\ HandlerInv /\ HandlerPointerValid
  BY DEF Init, FreshInv, PublishedInv, HandlerInv, HandlerPointerValid, LoadPc, FlightPc, InHandler
<1> QED
  BY <1>1, <1>2 DEF CacheInv

(* Every step keeps the range set, the groups and the live code in step.   *)
LEMMA CacheInvStep == TypeInv /\ CacheInv /\ [Next]_vars => CacheInv'
<1> SUFFICES ASSUME TypeInv, CacheInv, [Next]_vars PROVE CacheInv'
  OBVIOUS
<1>a. /\ pc \in [Threads -> Where] /\ blob \in [Threads -> Blobs \cup {NoBlob}]
      /\ obj \in [Threads -> Pointers] /\ ip \in [Threads -> Addrs]
      /\ addressMap \in [Methods -> [Addrs -> Pointers]] /\ rangeSet \in [Addrs -> Pointers]
      /\ code \subseteq Blobs /\ unloading \subseteq code /\ groups \subseteq Methods
  BY DEF TypeInv, TypeOK
<1>b. HeldInv /\ CodeInv
  BY DEF TypeInv
<1> USE <1>a
<1> USE DEF CacheInv, RangeInv, GroupInv, FreshInv, PublishedInv, HandlerInv, HandlerPointerValid,
            Loading, InHandler, LoadPc, FlightPc, Goto, Acquire, Release, cacheVars, jvmVars
<1>1. ASSUME NEW t \in Threads, LoadLock(t) PROVE CacheInv'
  BY <1>1 DEF LoadLock
<1>2. ASSUME NEW t \in Threads, AddMethodBegin(t) PROVE CacheInv'
  BY <1>2, <1>b DEF AddMethodBegin, HeldInv, Pointers
<1>3. ASSUME NEW t \in Threads, NewCompiledMethod(t) PROVE CacheInv'
  BY <1>3, <1>b DEF NewCompiledMethod
<1>4. ASSUME NEW t \in Threads, AddMethodRelock(t) PROVE CacheInv'
  BY <1>4 DEF AddMethodRelock
<1>5. ASSUME NEW t \in Threads, AddMethodEnd(t) PROVE CacheInv'
  <2> DEFINE o == obj[t]
  <2>1. /\ o \in CompiledMethod /\ CodeOf(o) = blob[t] /\ blob[t] \in code
        /\ o.m \in groups /\ o \in heap /\ rangeSet[o.s] = NoMethod
        /\ o.s = blob[t].s /\ o.m = blob[t].m /\ o.s \in Addrs /\ o.m \in Methods /\ o # NoMethod
    BY <1>5, <1>b, CodeCacheAssumption DEF AddMethodEnd, HeldInv, CodeOf, CompiledMethod
  <2>2. /\ pc[t] = "load2" /\ pc' = [pc EXCEPT ![t] = "output"]
        /\ addressMap' = [addressMap EXCEPT ![o.m][o.s] = o]
        /\ rangeSet' = [rangeSet EXCEPT ![o.s] = o]
        /\ UNCHANGED <<groups, heap, code, unloading, blob, ip, obj>>
    BY <1>5, <2>1 DEF AddMethodEnd, Insert
  <2>3. ASSUME NEW a \in Addrs
        PROVE  rangeSet'[a] = IF a = o.s THEN o ELSE rangeSet[a]
    BY <2>1, <2>2
  <2>4. ASSUME NEW m \in Methods, NEW a \in Addrs
        PROVE  addressMap'[m][a] = IF m = o.m /\ a = o.s THEN o ELSE addressMap[m][a]
    BY <2>1, <2>2
  <2>5. ASSUME NEW u \in Threads, u # t, pc[u] \in LoadPc
        PROVE  blob[u] \in code /\ blob[u].s # o.s /\ blob[u].s \in Addrs
    <3>1. blob[u] \in code /\ blob[u] # blob[t]
      BY <1>b, <2>2, <2>5 DEF HeldInv, BusyPc
    <3> QED
      BY <1>b, <2>1, <3>1, StartsDiffer DEF CodeInv, Blobs
  <2> HIDE DEF o
  <2>6. RangeInv'
    BY <2>1, <2>2, <2>3, <2>4 DEF Pointers, CompiledMethod
  <2>7. GroupInv'
    BY <2>1, <2>3, <2>4
  <2>8. FreshInv'
    BY <2>1, <2>2, <2>3, <2>5
  <2>9. PublishedInv'
    <3> SUFFICES ASSUME NEW b \in code \ PreAttach
                 PROVE  Loading(b)' \/ (rangeSet'[b.s] # NoMethod /\ CodeOf(rangeSet'[b.s]) = b)
      BY <2>2
    <3>1. CASE b = blob[t]
      BY <2>1, <2>3, <3>1
    <3>2. CASE b # blob[t] /\ Loading(b)
      BY <2>2, <3>2
    <3>3. CASE rangeSet[b.s] # NoMethod /\ CodeOf(rangeSet[b.s]) = b
      BY <2>1, <2>3, <3>3 DEF Blobs
    <3> QED
      BY <3>1, <3>2, <3>3
  <2>10. HandlerInv' /\ HandlerPointerValid'
    BY <2>2
  <2> QED
    BY <2>6, <2>7, <2>8, <2>9, <2>10
<1>6. ASSUME NEW t \in Threads, OutputMethod(t) PROVE CacheInv'
  BY <1>6, <1>b DEF OutputMethod
<1>7. ASSUME NEW t \in Threads, UnloadLock(t) PROVE CacheInv'
  BY <1>7 DEF UnloadLock
<1>8. ASSUME NEW t \in Threads, RemoveMethod(t) PROVE CacheInv'
  <2> DEFINE b == blob[t]
             r == rangeSet[b.s]
  <2>1. b \in unloading /\ b \in code /\ b.m \in Methods /\ b.s \in Addrs /\ b.s \in Int /\ b.e \in Int
    BY <1>8, <1>b, CodeCacheAssumption DEF RemoveMethod, HeldInv, UnloadPc, Blobs, Addrs
  <2>2. r # NoMethod => CodeOf(r) = b /\ r.m = b.m /\ r.s = b.s /\ b.m \in groups /\ addressMap[b.m][b.s] = r
    <3> SUFFICES ASSUME r # NoMethod
                 PROVE  CodeOf(r) = b
      BY <2>1 DEF CodeOf
    <3>1. CodeOf(r) \in code /\ CodeOf(r).s = b.s
      BY <2>1 DEF CodeOf
    <3> QED
      BY <1>b, <2>1, <3>1, StartsDiffer DEF CodeInv
  <2>3. /\ pc[t] = "unload1" /\ pc' = [pc EXCEPT ![t] = "run"]
        /\ code' = code \ {b} /\ unloading' = unloading \ {b} /\ blob' = [blob EXCEPT ![t] = NoBlob]
        /\ UNCHANGED <<groups, ip, obj>>
    BY <1>8 DEF RemoveMethod
  <2>4. ASSUME NEW a \in Addrs
        PROVE  rangeSet'[a] = IF a = b.s THEN NoMethod ELSE rangeSet[a]
    BY <1>8, <2>1, <2>2 DEF RemoveMethod, Remove
  <2>5. ASSUME NEW m \in Methods, NEW a \in Addrs
        PROVE  addressMap'[m][a] = IF a = b.s THEN NoMethod ELSE addressMap[m][a]
    <3>1. a = b.s /\ m # b.m => addressMap[m][a] = NoMethod
      BY <2>1, <2>2
    <3>2. b.m \notin groups /\ a = b.s => addressMap[m][a] = NoMethod
      BY <2>1, <2>2
    <3> QED
      BY <1>8, <2>1, <3>1, <3>2 DEF RemoveMethod
  <2>6. ASSUME NEW x \in heap, x # NoMethod, CodeOf(x) # b
        PROVE  x \in heap'
    <3>1. b.m \in groups => addressMap[b.m][b.s] = NoMethod \/ CodeOf(addressMap[b.m][b.s]) = b
      BY <2>1, <2>2
    <3> QED
      BY <1>8, <2>1, <2>6, <3>1 DEF RemoveMethod
  <2>7. ASSUME NEW c \in code, c # b PROVE c.s # b.s /\ c.s \in Addrs
    BY <1>b, <2>1, <2>7, StartsDiffer DEF CodeInv, Blobs
  <2>8. ASSUME NEW u \in Threads, u # t, pc[u] \in BusyPc PROVE blob[u] # b
    BY <1>b, <2>3, <2>8 DEF HeldInv, BusyPc, UnloadPc
  <2> HIDE DEF b, r
  <2>9. RangeInv'
    <3> SUFFICES ASSUME NEW a \in Addrs, rangeSet'[a] # NoMethod
                 PROVE  /\ rangeSet'[a].s = a
                        /\ rangeSet'[a].m \in groups'
                        /\ addressMap'[rangeSet'[a].m][a] = rangeSet'[a]
                        /\ CodeOf(rangeSet'[a]) \in code'
                        /\ rangeSet'[a] \in heap'
      OBVIOUS
    <3>1. a # b.s /\ rangeSet'[a] = rangeSet[a]
      BY <2>4
    <3>2. CodeOf(rangeSet[a]).s = a
      BY <3>1 DEF CodeOf
    <3> QED
      BY <2>3, <2>5, <2>6, <3>1, <3>2
  <2>10. GroupInv'
    BY <2>4, <2>5
  <2>11. FreshInv'
    <3> SUFFICES ASSUME NEW u \in Threads, u # t, pc[u] \in LoadPc \cup FlightPc
                 PROVE  /\ pc[u] \in LoadPc => rangeSet'[blob[u].s] = NoMethod
                        /\ pc[u] \in FlightPc => blob[u].m \in groups
                        /\ pc[u] \in {"relock", "load2"} => obj[u] \in heap'
      BY <2>3
    <3>1. blob[u] # b /\ blob[u] \in code
      BY <1>b, <2>8 DEF HeldInv, BusyPc
    <3>2. pc[u] \in FlightPc => CodeOf(obj[u]) # b /\ obj[u] # NoMethod
      BY <1>b, <3>1, CodeCacheAssumption DEF HeldInv
    <3> QED
      BY <2>4, <2>6, <2>7, <3>1, <3>2
  <2>12. PublishedInv'
    <3> SUFFICES ASSUME NEW c \in code \ PreAttach, c # b
                 PROVE  Loading(c)' \/ (rangeSet'[c.s] # NoMethod /\ CodeOf(rangeSet'[c.s]) = c)
      BY <2>3
    <3>1. CASE Loading(c)
      BY <2>3, <3>1
    <3>2. CASE rangeSet[c.s] # NoMethod /\ CodeOf(rangeSet[c.s]) = c
      BY <2>4, <2>7, <3>2
    <3> QED
      BY <3>1, <3>2
  <2>13. HandlerInv'
    BY <2>3
  <2>14. HandlerPointerValid'
    <3> SUFFICES ASSUME NEW u \in Threads, u # t, pc[u] = "use", obj[u] # NoMethod
                 PROVE  obj[u] \in heap' /\ CodeOf(obj[u]) \in code'
      BY <2>3
    <3>1. CodeOf(obj[u]) # b
      BY <2>1 DEF CodeOf, Covers
    <3> QED
      BY <2>3, <2>6, <3>1
  <2> QED
    BY <2>9, <2>10, <2>11, <2>12, <2>13, <2>14
<1>9. ASSUME NEW t \in Threads, SampleLock(t) PROVE CacheInv'
  BY <1>9 DEF SampleLock
<1>10. ASSUME NEW t \in Threads, GetMethod(t) PROVE CacheInv'
  BY <1>10, GetRangeResult DEF GetMethod, Covers
<1>11. ASSUME NEW t \in Threads, NEW caller \in Methods, UseMethod(t, caller)
      PROVE  CacheInv'
  BY <1>11 DEF UseMethod
<1>12. ASSUME NEW t \in Threads, EndLock(t) PROVE CacheInv'
  BY <1>12 DEF EndLock
<1>13. ASSUME NEW t \in Threads, NEW m \in Methods, CheckAndMoveMethodToUncompiledSet(t, m)
      PROVE  CacheInv'
  BY <1>13 DEF CheckAndMoveMethodToUncompiledSet
<1>14. ASSUME NEW t \in Threads, ThreadGone(t) PROVE CacheInv'
  BY <1>14 DEF ThreadGone
<1>15. ASSUME NEW t \in Threads, NEW m \in Methods, DumpUncompiledMethod(t, m)
      PROVE  CacheInv'
  BY <1>15 DEF DumpUncompiledMethod
<1>16. ASSUME NEW t \in Threads, VMDead(t) PROVE CacheInv'
  BY <1>16 DEF VMDead
<1>17. ASSUME NEW t \in Threads, NEW b \in Blobs, CompiledMethodLoad(t, b)
      PROVE  CacheInv'
  <2>1. /\ pc[t] = "run" /\ pc' = [pc EXCEPT ![t] = "load"] /\ blob' = [blob EXCEPT ![t] = b]
        /\ code' = code \cup {b} /\ UNCHANGED <<groups, addressMap, rangeSet, heap, unloading, ip, obj>>
        /\ b.s <= b.e /\ \A c \in code : Disjoint(b, c)
    BY <1>17 DEF CompiledMethodLoad
  <2>2. rangeSet[b.s] = NoMethod
    <3> SUFFICES ASSUME rangeSet[b.s] # NoMethod PROVE FALSE
      OBVIOUS
    <3> DEFINE c == CodeOf(rangeSet[b.s])
    <3>1. c \in code /\ c.s = b.s
      BY DEF CodeOf, Blobs
    <3>2. c \in Blobs /\ c.s <= c.e /\ Disjoint(b, c)
      BY <1>b, <2>1, <3>1 DEF CodeInv
    <3> HIDE DEF c
    <3> QED
      BY <2>1, <3>1, <3>2, StartsDiffer
  <2> QED
    BY <2>1, <2>2
<1>18. ASSUME NEW t \in Threads, NEW b \in code, CompiledMethodUnload(t, b)
      PROVE  CacheInv'
  BY <1>18, <1>b DEF CompiledMethodUnload
<1>19. ASSUME NEW t \in Threads, NEW a \in Addrs, Sample(t, a) PROVE CacheInv'
  BY <1>19 DEF Sample
<1>20. ASSUME NEW t \in Threads, ThreadEnd(t) PROVE CacheInv'
  BY <1>20 DEF ThreadEnd
<1>21. ASSUME NEW t \in Threads, VMDeath(t) PROVE CacheInv'
  BY <1>21 DEF VMDeath
<1>22. CASE UNCHANGED vars
  BY <1>22 DEF vars, cacheVars
<1> QED
  BY <1>1, <1>2, <1>3, <1>4, <1>5, <1>6, <1>7, <1>8, <1>9, <1>10, <1>11,
     <1>12, <1>13, <1>14, <1>15, <1>16, <1>17, <1>18, <1>19, <1>20, <1>21, <1>22
  DEF Next, AgentStep, JvmStep, Exit

(* Every step files a method in exactly one place.                         *)
LEMMA FiledStep ==
    TypeInv /\ DumpedMethodsFiledOnce /\ [Next]_vars => DumpedMethodsFiledOnce'
<1> SUFFICES ASSUME TypeInv, DumpedMethodsFiledOnce, [Next]_vars
             PROVE  DumpedMethodsFiledOnce'
  OBVIOUS
<1> USE DEF DumpedMethodsFiledOnce, cacheVars, outVars
<1>1. ASSUME NEW t \in Threads, LoadLock(t) PROVE DumpedMethodsFiledOnce'
  BY <1>1 DEF LoadLock
<1>2. ASSUME NEW t \in Threads, AddMethodBegin(t) PROVE DumpedMethodsFiledOnce'
  BY <1>2 DEF AddMethodBegin
<1>3. ASSUME NEW t \in Threads, NewCompiledMethod(t) PROVE DumpedMethodsFiledOnce'
  BY <1>3 DEF NewCompiledMethod
<1>4. ASSUME NEW t \in Threads, AddMethodRelock(t) PROVE DumpedMethodsFiledOnce'
  BY <1>4 DEF AddMethodRelock
<1>5. ASSUME NEW t \in Threads, AddMethodEnd(t) PROVE DumpedMethodsFiledOnce'
  BY <1>5 DEF AddMethodEnd
<1>6. ASSUME NEW t \in Threads, OutputMethod(t) PROVE DumpedMethodsFiledOnce'
  BY <1>6 DEF OutputMethod
<1>7. ASSUME NEW t \in Threads, UnloadLock(t) PROVE DumpedMethodsFiledOnce'
  BY <1>7 DEF UnloadLock
<1>8. ASSUME NEW t \in Threads, RemoveMethod(t) PROVE DumpedMethodsFiledOnce'
  BY <1>8 DEF RemoveMethod
<1>9. ASSUME NEW t \in Threads, SampleLock(t) PROVE DumpedMethodsFiledOnce'
  BY <1>9 DEF SampleLock
<1>10. ASSUME NEW t \in Threads, GetMethod(t) PROVE DumpedMethodsFiledOnce'
  BY <1>10 DEF GetMethod
<1>11. ASSUME NEW t \in Threads, NEW caller \in Methods, UseMethod(t, caller)
      PROVE  DumpedMethodsFiledOnce'
  BY <1>11 DEF UseMethod
<1>12. ASSUME NEW t \in Threads, EndLock(t) PROVE DumpedMethodsFiledOnce'
  BY <1>12 DEF EndLock
<1>13. ASSUME NEW t \in Threads, NEW m \in Methods, CheckAndMoveMethodToUncompiledSet(t, m)
      PROVE  DumpedMethodsFiledOnce'
  BY <1>13 DEF CheckAndMoveMethodToUncompiledSet
<1>14. ASSUME NEW t \in Threads, ThreadGone(t) PROVE DumpedMethodsFiledOnce'
  BY <1>14 DEF ThreadGone
<1>15. ASSUME NEW t \in Threads, NEW m \in Methods, DumpUncompiledMethod(t, m)
      PROVE  DumpedMethodsFiledOnce'
  BY <1>15 DEF DumpUncompiledMethod
<1>16. ASSUME NEW t \in Threads, VMDead(t) PROVE DumpedMethodsFiledOnce'
  BY <1>16 DEF VMDead
<1>17. ASSUME NEW t \in Threads, NEW b \in Blobs, CompiledMethodLoad(t, b)
      PROVE  DumpedMethodsFiledOnce'
  BY <1>17 DEF CompiledMethodLoad
<1>18. ASSUME NEW t \in Threads, NEW b \in code, CompiledMethodUnload(t, b)
      PROVE  DumpedMethodsFiledOnce'
  BY <1>18 DEF CompiledMethodUnload
<1>19. ASSUME NEW t \in Threads, NEW a \in Addrs, Sample(t, a)
      PROVE  DumpedMethodsFiledOnce'
  BY <1>19 DEF Sample
<1>20. ASSUME NEW t \in Threads, ThreadEnd(t) PROVE DumpedMethodsFiledOnce'
  BY <1>20 DEF ThreadEnd
<1>21. ASSUME NEW t \in Threads, VMDeath(t) PROVE DumpedMethodsFiledOnce'
  BY <1>21 DEF VMDeath
<1>22. CASE UNCHANGED vars
  BY <1>22 DEF vars
<1> QED
  BY <1>1, <1>2, <1>3, <1>4, <1>5, <1>6, <1>7, <1>8, <1>9, <1>10, <1>11,
     <1>12, <1>13, <1>14, <1>15, <1>16, <1>17, <1>18, <1>19, <1>20, <1>21, <1>22
  DEF Next, AgentStep, JvmStep, Exit

(* Every step draws a version at most once and describes it at most once.  *)
LEMMA VersionStep ==
    TypeInv /\ VersionInv /\ MethodFileUnambiguous /\ [Next]_vars =>
        VersionInv' /\ MethodFileUnambiguous'
<1> SUFFICES ASSUME TypeInv, VersionInv, MethodFileUnambiguous, [Next]_vars
             PROVE  VersionInv' /\ MethodFileUnambiguous'
  OBVIOUS
<1>a. /\ pc \in [Threads -> Where] /\ obj \in [Threads -> Pointers]
      /\ blob \in [Threads -> Blobs \cup {NoBlob}]
      /\ recent \in [Methods -> Nat] /\ methodFile \subseteq CompiledMethod /\ code \subseteq Blobs
  BY DEF TypeInv, TypeOK
<1>b. HeldInv
  BY DEF TypeInv
<1> USE <1>a
<1> USE DEF VersionInv, MethodFileUnambiguous, FlightPc, Goto, Acquire, Release, cacheVars, outVars
<1>1. ASSUME NEW t \in Threads, LoadLock(t) PROVE VersionInv' /\ MethodFileUnambiguous'
  BY <1>1 DEF LoadLock
<1>2. ASSUME NEW t \in Threads, AddMethodBegin(t)
      PROVE  VersionInv' /\ MethodFileUnambiguous'
  BY <1>2, <1>b DEF AddMethodBegin, HeldInv, LoadPc, CompiledMethod, Blobs
<1>3. ASSUME NEW t \in Threads, NewCompiledMethod(t)
      PROVE  VersionInv' /\ MethodFileUnambiguous'
  BY <1>3, <1>b DEF NewCompiledMethod
<1>4. ASSUME NEW t \in Threads, AddMethodRelock(t)
      PROVE  VersionInv' /\ MethodFileUnambiguous'
  BY <1>4 DEF AddMethodRelock
<1>5. ASSUME NEW t \in Threads, AddMethodEnd(t)
      PROVE  VersionInv' /\ MethodFileUnambiguous'
  BY <1>5 DEF AddMethodEnd
<1>6. ASSUME NEW t \in Threads, OutputMethod(t)
      PROVE  VersionInv' /\ MethodFileUnambiguous'
  BY <1>6, <1>b DEF OutputMethod, HeldInv
<1>7. ASSUME NEW t \in Threads, UnloadLock(t) PROVE VersionInv' /\ MethodFileUnambiguous'
  BY <1>7 DEF UnloadLock
<1>8. ASSUME NEW t \in Threads, RemoveMethod(t)
      PROVE  VersionInv' /\ MethodFileUnambiguous'
  BY <1>8 DEF RemoveMethod
<1>9. ASSUME NEW t \in Threads, SampleLock(t) PROVE VersionInv' /\ MethodFileUnambiguous'
  BY <1>9 DEF SampleLock
<1>10. ASSUME NEW t \in Threads, GetMethod(t) PROVE VersionInv' /\ MethodFileUnambiguous'
  BY <1>10 DEF GetMethod
<1>11. ASSUME NEW t \in Threads, NEW caller \in Methods, UseMethod(t, caller)
      PROVE  VersionInv' /\ MethodFileUnambiguous'
  BY <1>11 DEF UseMethod
<1>12. ASSUME NEW t \in Threads, EndLock(t) PROVE VersionInv' /\ MethodFileUnambiguous'
  BY <1>12 DEF EndLock
<1>13. ASSUME NEW t \in Threads, NEW m \in Methods, CheckAndMoveMethodToUncompiledSet(t, m)
      PROVE  VersionInv' /\ MethodFileUnambiguous'
  BY <1>13 DEF CheckAndMoveMethodToUncompiledSet
<1>14. ASSUME NEW t \in Threads, ThreadGone(t)
      PROVE  VersionInv' /\ MethodFileUnambiguous'
  BY <1>14 DEF ThreadGone
<1>15. ASSUME NEW t \in Threads, NEW m \in Methods, DumpUncompiledMethod(t, m)
      PROVE  VersionInv' /\ MethodFileUnambiguous'
  BY <1>15 DEF DumpUncompiledMethod, CompiledMethod
<1>16. ASSUME NEW t \in Threads, VMDead(t) PROVE VersionInv' /\ MethodFileUnambiguous'
  BY <1>16 DEF VMDead
<1>17. ASSUME NEW t \in Threads, NEW b \in Blobs, CompiledMethodLoad(t, b)
      PROVE  VersionInv' /\ MethodFileUnambiguous'
  BY <1>17 DEF CompiledMethodLoad
<1>18. ASSUME NEW t \in Threads, NEW b \in code, CompiledMethodUnload(t, b)
      PROVE  VersionInv' /\ MethodFileUnambiguous'
  BY <1>18 DEF CompiledMethodUnload
<1>19. ASSUME NEW t \in Threads, NEW a \in Addrs, Sample(t, a)
      PROVE  VersionInv' /\ MethodFileUnambiguous'
  BY <1>19 DEF Sample
<1>20. ASSUME NEW t \in Threads, ThreadEnd(t) PROVE VersionInv' /\ MethodFileUnambiguous'
  BY <1>20 DEF ThreadEnd
<1>21. ASSUME NEW t \in Threads, VMDeath(t) PROVE VersionInv' /\ MethodFileUnambiguous'
  BY <1>21 DEF VMDeath
<1>22. CASE UNCHANGED vars
  BY <1>22 DEF vars
<1> QED
  BY <1>1, <1>2, <1>3, <1>4, <1>5, <1>6, <1>7, <1>8, <1>9, <1>10, <1>11,
     <1>12, <1>13, <1>14, <1>15, <1>16, <1>17, <1>18, <1>19, <1>20, <1>21, <1>22
  DEF Next, AgentStep, JvmStep, Exit

-----------------------------------------------------------------------------
(* The inductive invariant holds in every state of every behaviour.        *)
THEOREM Invariance == Spec => []IInv
<1>1. Init => IInv
  <2> SUFFICES ASSUME Init PROVE IInv
    OBVIOUS
  <2>1. DumpedMethodsFiledOnce /\ VersionInv /\ MethodFileUnambiguous
    BY DEF Init, DumpedMethodsFiledOnce, VersionInv, MethodFileUnambiguous, FlightPc
  <2> QED
    BY <2>1, TypeInvInit, CacheInvInit DEF IInv
<1>2. IInv /\ [Next]_vars => IInv'
  BY TypeInvStep, CacheInvStep, FiledStep, VersionStep DEF IInv
<1> QED
  BY <1>1, <1>2, PTL DEF Spec

(* Every variable of the manager keeps its shape.                          *)
THEOREM TypeCorrect == Spec => []TypeOK
<1>1. IInv => TypeOK
  BY DEF IInv, TypeInv
<1> QED
  BY <1>1, Invariance, PTL

(* A pointer getMethod handed to a signal handler stays valid while the    *)
(* handler uses it, although the lock is released.                         *)
THEOREM PointersStayValid == Spec => []HandlerPointerValid
<1>1. IInv => HandlerPointerValid
  BY DEF IInv, CacheInv
<1> QED
  BY <1>1, Invariance, PTL

(* Every address of published code resolves to the method loaded there.    *)
THEOREM PublishedCodeResolves == Spec => []LoadedCodeResolves
<1>1. ASSUME IInv PROVE LoadedCodeResolves
  <2>1. /\ rangeSet \in [Addrs -> Pointers] /\ code \subseteq Blobs
        /\ CodeInv /\ RangeInv /\ PublishedInv
    BY <1>1 DEF IInv, TypeInv, TypeOK, CacheInv
  <2> SUFFICES ASSUME NEW b \in code \ (PreAttach \cup unloading), ~Loading(b),
                      NEW a \in b.s..b.e
               PROVE  /\ GetRange(rangeSet, a) # NoMethod
                      /\ CodeOf(GetRange(rangeSet, a)) = b
    BY DEF LoadedCodeResolves
  <2>2. /\ b \in Blobs /\ b.s \in Addrs /\ b.e \in Addrs /\ b.s \in Int /\ b.e \in Int
        /\ a \in Int /\ b.s <= a /\ a <= b.e
    BY <2>1, CodeCacheAssumption DEF Blobs, Addrs
  <2>3. a \in Addrs
    BY <2>2, CodeCacheAssumption DEF Addrs
  <2>4. rangeSet[b.s] # NoMethod /\ CodeOf(rangeSet[b.s]) = b
    BY <2>1 DEF PublishedInv
  <2>5. rangeSet[b.s].e = b.e
    BY <2>4 DEF CodeOf
  <2>6. ASSUME NEW r \in Addrs, b.s < r, r <= a PROVE rangeSet[r] = NoMethod
    <3> SUFFICES ASSUME rangeSet[r] # NoMethod PROVE FALSE
      OBVIOUS
    <3> DEFINE c == CodeOf(rangeSet[r])
    <3>1. c \in code /\ c.s = r
      BY <2>1 DEF RangeInv, CodeOf
    <3>2. c # b
      BY <2>2, <2>6, <3>1
    <3>3. Disjoint(b, c) /\ c.s <= c.e /\ c \in Blobs
      BY <2>1, <3>1, <3>2 DEF CodeInv
    <3> HIDE DEF c
    <3> QED
      BY <2>2, <2>6, <3>1, <3>3, CodeCacheAssumption DEF Disjoint, Blobs, Addrs
  <2>7. LastStart(rangeSet, a) = {b.s}
    <3>1. b.s \in LastStart(rangeSet, a)
      BY <2>2, <2>4, <2>6 DEF LastStart
    <3>2. ASSUME NEW s \in LastStart(rangeSet, a) PROVE s = b.s
      BY <2>2, <2>4, <2>6, CodeCacheAssumption DEF LastStart, Addrs
    <3> QED
      BY <3>1, <3>2
  <2>8. GetRange(rangeSet, a) = rangeSet[b.s]
    BY <2>2, <2>5, <2>7 DEF GetRange
  <2> QED
    BY <2>4, <2>8
<1> QED
  BY <1>1, Invariance, PTL

(* A dumped method is described by its compiled versions or as never       *)
(* compiled, never both and never neither.                                 *)
THEOREM MethodsFiledOnce == Spec => []DumpedMethodsFiledOnce
<1>1. IInv => DumpedMethodsFiledOnce
  BY DEF IInv
<1> QED
  BY <1>1, Invariance, PTL

(* (id, version) names one description in the method file.                 *)
THEOREM VersionsUnambiguous == Spec => []MethodFileUnambiguous
<1>1. IInv => MethodFileUnambiguous
  BY DEF IInv
<1> QED
  BY <1>1, Invariance, PTL

(* When the agent saw every compilation, the assertion of removeMethod     *)
(* never fails.                                                            *)
THEOREM RemoveNeverAborts == ASSUME PreAttach = {} PROVE Spec => []RemoveAssertHolds
<1>1. Init => RemoveAssertHolds
  BY DEF Init, RemoveAssertHolds
<1>2. IInv /\ RemoveAssertHolds /\ [Next]_vars => RemoveAssertHolds'
  <2> SUFFICES ASSUME IInv, ~aborted, [Next]_vars PROVE ~aborted'
    BY DEF RemoveAssertHolds
  <2>1. ASSUME NEW t \in Threads, RemoveMethod(t) PROVE ~aborted'
    <3>1. blob[t] \in unloading /\ blob[t] \in code /\ ~Loading(blob[t])
      BY <2>1 DEF RemoveMethod, Release, Goto, IInv, TypeInv, TypeOK, HeldInv, UnloadPc,
                  LoadPc, Loading
    <3>2. rangeSet[blob[t].s] # NoMethod
      BY <3>1 DEF IInv, CacheInv, PublishedInv
    <3> QED
      BY <2>1, <3>2 DEF RemoveMethod
  <2>2. CASE ~ \E t \in Threads : RemoveMethod(t)
    BY <2>2 DEF Next, AgentStep, JvmStep, Exit, vars, outVars, LoadLock, AddMethodBegin,
       NewCompiledMethod, AddMethodRelock, AddMethodEnd, OutputMethod, UnloadLock, SampleLock,
       GetMethod, UseMethod, EndLock, CheckAndMoveMethodToUncompiledSet, ThreadGone,
       DumpUncompiledMethod, VMDead, CompiledMethodLoad, CompiledMethodUnload, Sample,
       ThreadEnd, VMDeath
  <2> QED
    BY <2>1, <2>2
<1> QED
  BY <1>1, <1>2, Invariance, PTL DEF Spec

-----------------------------------------------------------------------------
(* The abstract map.                                                       *)

(* The entries of a range set start where they are filed and do not        *)
(* overlap.                                                                *)
Separated(rs) ==
    \A r, s \in Addrs : rs[r] # NoMethod /\ rs[s] # NoMethod =>
        /\ rs[s].s = s /\ s <= rs[s].e
        /\ r # s => rs[r].e < s \/ rs[s].e < r

(* In such a set the lookup finds the entry that covers an address.        *)
LEMMA LookupCovers ==
    ASSUME NEW rs \in [Addrs -> Pointers], Separated(rs), NEW a \in Addrs, NEW s \in Addrs,
           rs[s] # NoMethod, s <= a, a <= rs[s].e
    PROVE  GetRange(rs, a) = rs[s]
<1>1. rs[s] \in CompiledMethod /\ rs[s].e \in Addrs
  BY DEF Pointers, CompiledMethod
<1>2. ASSUME NEW r \in Addrs, s < r, r <= a PROVE rs[r] = NoMethod
  <2> SUFFICES ASSUME rs[r] # NoMethod PROVE FALSE
    OBVIOUS
  <2>1. rs[r].e \in Addrs
    BY DEF Pointers, CompiledMethod
  <2> QED
    BY <1>1, <1>2, <2>1, CodeCacheAssumption DEF Separated, Addrs
<1>3. s \in LastStart(rs, a)
  BY <1>2 DEF LastStart
<1>4. ASSUME NEW q \in LastStart(rs, a) PROVE q = s
  BY <1>2, <1>4, CodeCacheAssumption DEF LastStart, Addrs
<1>5. LastStart(rs, a) = {s}
  BY <1>3, <1>4
<1> QED
  BY <1>5 DEF GetRange

(* The range set of a reachable state is separated.                        *)
LEMMA RangesSeparated == TypeInv /\ RangeInv => Separated(rangeSet)
<1> SUFFICES ASSUME TypeInv, RangeInv, NEW r \in Addrs, NEW s \in Addrs,
                    rangeSet[r] # NoMethod, rangeSet[s] # NoMethod
             PROVE  /\ rangeSet[s].s = s /\ s <= rangeSet[s].e
                    /\ r # s => rangeSet[r].e < s \/ rangeSet[s].e < r
  BY DEF Separated
<1>1. /\ rangeSet[s].s = s /\ rangeSet[r].s = r
      /\ CodeOf(rangeSet[s]) \in code /\ CodeOf(rangeSet[r]) \in code
  BY DEF RangeInv
<1>2. /\ CodeOf(rangeSet[s]).s = s /\ CodeOf(rangeSet[r]).s = r
      /\ CodeOf(rangeSet[s]).e = rangeSet[s].e /\ CodeOf(rangeSet[r]).e = rangeSet[r].e
  BY <1>1 DEF CodeOf
<1>3. s <= rangeSet[s].e
  BY <1>1, <1>2 DEF TypeInv, CodeInv
<1>4. ASSUME r # s PROVE rangeSet[r].e < s \/ rangeSet[s].e < r
  <2>1. Disjoint(CodeOf(rangeSet[r]), CodeOf(rangeSet[s]))
    BY <1>1, <1>2, <1>4 DEF TypeInv, CodeInv
  <2> QED
    BY <1>2, <2>1 DEF Disjoint
<1> QED
  BY <1>1, <1>3, <1>4

(* What the map says of an address: the entry that covers it, if any.      *)
LEMMA IndexEntry ==
    ASSUME TypeInv, RangeInv, NEW a \in Addrs
    PROVE  /\ \A s \in Addrs : rangeSet[s] # NoMethod /\ s <= a /\ a <= rangeSet[s].e =>
                  Index[a] = CodeOf(rangeSet[s])
           /\ Index[a] # NoBlob =>
                  \E s \in Addrs : /\ rangeSet[s] # NoMethod /\ s <= a /\ a <= rangeSet[s].e
                                   /\ Index[a] = CodeOf(rangeSet[s])
<1>1. rangeSet \in [Addrs -> Pointers] /\ Separated(rangeSet)
  BY RangesSeparated DEF TypeInv, TypeOK
<1>2. ASSUME NEW s \in Addrs, rangeSet[s] # NoMethod, s <= a, a <= rangeSet[s].e
      PROVE  Index[a] = CodeOf(rangeSet[s])
  BY <1>1, <1>2, LookupCovers DEF Index
<1>3. ASSUME Index[a] # NoBlob
      PROVE  \E s \in Addrs : /\ rangeSet[s] # NoMethod /\ s <= a /\ a <= rangeSet[s].e
                              /\ Index[a] = CodeOf(rangeSet[s])
  <2>1. GetRange(rangeSet, a) # NoMethod /\ Index[a] = CodeOf(GetRange(rangeSet, a))
    BY <1>3 DEF Index
  <2> QED
    BY <1>1, <2>1, GetRangeResult
<1> QED
  BY <1>2, <1>3

(* Publishing an object at a free start makes its code appear as a whole.  *)
LEMMA PublishStep ==
    ASSUME TypeInv, RangeInv, TypeInv', RangeInv', NEW o \in CompiledMethod,
           rangeSet[o.s] = NoMethod, rangeSet' = [rangeSet EXCEPT ![o.s] = o],
           Held' = Held
    PROVE  \E c \in Blobs : Abstract!Publish(c)
<1> DEFINE c == CodeOf(o)
<1>1. c \in Blobs /\ c.s = o.s /\ c.e = o.e /\ o.s \in Addrs /\ o.e \in Addrs
  BY DEF CodeOf, Blobs, CompiledMethod
<1>2. rangeSet \in [Addrs -> Pointers] /\ rangeSet' \in [Addrs -> Pointers]
  BY DEF TypeInv, TypeOK
<1>3. o # NoMethod /\ rangeSet'[o.s] = o
  BY <1>1, <1>2, CodeCacheAssumption
<1>4. Separated(rangeSet')
  <2>1. TypeInv' /\ RangeInv' => Separated(rangeSet)'
    BY RangesSeparated, PTL
  <2> QED
    BY <2>1 DEF Separated
<1>5. ASSUME NEW a \in Addrs
      PROVE  /\ a \in c.s..c.e => Index[a] = NoBlob /\ Index'[a] = c
             /\ a \notin c.s..c.e => Index'[a] = Index[a]
  <2>1. a \in c.s..c.e <=> o.s <= a /\ a <= o.e
    BY <1>1, CodeCacheAssumption DEF Addrs
  <2>2. ASSUME o.s <= a, a <= o.e PROVE Index'[a] = c
    <3>1. GetRange(rangeSet', a) = o
      BY <1>1, <1>2, <1>3, <1>4, <2>2, LookupCovers
    <3> QED
      BY <1>3, <3>1 DEF Index
  <2>3. ASSUME NEW s \in Addrs, rangeSet[s] # NoMethod, s <= a, a <= rangeSet[s].e
        PROVE  ~(o.s <= a /\ a <= o.e) /\ Index[a] = CodeOf(rangeSet[s])
               /\ Index'[a] = CodeOf(rangeSet[s])
    <3>1. s # o.s /\ rangeSet'[s] = rangeSet[s] /\ rangeSet[s].e \in Addrs
      BY <1>1, <1>2, <2>3 DEF Pointers, CompiledMethod
    <3>2. rangeSet[s].e < o.s \/ o.e < s
      BY <1>1, <1>3, <1>4, <2>3, <3>1 DEF Separated
    <3>3. GetRange(rangeSet', a) = rangeSet[s]
      BY <1>2, <1>4, <2>3, <3>1, LookupCovers
    <3>4. Index[a] = CodeOf(rangeSet[s])
      BY <2>3, IndexEntry
    <3> QED
      BY <1>1, <2>3, <3>1, <3>2, <3>3, <3>4, CodeCacheAssumption DEF Index, Addrs
  <2>4. CASE \E s \in Addrs : rangeSet[s] # NoMethod /\ s <= a /\ a <= rangeSet[s].e
    BY <2>1, <2>3, <2>4
  <2>5. CASE ~ \E s \in Addrs : rangeSet[s] # NoMethod /\ s <= a /\ a <= rangeSet[s].e
    <3>1. Index[a] = NoBlob
      BY <2>5, IndexEntry
    <3>2. ASSUME ~(o.s <= a /\ a <= o.e) PROVE GetRange(rangeSet', a) = NoMethod
      <4> SUFFICES ASSUME GetRange(rangeSet', a) # NoMethod PROVE FALSE
        OBVIOUS
      <4>1. PICK s \in Addrs : /\ GetRange(rangeSet', a) = rangeSet'[s]
                               /\ s <= a /\ a <= rangeSet'[s].e
        BY <1>2, GetRangeResult
      <4> QED
        BY <1>1, <1>2, <1>3, <2>5, <3>2, <4>1
    <3>3. ~(o.s <= a /\ a <= o.e) => Index'[a] = NoBlob
      BY <3>2 DEF Index
    <3> QED
      BY <2>1, <2>2, <3>1, <3>3
  <2> QED
    BY <2>4, <2>5
<1>6. \A a \in c.s..c.e : a \in Addrs
  BY <1>1, CodeCacheAssumption DEF Addrs
<1> HIDE DEF c
<1>7. Index' = [a \in Addrs |-> IF a \in c.s..c.e THEN c ELSE Index[a]]
  <2>1. Index' = [a \in Addrs |-> Index'[a]]
    BY DEF Index
  <2> QED
    BY <2>1, <1>5
<1>8. Abstract!Publish(c)
  BY <1>5, <1>6, <1>7 DEF Abstract!Publish
<1> QED
  BY <1>1, <1>8

(* Removing an entry makes its code disappear as a whole.                  *)
LEMMA WithdrawStep ==
    ASSUME TypeInv, RangeInv, NEW s \in Addrs, rangeSet[s] # NoMethod,
           rangeSet' = [rangeSet EXCEPT ![s] = NoMethod],
           \A t \in Threads : Held[t] # CodeOf(rangeSet[s]), Held' = Held
    PROVE  \E c \in Blobs : Abstract!Withdraw(c)
<1> DEFINE c == CodeOf(rangeSet[s])
<1>1. rangeSet \in [Addrs -> Pointers] /\ rangeSet' \in [Addrs -> Pointers]
      /\ rangeSet'[s] = NoMethod
  BY DEF TypeInv, TypeOK, Pointers
<1>2. c \in Blobs /\ c # NoBlob
  BY <1>1, CodeCacheAssumption DEF CodeOf, Blobs, CompiledMethod, Pointers, NoBlob
<1>3. Separated(rangeSet)
  BY RangesSeparated
<1>4. Separated(rangeSet')
  BY <1>1, <1>3 DEF Separated
<1>5. ASSUME NEW a \in Addrs
      PROVE  Index'[a] = IF Index[a] = c THEN NoBlob ELSE Index[a]
  <2>1. CASE Index[a] = NoBlob
    <3>1. GetRange(rangeSet', a) = NoMethod
      <4> SUFFICES ASSUME GetRange(rangeSet', a) # NoMethod PROVE FALSE
        OBVIOUS
      <4>1. PICK q \in Addrs : /\ GetRange(rangeSet', a) = rangeSet'[q]
                               /\ q <= a /\ a <= rangeSet'[q].e
        BY <1>1, GetRangeResult
      <4>2. q # s /\ rangeSet'[q] = rangeSet[q] /\ rangeSet[q] # NoMethod
        BY <1>1, <4>1
      <4>3. Index[a] = CodeOf(rangeSet[q])
        BY <4>1, <4>2, IndexEntry
      <4> QED
        BY <1>1, <2>1, <4>2, <4>3, CodeCacheAssumption
        DEF CodeOf, NoBlob, CompiledMethod, Pointers
    <3> QED
      BY <1>2, <2>1, <3>1 DEF Index
  <2>2. CASE Index[a] # NoBlob
    <3>1. PICK q \in Addrs : /\ rangeSet[q] # NoMethod /\ q <= a /\ a <= rangeSet[q].e
                             /\ Index[a] = CodeOf(rangeSet[q])
      BY <2>2, IndexEntry
    <3>2. CASE q = s
      <4>1. GetRange(rangeSet', a) = NoMethod
        <5> SUFFICES ASSUME GetRange(rangeSet', a) # NoMethod PROVE FALSE
          OBVIOUS
        <5>1. PICK r \in Addrs : /\ GetRange(rangeSet', a) = rangeSet'[r]
                                 /\ r <= a /\ a <= rangeSet'[r].e
          BY <1>1, GetRangeResult
        <5>2. r # s /\ rangeSet'[r] = rangeSet[r] /\ rangeSet[r] # NoMethod
          BY <1>1, <5>1
        <5>3. rangeSet[r].e \in Addrs /\ rangeSet[s].e \in Addrs
          BY <1>1, <5>2 DEF Pointers, CompiledMethod
        <5> QED
          BY <1>3, <3>1, <3>2, <5>1, <5>2, <5>3, CodeCacheAssumption DEF Separated, Addrs
      <4> QED
        BY <3>1, <3>2, <4>1 DEF Index
    <3>3. CASE q # s
      <4>1. rangeSet'[q] = rangeSet[q]
        BY <1>1, <3>3
      <4>2. GetRange(rangeSet', a) = rangeSet[q]
        BY <1>1, <1>4, <3>1, <4>1, LookupCovers
      <4>3. CodeOf(rangeSet[q]) # c
        BY <1>3, <3>1, <3>3 DEF Separated, CodeOf
      <4> QED
        BY <3>1, <4>2, <4>3 DEF Index
    <3> QED
      BY <3>2, <3>3
  <2> QED
    BY <2>1, <2>2
<1> HIDE DEF c
<1>6. Index' = [a \in Addrs |-> IF Index[a] = c THEN NoBlob ELSE Index[a]]
  <2>1. Index' = [a \in Addrs |-> Index'[a]]
    BY DEF Index
  <2> QED
    BY <2>1, <1>5
<1>7. \A t \in Threads : Held[t] # c
  BY DEF c
<1>8. Abstract!Withdraw(c)
  BY <1>6, <1>7 DEF Abstract!Withdraw
<1> QED
  BY <1>2, <1>8

(* A step of a thread that is not using an object, and does not begin to,  *)
(* leaves what is held alone.                                              *)
LEMMA HeldSame ==
    ASSUME TypeInv, NEW t \in Threads, NEW q, pc' = [pc EXCEPT ![t] = q],
           pc[t] # "use", q # "use", \A u \in Threads : u # t => obj'[u] = obj[u]
    PROVE  Held' = Held
<1>1. pc \in [Threads -> Where]
  BY DEF TypeInv, TypeOK
<1>2. ASSUME NEW u \in Threads
      PROVE  /\ (pc'[u] # "use" \/ obj'[u] = NoMethod) <=> (pc[u] # "use" \/ obj[u] = NoMethod)
             /\ pc[u] = "use" => obj'[u] = obj[u]
  BY <1>1
<1> QED
  BY <1>2 DEF Held

(* Every step is a step of the abstract map or changes nothing in it.      *)
LEMMA RefinementStep ==
    IInv /\ IInv' /\ [Next]_vars => [Abstract!Next]_(Abstract!vars)
<1> SUFFICES ASSUME IInv, IInv', [Next]_vars PROVE [Abstract!Next]_(Abstract!vars)
  OBVIOUS
<1>a. /\ TypeInv /\ RangeInv /\ FreshInv /\ HandlerInv /\ HandlerPointerValid
      /\ TypeInv' /\ RangeInv'
  BY DEF IInv, CacheInv
<1>b. /\ pc \in [Threads -> Where] /\ obj \in [Threads -> Pointers] /\ HeldInv /\ CodeInv
      /\ rangeSet \in [Addrs -> Pointers] /\ ip \in [Threads -> Addrs] /\ code \subseteq Blobs
      /\ unloading \subseteq code
  BY <1>a DEF TypeInv, TypeOK
<1>c. ASSUME rangeSet' = rangeSet PROVE Index' = Index
  BY <1>c DEF Index
<1>1. ASSUME NEW t \in Threads, AddMethodEnd(t) PROVE \E c \in Blobs : Abstract!Publish(c)
  <2>1. /\ pc[t] = "load2" /\ pc' = [pc EXCEPT ![t] = "output"] /\ obj' = obj
        /\ rangeSet' = Insert(rangeSet, obj[t])
    BY <1>1 DEF AddMethodEnd, Release, Goto
  <2>2. obj[t] \in CompiledMethod /\ CodeOf(obj[t]) = blob[t]
    BY <1>b, <2>1 DEF HeldInv, FlightPc
  <2>3. rangeSet[obj[t].s] = NoMethod
    <3>1. rangeSet[blob[t].s] = NoMethod
      BY <1>a, <2>1 DEF FreshInv, LoadPc
    <3> QED
      BY <2>2, <3>1 DEF CodeOf
  <2>4. rangeSet' = [rangeSet EXCEPT ![obj[t].s] = obj[t]]
    BY <2>1, <2>3 DEF Insert
  <2>5. Held' = Held
    BY <1>a, <2>1, HeldSame
  <2> QED
    BY <1>a, <2>2, <2>3, <2>4, <2>5, PublishStep
<1>2. ASSUME NEW t \in Threads, RemoveMethod(t)
      PROVE  (\E c \in Blobs : Abstract!Withdraw(c)) \/ (Index' = Index /\ Held' = Held)
  <2> DEFINE a == blob[t].s
  <2>1. /\ pc[t] = "unload1" /\ pc' = [pc EXCEPT ![t] = "run"] /\ obj' = obj
        /\ rangeSet' = rangeSet \/ rangeSet' = [rangeSet EXCEPT ![a] = NoMethod]
    BY <1>2 DEF RemoveMethod, Release, Goto, Remove
  <2>2. Held' = Held
    BY <1>a, <2>1, HeldSame
  <2>3. blob[t] \in unloading /\ blob[t] \in code /\ a \in Addrs
    BY <1>b, <2>1 DEF HeldInv, UnloadPc, Blobs
  <2>4. CASE rangeSet' = rangeSet
    BY <1>c, <2>2, <2>4
  <2>5. CASE rangeSet' # rangeSet
    <3>1. rangeSet' = [rangeSet EXCEPT ![a] = NoMethod] /\ rangeSet[a] # NoMethod
      BY <1>b, <2>1, <2>3, <2>5
    <3>2. CodeOf(rangeSet[a]) = blob[t]
      <4>1. CodeOf(rangeSet[a]) \in code /\ CodeOf(rangeSet[a]).s = a
        BY <1>a, <2>3, <3>1 DEF RangeInv, CodeOf
      <4>2. CodeOf(rangeSet[a]) # blob[t] => Disjoint(CodeOf(rangeSet[a]), blob[t])
        BY <1>b, <2>3, <4>1 DEF CodeInv
      <4>3. CodeOf(rangeSet[a]) \in Blobs /\ CodeOf(rangeSet[a]).s <= CodeOf(rangeSet[a]).e
            /\ blob[t] \in Blobs /\ blob[t].s <= blob[t].e
        BY <1>b, <2>3, <4>1 DEF CodeInv
      <4> QED
        BY <4>1, <4>2, <4>3, StartsDiffer
    <3>3. ASSUME NEW u \in Threads PROVE Held[u] # CodeOf(rangeSet[a])
      <4> SUFFICES ASSUME Held[u] = blob[t] PROVE FALSE
        BY <3>2
      <4>1. blob[t] # NoBlob
        BY <1>b, <2>3, CodeCacheAssumption DEF Blobs, NoBlob
      <4>2. pc[u] = "use" /\ obj[u] # NoMethod /\ CodeOf(obj[u]) = blob[t]
        BY <4>1 DEF Held
      <4>3. Covers(obj[u], ip[u]) /\ ~Covers(blob[t], ip[u])
        BY <1>a, <2>3, <4>2 DEF HandlerPointerValid, HandlerInv, InHandler
      <4> QED
        BY <4>2, <4>3 DEF Covers, CodeOf
    <3> QED
      BY <1>a, <2>2, <2>3, <3>1, <3>3, WithdrawStep
  <2> QED
    BY <2>4, <2>5
<1>3. ASSUME NEW t \in Threads, GetMethod(t)
      PROVE  \E x \in Addrs : Abstract!Lookup(t, x)
  <2>1. /\ pc' = [pc EXCEPT ![t] = "use"] /\ rangeSet' = rangeSet
        /\ obj' = [obj EXCEPT ![t] = GetRange(rangeSet, ip[t])] /\ pc[t] = "sample1"
    BY <1>3 DEF GetMethod, Release, Goto, cacheVars
  <2>2. Held' = [Held EXCEPT ![t] = Index[ip[t]]]
    BY <1>b, <2>1 DEF Held, Index
  <2>3. Index' = Index
    BY <1>c, <2>1
  <2>4. Abstract!Lookup(t, ip[t])
    BY <2>2, <2>3 DEF Abstract!Lookup
  <2> QED
    BY <1>b, <2>4
<1>4. ASSUME NEW t \in Threads, NEW caller \in Methods, UseMethod(t, caller)
      PROVE  Abstract!Drop(t)
  <2>1. /\ pc' = [pc EXCEPT ![t] = "run"] /\ rangeSet' = rangeSet
        /\ obj' = [obj EXCEPT ![t] = NoMethod]
    BY <1>4 DEF UseMethod, Goto, cacheVars
  <2>2. Held' = [Held EXCEPT ![t] = NoBlob]
    BY <1>b, <2>1 DEF Held
  <2> QED
    BY <1>c, <2>1, <2>2 DEF Abstract!Drop
<1>5. ASSUME NEW t \in Threads,
             \/ LoadLock(t) \/ AddMethodBegin(t) \/ NewCompiledMethod(t) \/ AddMethodRelock(t)
             \/ OutputMethod(t) \/ UnloadLock(t) \/ SampleLock(t) \/ EndLock(t)
             \/ \E m \in Methods : CheckAndMoveMethodToUncompiledSet(t, m)
             \/ ThreadGone(t) \/ VMDead(t) \/ \E m \in Methods : DumpUncompiledMethod(t, m)
             \/ JvmStep(t)
      PROVE  Index' = Index /\ Held' = Held
  <2>1. \E q : pc' = [pc EXCEPT ![t] = q] /\ q # "use"
    BY <1>5 DEF JvmStep, LoadLock, AddMethodBegin, NewCompiledMethod, AddMethodRelock,
       OutputMethod, UnloadLock, SampleLock, EndLock, CheckAndMoveMethodToUncompiledSet,
       ThreadGone, VMDead, DumpUncompiledMethod, CompiledMethodLoad, CompiledMethodUnload,
       Sample, ThreadEnd, VMDeath, Goto, Acquire, Release
  <2>2. pc[t] # "use"
    BY <1>5 DEF JvmStep, LoadLock, AddMethodBegin, NewCompiledMethod, AddMethodRelock,
       OutputMethod, UnloadLock, SampleLock, EndLock, CheckAndMoveMethodToUncompiledSet,
       ThreadGone, VMDead, DumpUncompiledMethod, CompiledMethodLoad, CompiledMethodUnload,
       Sample, ThreadEnd, VMDeath, Goto, Acquire, Release
  <2>3. rangeSet' = rangeSet /\ \A u \in Threads : u # t => obj'[u] = obj[u]
    BY <1>5, <1>b DEF JvmStep, LoadLock, AddMethodBegin, NewCompiledMethod, AddMethodRelock,
       OutputMethod, UnloadLock, SampleLock, EndLock, CheckAndMoveMethodToUncompiledSet,
       ThreadGone, VMDead, DumpUncompiledMethod, CompiledMethodLoad, CompiledMethodUnload,
       Sample, ThreadEnd, VMDeath, cacheVars
  <2> QED
    BY <1>a, <1>c, <2>1, <2>2, <2>3, HeldSame
<1>6. CASE UNCHANGED vars
  BY <1>6 DEF vars, cacheVars, Index, Held, Abstract!vars
<1> QED
  BY <1>1, <1>2, <1>3, <1>4, <1>5, <1>6
  DEF Next, AgentStep, Exit, Abstract!Next, Abstract!vars

(* The manager implements the abstract map: lookups see whole pieces of    *)
(* code, and code is withdrawn only when no handler uses it.               *)
THEOREM Refinement == Spec => ImplementsCodeIndex
<1>1. Init => Abstract!Init
  <2> SUFFICES ASSUME Init PROVE Abstract!Init
    OBVIOUS
  <2>1. Held = [t \in Threads |-> NoBlob]
    BY DEF Init, Held
  <2>2. ASSUME NEW a \in Addrs PROVE GetRange(rangeSet, a) = NoMethod
    BY DEF Init, GetRange, LastStart
  <2> QED
    BY <2>1, <2>2 DEF Index, Abstract!Init
<1>2. IInv /\ IInv' /\ [Next]_vars => [Abstract!Next]_(Abstract!vars)
  BY RefinementStep
<1> QED
  BY <1>1, <1>2, Invariance, PTL DEF Spec, ImplementsCodeIndex, Abstract!Spec

=============================================================================

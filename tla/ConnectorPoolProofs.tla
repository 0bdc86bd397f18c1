------------------------ MODULE ConnectorPoolProofs ------------------------
(***************************************************************************)
(* Proofs about ConnectorPool for any number of calls and sources.         *)
(***************************************************************************)
EXTENDS ConnectorPool, FiniteSetTheorems, SequenceTheorems, TLAPS
LOCAL INSTANCE SequencesExt

(***************************************************************************)
(* Every step on the source lock is an acquisition of a free lock, an      *)
(* Append, a removal or a Release; what Release does, component-wise.      *)
(***************************************************************************)
LEMMA ReleaseEffect ==
  ASSUME TypeOK, NEW s \in Sources, Release(s)
  PROVE  /\ holder' \in [Sources -> Calls \cup {NoConn}]
         /\ waiters' \in [Sources -> Seq(Calls)]
         /\ \A t \in Sources \ {s} : holder'[t] = holder[t] /\ waiters'[t] = waiters[t]
         /\ \/ waiters[s] = <<>> /\ holder'[s] = NoConn /\ waiters'[s] = <<>>
            \/ /\ waiters[s] # <<>> /\ holder'[s] = waiters[s][1]
               /\ Len(waiters'[s]) = Len(waiters[s]) - 1
               /\ \A i \in 1..Len(waiters'[s]) : waiters'[s][i] = waiters[s][i+1]
<1>1. CASE waiters[s] = <<>>
  BY <1>1 DEF TypeOK, Release
<1>2. CASE waiters[s] # <<>>
  <2>1. /\ Head(waiters[s]) \in Calls
        /\ Head(waiters[s]) = waiters[s][1]
        /\ Tail(waiters[s]) \in Seq(Calls)
        /\ Len(Tail(waiters[s])) = Len(waiters[s]) - 1
        /\ \A i \in 1..Len(Tail(waiters[s])) : Tail(waiters[s])[i] = waiters[s][i+1]
    BY <1>2, HeadTailProperties DEF TypeOK
  <2>2. /\ holder' = [holder EXCEPT ![s] = Head(waiters[s])]
        /\ waiters' = [waiters EXCEPT ![s] = Tail(waiters[s])]
    BY <1>2 DEF Release
  <2>. QED
    BY <1>2, <2>1, <2>2 DEF TypeOK
<1>. QED
  BY <1>1, <1>2

(***************************************************************************)
(* A queue without its i-th element.                                       *)
(***************************************************************************)
LEMMA RemoveAtEffect ==
  ASSUME NEW q \in Seq(Calls), NEW i \in 1..Len(q)
  PROVE  /\ RemoveAt(q, i) \in Seq(Calls)
         /\ Len(RemoveAt(q, i)) = Len(q) - 1
         /\ \A j \in 1..Len(RemoveAt(q, i)) :
              RemoveAt(q, i)[j] = IF j < i THEN q[j] ELSE q[j+1]
<1>. DEFINE a == SubSeq(q, 1, i-1)
             b == SubSeq(q, i+1, Len(q))
             r == RemoveAt(q, i)
<1>1. /\ a \in Seq(Calls)
      /\ Len(a) = i - 1
      /\ \A j \in 1..i-1 : a[j] = q[j]
  BY SubSeqProperties
<1>2. /\ b \in Seq(Calls)
      /\ Len(b) = Len(q) - i
      /\ \A j \in 1..Len(q) - i : b[j] = q[i+j]
  BY SubSeqProperties
<1>. HIDE DEF a, b, r
<1>3. /\ a \o b \in Seq(Calls)
      /\ Len(a \o b) = Len(a) + Len(b)
      /\ \A j \in 1..Len(a) + Len(b) : (a \o b)[j] = IF j <= Len(a) THEN a[j] ELSE b[j - Len(a)]
  BY <1>1, <1>2, ConcatProperties
<1>4. r = a \o b
  BY DEF a, b, r, RemoveAt
<1>5. /\ Len(q) \in Nat /\ i \in Nat /\ 1 <= i /\ i <= Len(q)
      /\ Len(r) = Len(q) - 1 /\ r \in Seq(Calls)
  <2>1. Len(q) \in Nat
    OBVIOUS
  <2>2. i \in Nat /\ 1 <= i /\ i <= Len(q)
    BY <2>1
  <2>3. r \in Seq(Calls) /\ Len(r) = Len(a) + Len(b)
    BY <1>3, <1>4
  <2>4. Len(a) = i - 1 /\ Len(b) = Len(q) - i
    BY <1>1, <1>2
  <2>. QED
    BY <2>1, <2>2, <2>3, <2>4
<1>6. ASSUME NEW j \in 1..Len(q) - 1
      PROVE  r[j] = IF j < i THEN q[j] ELSE q[j+1]
  <2>0. j \in Nat /\ 1 <= j /\ j <= Len(q) - 1 /\ j \in 1..Len(a) + Len(b)
    BY <1>1, <1>2, <1>5
  <2>1. CASE j < i
    <3>1. j \in 1..i-1 /\ j <= Len(a)
      BY <1>1, <1>5, <2>0, <2>1
    <3>2. r[j] = a[j] /\ a[j] = q[j]
      BY <1>1, <1>3, <1>4, <2>0, <3>1
    <3>. QED
      BY <2>1, <3>2
  <2>2. CASE ~(j < i)
    <3>1. /\ ~(j <= Len(a)) /\ j - Len(a) \in 1..Len(q) - i
          /\ i + (j - Len(a)) = j + 1
      BY <1>1, <1>5, <2>0, <2>2
    <3>2. r[j] = b[j - Len(a)]
      BY <1>3, <1>4, <2>0, <3>1
    <3>3. b[j - Len(a)] = q[i + (j - Len(a))]
      BY <1>2, <3>1
    <3>. QED
      BY <2>2, <3>1, <3>2, <3>3
  <2>. QED
    BY <2>1, <2>2
<1>. QED
  BY <1>5, <1>6 DEF r

LEMMA CancelEffect ==
  ASSUME TypeOK, NEW c \in Calls, CancelWaiting(c)
  PROVE  LET s == Target[c]
         IN  \/ holder[s] = c /\ Release(s)
             \/ /\ holder[s] # c /\ UNCHANGED holder
                /\ waiters' \in [Sources -> Seq(Calls)]
                /\ \A t \in Sources \ {s} : waiters'[t] = waiters[t]
                /\ \E i \in 1..Len(waiters[s]) :
                     /\ waiters[s][i] = c
                     /\ Len(waiters'[s]) = Len(waiters[s]) - 1
                     /\ \A j \in 1..Len(waiters'[s]) :
                          waiters'[s][j] = IF j < i THEN waiters[s][j] ELSE waiters[s][j+1]
<1>. DEFINE s == Target[c]
<1>0. s \in Sources
  BY TargetAssumption
<1>1. CASE holder[s] = c
  BY <1>1 DEF CancelWaiting
<1>2. CASE holder[s] # c
  <2>1. PICK i \in 1..Len(waiters[s]) :
          /\ waiters[s][i] = c
          /\ waiters' = [waiters EXCEPT ![s] = RemoveAt(waiters[s], i)]
    BY <1>2 DEF CancelWaiting
  <2>2. /\ RemoveAt(waiters[s], i) \in Seq(Calls)
        /\ Len(RemoveAt(waiters[s], i)) = Len(waiters[s]) - 1
        /\ \A j \in 1..Len(RemoveAt(waiters[s], i)) :
             RemoveAt(waiters[s], i)[j] = IF j < i THEN waiters[s][j] ELSE waiters[s][j+1]
    <3>1. waiters[s] \in Seq(Calls)
      BY <1>0 DEF TypeOK
    <3>. HIDE DEF s
    <3>. QED
      BY <3>1, RemoveAtEffect
  <2>3. UNCHANGED holder
    BY <1>2 DEF CancelWaiting
  <2>. QED
    BY <1>0, <1>2, <2>1, <2>2, <2>3 DEF TypeOK
<1>. QED
  BY <1>1, <1>2

-----------------------------------------------------------------------------
(***************************************************************************)
(* Type correctness.                                                       *)
(***************************************************************************)
LEMMA TypeInit == Init => TypeOK
<1>. SUFFICES ASSUME Init PROVE TypeOK
  OBVIOUS
<1>1. /\ sources \in [Sources -> {"absent", "typed", "untyped"}]
      /\ pool \in [Sources -> Calls \cup {NoConn}] /\ holder \in [Sources -> Calls \cup {NoConn}]
      /\ waiters \in [Sources -> Seq(Calls)]
  BY EmptySeq DEF Init
<1>2. /\ pc \in [Calls -> Suspended \cup {"start", "using", "done", "failed"}]
      /\ conn \in [Calls -> {"unbuilt", "connecting", "open", "closing", "closed", "lost"}]
      /\ served \in [Calls -> Calls \cup {NoConn}]
  BY DEF Init
<1>3. /\ place \in [Sources -> Nat] /\ used \in Nat /\ size \in Nat /\ at \in Nat
      /\ closing \in {"idle", "running", "returned", "raised"}
      /\ visited \in SUBSET Calls /\ rebuilt \in BOOLEAN /\ passed \in SUBSET Sources
  BY DEF Init
<1>. QED
  BY <1>1, <1>2, <1>3 DEF TypeOK

LEMMA EntriesCount == IsFiniteSet(Entries) /\ Cardinality(Entries) \in Nat
BY SourcesAssumption, FS_Subset, FS_CardinalityType DEF Entries

LEMMA UpToCount == \A s \in Sources :
  /\ IsFiniteSet(UpTo(s)) /\ Cardinality(UpTo(s)) \in Nat
  /\ Cardinality(UpTo(s)) <= Cardinality(Entries)
<1>. SUFFICES ASSUME NEW s \in Sources
              PROVE  /\ IsFiniteSet(UpTo(s)) /\ Cardinality(UpTo(s)) \in Nat
                     /\ Cardinality(UpTo(s)) <= Cardinality(Entries)
  OBVIOUS
<1>1. UpTo(s) \in SUBSET Entries
  BY DEF UpTo
<1>. QED
  BY <1>1, EntriesCount, FS_Subset, FS_CardinalityType

LEMMA InsertType ==
  ASSUME TypeOK, NEW c \in Calls, Insert(c)
  PROVE  /\ pool' \in [Sources -> Calls \cup {NoConn}]
         /\ place' \in [Sources -> Nat] /\ used' \in Nat
         /\ rebuilt' \in BOOLEAN /\ passed' \in SUBSET Sources
<1>1. pool' \in [Sources -> Calls \cup {NoConn}]
  BY TargetAssumption DEF Insert, TypeOK
<1>2. passed' \in SUBSET Sources
  BY DEF Insert, Entries
<1>3. CASE place' = [place EXCEPT ![Target[c]] = used + 1] /\ used' = used + 1 /\ UNCHANGED rebuilt
  <2>0. place \in [Sources -> Nat] /\ used \in Nat
    BY DEF TypeOK
  <2>. DEFINE last == used + 1
  <2>1. last \in Nat /\ place' = [place EXCEPT ![Target[c]] = last] /\ used' = last
    BY <1>3, <2>0
  <2>. HIDE DEF last
  <2>3. place' \in [Sources -> Nat] /\ used' \in Nat
    BY <2>0, <2>1
  <2>2. rebuilt' \in BOOLEAN
    BY <1>3 DEF TypeOK
  <2>. QED
    BY <1>1, <1>2, <2>2, <2>3
<1>4. CASE /\ place' = [s \in Sources |->
                IF s = Target[c] THEN Cardinality(Entries) + 1
                ELSE IF s \in Entries THEN Cardinality(UpTo(s)) ELSE 0]
           /\ used' = Cardinality(Entries) + 1
           /\ rebuilt' = (closing = "running" \/ rebuilt)
  <2>1. place' \in [Sources -> Nat] /\ used' \in Nat
    BY <1>4, EntriesCount, UpToCount
  <2>2. rebuilt' \in BOOLEAN
    BY <1>4
  <2>. QED
    BY <1>1, <1>2, <2>1, <2>2
<1>. QED
  BY <1>3, <1>4 DEF Insert

LEMMA TypeStep == TypeOK /\ [Next]_vars => TypeOK'
<1>. SUFFICES ASSUME TypeOK, [Next]_vars PROVE TypeOK'
  OBVIOUS
<1>0. \A c \in Calls : Target[c] \in Sources
  BY TargetAssumption
<1>1. ASSUME NEW c \in Calls,
             Hit(c) \/ NotFound(c) \/ Wait(c) \/ Build(c) \/ ConnectFails(c) \/ Finish(c)
      PROVE  TypeOK'
  <2>1. CASE Wait(c)
    BY <2>1, <1>0, AppendProperties DEF Wait, TypeOK, entries, closer, Suspended
  <2>2. CASE Hit(c)
    BY <2>2, <1>0 DEF Hit, Serve, TypeOK, locks, entries, closer
  <2>3. CASE NotFound(c) \/ Finish(c)
    BY <2>3 DEF NotFound, Finish, TypeOK, locks, entries, closer
  <2>4. CASE Build(c)
    BY <2>4, <1>0 DEF Build, TypeOK, Suspended, entries, closer
  <2>5. CASE ConnectFails(c)
    BY <2>5 DEF ConnectFails, TypeOK, Suspended, locks, entries, closer
  <2>. QED
    BY <1>1, <2>1, <2>2, <2>3, <2>4, <2>5
<1>2. ASSUME NEW c \in Calls,
             LockedHit(c) \/ LockedMiss(c) \/ Connected(c) \/ Cleaned(c) \/ CancelCritical(c)
      PROVE  TypeOK'
  <2>1. Release(Target[c])
    BY <1>2 DEF LockedHit, LockedMiss, Connected, Cleaned, CancelCritical
  <2>2. holder' \in [Sources -> Calls \cup {NoConn}] /\ waiters' \in [Sources -> Seq(Calls)]
    BY <1>0, <2>1, ReleaseEffect
  <2>3. CASE LockedHit(c)
    BY <1>0, <2>2, <2>3 DEF LockedHit, Serve, TypeOK, entries, closer
  <2>4. CASE LockedMiss(c)
    BY <2>2, <2>4 DEF LockedMiss, TypeOK, entries, closer
  <2>5. CASE Connected(c)
    BY <1>0, <2>2, <2>5, InsertType DEF Connected, TypeOK
  <2>6. CASE Cleaned(c) \/ CancelCritical(c)
    BY <2>2, <2>6 DEF Cleaned, CancelCritical, TypeOK, entries, closer
  <2>. QED
    BY <1>2, <2>3, <2>4, <2>5, <2>6
<1>3. ASSUME NEW c \in Calls, CancelWaiting(c) PROVE TypeOK'
  <2>1. holder' \in [Sources -> Calls \cup {NoConn}] /\ waiters' \in [Sources -> Seq(Calls)]
    BY <1>0, <1>3, CancelEffect, ReleaseEffect DEF TypeOK
  <2>. QED
    BY <1>3, <2>1 DEF CancelWaiting, TypeOK, entries, closer, Suspended
<1>4. ASSUME NEW s \in Sources,
             (\E type \in {"typed", "untyped"} : AddDataSource(s, type)) \/ RemoveDataSource(s)
      PROVE  TypeOK'
  <2>1. CASE RemoveDataSource(s)
    BY <2>1 DEF RemoveDataSource, TypeOK, locks, closer
  <2>2. CASE \E type \in {"typed", "untyped"} : AddDataSource(s, type)
    BY <2>2 DEF AddDataSource, TypeOK, locks, entries, closer
  <2>. QED
    BY <1>4, <2>1, <2>2
<1>5. CASE CloseEmpty \/ CloseBegins \/ CloseResumes
  <2>1. CASE CloseEmpty
    BY <2>1 DEF CloseEmpty, Clear, Leave, TypeOK, locks, entries
  <2>0. ASSUME NEW k \in Calls, NEW after, Visit(k, after)
        PROVE  /\ at' \in Nat /\ visited' \in SUBSET Calls /\ closing' = "running"
               /\ UNCHANGED <<pool, place, used, rebuilt, passed>>
               /\ conn' = [after EXCEPT ![k] = "closing"]
    BY <2>0 DEF Visit, Ahead, Entries, TypeOK, entries
  <2>2. CASE CloseBegins
    <3>1. PICK k \in Calls : Visit(k, conn)
      BY <2>2 DEF CloseBegins
    <3>2. /\ at' \in Nat /\ visited' \in SUBSET Calls /\ closing' = "running"
          /\ UNCHANGED <<pool, place, used, rebuilt, passed>>
          /\ conn' = [conn EXCEPT ![k] = "closing"]
      BY <2>0, <3>1
    <3>3. size' \in Nat /\ UNCHANGED <<sources, holder, waiters, pc, served>>
      BY <2>2, EntriesCount DEF CloseBegins, locks
    <3>. QED
      BY <3>2, <3>3 DEF TypeOK
  <2>3. ASSUME NEW k \in Calls, CloseContinues(k) PROVE TypeOK'
    <3>1. PICK j \in Calls : Visit(j, Shut(k))
      BY <2>3 DEF CloseContinues
    <3>2. /\ at' \in Nat /\ visited' \in SUBSET Calls /\ closing' = "running"
          /\ UNCHANGED <<pool, place, used, rebuilt, passed>>
          /\ conn' = [[conn EXCEPT ![k] = "closed"] EXCEPT ![j] = "closing"]
      BY <2>0, <3>1 DEF Shut
    <3>3. UNCHANGED <<sources, holder, waiters, pc, served, size>>
      BY <2>3 DEF CloseContinues, locks
    <3>. QED
      BY <3>2, <3>3 DEF TypeOK
  <2>4. ASSUME NEW k \in Calls, CloseReturns(k) PROVE TypeOK'
    BY <2>4 DEF CloseReturns, Clear, Leave, Shut, TypeOK, locks, entries
  <2>5. ASSUME NEW k \in Calls, CloseRaises(k) PROVE TypeOK'
    BY <2>5 DEF CloseRaises, Leave, Shut, TypeOK, locks, entries
  <2>. QED
    BY <1>5, <2>1, <2>2, <2>3, <2>4, <2>5 DEF CloseResumes
<1>6. CASE UNCHANGED vars
  BY <1>6 DEF vars, locks, entries, closer, TypeOK
<1>. QED
  BY <1>1, <1>2, <1>3, <1>4, <1>5, <1>6 DEF Next, LeavesLock

\* The state always has the shape TypeOK says.
THEOREM TypeCorrect == Safety => []TypeOK
BY TypeInit, TypeStep, PTL DEF Safety

-----------------------------------------------------------------------------
(***************************************************************************)
(* The invariant of the build: a call in the critical section holds the    *)
(* lock of its source, whose slot is empty; a call that has not entered it *)
(* has no connector; a connector that has been shared in any way belongs   *)
(* to a call that is out of _get_connector, after a successful connect().  *)
(***************************************************************************)
Inside(c) == pc[c] = "start" \/ pc[c] \in Suspended

Shared(k) == \/ k \in visited
             \/ \E s \in Sources : pool[s] = k
             \/ \E c \in Calls : served[c] = k

CriticalInv == \A c \in Calls :
  Critical(c) => /\ holder[Target[c]] = c /\ pool[Target[c]] = NoConn
                 /\ conn[c] \in {"connecting", "closing"}

UnbuiltInv == \A c \in Calls : pc[c] \in {"start", "waiting"} => conn[c] = "unbuilt"

SharedInv == \A k \in Calls :
  Shared(k) => ~Inside(k) /\ conn[k] \in {"open", "closing", "closed"}

BuildInv == CriticalInv /\ UnbuiltInv /\ SharedInv

LEMMA BuildInit == Init => BuildInv
BY NoConnAssumption
DEF Init, BuildInv, CriticalInv, UnbuiltInv, SharedInv, Shared, Inside, Critical, Suspended

LEMMA BuildStep == TypeOK /\ BuildInv /\ [Next]_vars => BuildInv'
<1>. SUFFICES ASSUME TypeOK, BuildInv, [Next]_vars PROVE BuildInv'
  OBVIOUS
<1>. USE NoConnAssumption DEF BuildInv, Critical, Inside, Suspended
<1>0. \A c \in Calls : Target[c] \in Sources
  BY TargetAssumption
<1>1. ASSUME NEW c \in Calls, Hit(c) PROVE BuildInv'
  <2>1. CriticalInv' /\ UnbuiltInv'
    BY <1>1 DEF Hit, Serve, CriticalInv, UnbuiltInv, TypeOK, locks, closer
  <2>2. ASSUME NEW k \in Calls, Shared(k)' PROVE Shared(k)
    BY <1>0, <1>1, <2>2 DEF Hit, Serve, Shared, TypeOK, locks, closer
  <2>3. SharedInv'
    BY <1>1, <2>2 DEF Hit, Serve, SharedInv, TypeOK
  <2>. QED
    BY <2>1, <2>3
<1>2. ASSUME NEW c \in Calls, NotFound(c) \/ Wait(c) \/ Finish(c) PROVE BuildInv'
  <2>1. CriticalInv' /\ UnbuiltInv'
    BY <1>2 DEF NotFound, Wait, Finish, CriticalInv, UnbuiltInv, TypeOK, locks, closer, Missing
  <2>2. ASSUME NEW k \in Calls, Shared(k)' PROVE Shared(k)
    BY <1>2, <2>2 DEF NotFound, Wait, Finish, Shared, locks, closer
  <2>3. SharedInv'
    BY <1>2, <2>2 DEF NotFound, Wait, Finish, SharedInv, TypeOK, Missing
  <2>. QED
    BY <2>1, <2>3
<1>. DEFINE Frame(c) == \A t \in Sources \ {Target[c]} : holder'[t] = holder[t]
\* A call that frees or passes on the lock of its source is the only one that
\* could be in the critical section of that source.
<1>3. ASSUME NEW c \in Calls, Locked(c) \/ Critical(c) \/ holder[Target[c]] = c,
             NEW d \in Calls, Critical(d), d # c
      PROVE  Target[d] # Target[c]
  BY <1>0, <1>3 DEF Locked, CriticalInv
<1>4. ASSUME NEW c \in Calls, LockedHit(c) \/ LockedMiss(c) PROVE BuildInv'
  <2>1. Frame(c)
    BY <1>0, <1>4, ReleaseEffect DEF LockedHit, LockedMiss
  <2>2. Locked(c) /\ ~Critical(c) /\ ~Critical(c)'
    BY <1>4 DEF LockedHit, LockedMiss, Serve, Locked, Missing, TypeOK
  <2>3. \A d \in Calls : d # c => pc'[d] = pc[d]
    BY <1>4 DEF LockedHit, LockedMiss, Serve, TypeOK
  <2>4. UNCHANGED <<pool, conn, visited>>
    BY <1>4 DEF LockedHit, LockedMiss, closer
  <2>5. CriticalInv'
    BY <1>0, <1>3, <2>1, <2>2, <2>3, <2>4 DEF CriticalInv
  <2>6. UnbuiltInv'
    BY <1>4, <2>3, <2>4 DEF LockedHit, LockedMiss, Serve, UnbuiltInv, TypeOK
  <2>7. ASSUME NEW k \in Calls, Shared(k)' PROVE Shared(k)
    BY <1>0, <1>4, <2>4, <2>7 DEF LockedHit, LockedMiss, Serve, Shared, TypeOK
  <2>8. SharedInv'
    BY <1>4, <2>4, <2>7 DEF LockedHit, LockedMiss, Serve, SharedInv, TypeOK
  <2>. QED
    BY <2>5, <2>6, <2>8
<1>5. ASSUME NEW c \in Calls, Build(c) PROVE BuildInv'
  <2>1. CriticalInv'
    BY <1>0, <1>3, <1>5 DEF Build, CriticalInv, TypeOK
  <2>2. UnbuiltInv'
    BY <1>5 DEF Build, UnbuiltInv, TypeOK
  <2>3. Inside(c)
    BY <1>5 DEF Build, Locked, Missing
  <2>4. SharedInv'
    BY <1>5, <2>3 DEF Build, SharedInv, Shared, TypeOK, closer
  <2>. QED
    BY <2>1, <2>2, <2>4
<1>6. ASSUME NEW c \in Calls, Connected(c) PROVE BuildInv'
  <2>1. Frame(c)
    BY <1>0, <1>6, ReleaseEffect DEF Connected
  <2>2. Critical(c)
    BY <1>6 DEF Connected
  <2>3. CriticalInv'
    BY <1>0, <1>3, <1>6, <2>1, <2>2 DEF Connected, Insert, CriticalInv, TypeOK
  <2>4. UnbuiltInv'
    BY <1>6 DEF Connected, UnbuiltInv, TypeOK
  <2>5. ASSUME NEW k \in Calls, Shared(k)' PROVE k = c \/ Shared(k)
    BY <1>0, <1>6, <2>5 DEF Connected, Insert, Shared, TypeOK
  <2>6. SharedInv'
    BY <1>6, <2>5 DEF Connected, SharedInv, TypeOK
  <2>. QED
    BY <2>3, <2>4, <2>6
<1>7. ASSUME NEW c \in Calls, ConnectFails(c) PROVE BuildInv'
  <2>1. CriticalInv' /\ UnbuiltInv'
    BY <1>7 DEF ConnectFails, CriticalInv, UnbuiltInv, TypeOK, locks
  <2>2. SharedInv'
    BY <1>7 DEF ConnectFails, SharedInv, Shared, TypeOK, closer
  <2>. QED
    BY <2>1, <2>2
<1>8. ASSUME NEW c \in Calls, Cleaned(c) \/ CancelCritical(c) PROVE BuildInv'
  <2>1. Frame(c)
    BY <1>0, <1>8, ReleaseEffect DEF Cleaned, CancelCritical
  <2>2. Critical(c)
    BY <1>8 DEF Cleaned, CancelCritical
  <2>3. CriticalInv'
    BY <1>0, <1>3, <1>8, <2>1, <2>2 DEF Cleaned, CancelCritical, CriticalInv, TypeOK
  <2>4. UnbuiltInv'
    BY <1>8 DEF Cleaned, CancelCritical, UnbuiltInv, TypeOK
  <2>5. SharedInv'
    BY <1>8, <2>2 DEF Cleaned, CancelCritical, SharedInv, Shared, TypeOK, closer
  <2>. QED
    BY <2>3, <2>4, <2>5
<1>9. ASSUME NEW c \in Calls, CancelWaiting(c) PROVE BuildInv'
  <2>1. Frame(c) /\ (holder[Target[c]] # c => UNCHANGED holder)
    BY <1>0, <1>9, CancelEffect, ReleaseEffect
  <2>2. CriticalInv'
    BY <1>0, <1>3, <1>9, <2>1 DEF CancelWaiting, CriticalInv, TypeOK
  <2>3. UnbuiltInv'
    BY <1>9 DEF CancelWaiting, UnbuiltInv, TypeOK
  <2>4. SharedInv'
    BY <1>9 DEF CancelWaiting, SharedInv, Shared, TypeOK, closer
  <2>. QED
    BY <2>2, <2>3, <2>4
<1>10. ASSUME NEW s \in Sources,
              (\E type \in {"typed", "untyped"} : AddDataSource(s, type)) \/ RemoveDataSource(s)
       PROVE  BuildInv'
  <2>1. CriticalInv' /\ UnbuiltInv'
    BY <1>0, <1>10 DEF AddDataSource, RemoveDataSource, CriticalInv, UnbuiltInv, TypeOK, locks
  <2>2. SharedInv'
    BY <1>10 DEF AddDataSource, RemoveDataSource, SharedInv, Shared, TypeOK, closer
  <2>. QED
    BY <2>1, <2>2
<1>11. ASSUME \/ CloseEmpty
              \/ \E k \in Calls : CloseReturns(k) \/ CloseRaises(k)
       PROVE  BuildInv'
  <2>1. /\ UNCHANGED <<holder, pc, served>>
        /\ visited' = {}
        /\ \A s \in Sources : pool'[s] \in {pool[s], NoConn}
    BY <1>11 DEF CloseEmpty, CloseReturns, CloseRaises, Clear, Leave, locks
  <2>2. \A d \in Calls : conn'[d] = conn[d] \/ (conn'[d] = "closed" /\ Shared(d))
    BY <1>11 DEF CloseEmpty, CloseReturns, CloseRaises, Disconnecting, Shut, TypeOK, Shared
  <2>3. \A d \in Calls : Shared(d)' => Shared(d)
    BY <2>1 DEF Shared
  <2>. QED
    BY <1>0, <2>1, <2>2, <2>3 DEF CriticalInv, UnbuiltInv, SharedInv
<1>12. ASSUME CloseBegins \/ \E k \in Calls : CloseContinues(k)
       PROVE  BuildInv'
  <2>1. /\ UNCHANGED <<holder, pc, served, pool>>
        /\ \E j \in Calls : Shared(j) /\ visited' = visited \cup {j}
    BY <1>12 DEF CloseBegins, CloseContinues, Visit, Ahead, Entries, Shared, locks
  <2>2. \A d \in Calls : conn'[d] = conn[d] \/ (conn'[d] \in {"closing", "closed"} /\ Shared(d))
    <3>1. CASE CloseBegins
      BY <3>1 DEF CloseBegins, Visit, Ahead, Entries, TypeOK, Shared
    <3>2. ASSUME NEW k \in Calls, CloseContinues(k), NEW d \in Calls
          PROVE  conn'[d] = conn[d] \/ (conn'[d] \in {"closing", "closed"} /\ Shared(d))
      <4>1. PICK j \in Calls : Visit(j, Shut(k)) /\ Shared(j)
        BY <3>2 DEF CloseContinues, Visit, Ahead, Entries, Shared
      <4>2. Shared(k)
        BY <3>2 DEF CloseContinues, Disconnecting, Shared
      <4>3. conn' = [[conn EXCEPT ![k] = "closed"] EXCEPT ![j] = "closing"]
        BY <4>1 DEF Visit, Shut
      <4>. QED
        BY <4>1, <4>2, <4>3 DEF TypeOK
    <3>. QED
      BY <1>12, <3>1, <3>2
  <2>3. \A d \in Calls : Shared(d)' => Shared(d)
    BY <2>1 DEF Shared
  <2>. QED
    BY <1>0, <2>1, <2>2, <2>3 DEF CriticalInv, UnbuiltInv, SharedInv
<1>13. CASE UNCHANGED vars
  BY <1>13 DEF vars, locks, closer, CriticalInv, UnbuiltInv, SharedInv, Shared
<1>. QED
  BY <1>1, <1>2, <1>4, <1>5, <1>6, <1>7, <1>8, <1>9, <1>10, <1>11, <1>12, <1>13
  DEF Next, LeavesLock, CloseResumes

LEMMA BuildCorrect == Safety => []BuildInv
BY TypeCorrect, BuildInit, BuildStep, PTL DEF Safety

\* At most one call builds the connector of a source, and only while the
\* source has none.
THEOREM SingleFlightCorrect == Safety => []SingleFlight
<1>1. TypeOK /\ BuildInv => SingleFlight
  BY DEF BuildInv, CriticalInv, SingleFlight
<1>. QED
  BY <1>1, TypeCorrect, BuildCorrect, PTL

-----------------------------------------------------------------------------
(***************************************************************************)
(* The source locks.                                                       *)
(***************************************************************************)
LEMMA LocksInit == Init => LocksReleased
BY DEF Init, LocksReleased

\* A Release by c after which c is out of _get_connector.
LEMMA ReleaseKeepsLocks ==
  ASSUME TypeOK, LocksReleased, NEW c \in Calls, Release(Target[c]),
         pc[c] # "waiting" \/ holder[Target[c]] = c,
         pc[c] \in Suspended => holder[Target[c]] = c,
         \A d \in Calls : d # c => pc'[d] = pc[d]
  PROVE  LocksReleased'
<1>. DEFINE s == Target[c]
<1>0. s \in Sources
  BY TargetAssumption
<1>1. /\ \A t \in Sources \ {s} : holder'[t] = holder[t] /\ waiters'[t] = waiters[t]
      /\ holder' \in [Sources -> Calls \cup {NoConn}]
      /\ waiters' \in [Sources -> Seq(Calls)]
      /\ \/ waiters[s] = <<>> /\ holder'[s] = NoConn /\ waiters'[s] = <<>>
         \/ /\ waiters[s] # <<>> /\ holder'[s] = waiters[s][1]
            /\ Len(waiters'[s]) = Len(waiters[s]) - 1
            /\ \A i \in 1..Len(waiters'[s]) : waiters'[s][i] = waiters[s][i+1]
  BY <1>0, ReleaseEffect
<1>. HIDE DEF s
\* c is nowhere in a queue, and holds no lock but that of s.
<1>2. \A t \in Sources : \A i \in 1..Len(waiters[t]) : waiters[t][i] \in Calls /\ waiters[t][i] # c
  BY <1>0 DEF TypeOK, LocksReleased, s
<1>3. \A t \in Sources \ {s} : holder[t] # c
  BY NoConnAssumption DEF LocksReleased, s
<1>4. ASSUME NEW t \in Sources \ {s} PROVE LocksReleased!(t)'
  BY <1>1, <1>2, <1>3, NoConnAssumption DEF TypeOK, LocksReleased, Suspended
<1>5. LocksReleased!(s)'
  <2>1. CASE waiters[s] = <<>>
    BY <1>0, <1>1, <2>1
  <2>2. CASE waiters[s] # <<>>
    <3>1. Len(waiters[s]) \in Nat /\ Len(waiters[s]) > 0
      BY <1>0, <2>2 DEF TypeOK
    <3>2. /\ holder'[s] = waiters[s][1] /\ 1 \in 1..Len(waiters[s])
          /\ \A i \in 1..Len(waiters'[s]) :
               waiters'[s][i] = waiters[s][i+1] /\ i+1 \in 1..Len(waiters[s]) /\ i+1 # 1
      BY <1>1, <2>2, <3>1
    <3>3. pc'[holder'[s]] = "waiting" /\ Target[holder'[s]] = s /\ holder'[s] \in Calls
      BY <1>0, <1>2, <3>2 DEF LocksReleased
    <3>4. ASSUME NEW i \in 1..Len(waiters'[s])
          PROVE  /\ pc'[waiters'[s][i]] = "waiting" /\ Target[waiters'[s][i]] = s
                 /\ waiters'[s][i] # holder'[s]
                 /\ \A j \in 1..Len(waiters'[s]) : waiters'[s][j] = waiters'[s][i] => j = i
      BY <1>0, <1>2, <3>2 DEF LocksReleased
    <3>. QED
      BY <3>3, <3>4, NoConnAssumption DEF Suspended
  <2>. QED
    BY <2>1, <2>2
<1>. QED
  BY <1>0, <1>4, <1>5 DEF LocksReleased

LEMMA LocksStep == TypeOK /\ BuildInv /\ LocksReleased /\ [Next]_vars => LocksReleased'
<1>. SUFFICES ASSUME TypeOK, BuildInv, LocksReleased, [Next]_vars PROVE LocksReleased'
  OBVIOUS
<1>0. /\ \A c \in Calls : Target[c] \in Sources
      /\ TypeOK'
  BY TargetAssumption, TypeStep
<1>1. ASSUME NEW c \in Calls,
             \/ LockedHit(c) \/ LockedMiss(c) \/ Connected(c) \/ Cleaned(c) \/ CancelCritical(c)
             \/ CancelWaiting(c) /\ holder[Target[c]] = c
      PROVE  LocksReleased'
  <2>1. Release(Target[c])
    BY <1>1 DEF LockedHit, LockedMiss, Connected, Cleaned, CancelCritical, CancelWaiting
  <2>2. pc[c] = "waiting" \/ Critical(c) => holder[Target[c]] = c
    BY <1>1 DEF LockedHit, LockedMiss, Connected, Cleaned, CancelCritical, CancelWaiting,
                Locked, Missing, Critical, BuildInv, CriticalInv
  <2>3. \A d \in Calls : d # c => pc'[d] = pc[d]
    BY <1>1 DEF LockedHit, LockedMiss, Connected, Cleaned, CancelCritical, CancelWaiting,
                Serve, TypeOK
  <2>. QED
    BY <2>1, <2>2, <2>3, ReleaseKeepsLocks DEF Suspended, Critical
<1>2. ASSUME NEW c \in Calls, CancelWaiting(c), holder[Target[c]] # c
      PROVE  LocksReleased'
  <2>. DEFINE s == Target[c]
  <2>0. s \in Sources
    BY <1>0
  <2>1. /\ UNCHANGED holder
        /\ \A t \in Sources \ {s} : waiters'[t] = waiters[t]
        /\ pc[c] = "waiting"
        /\ \A d \in Calls : d # c => pc'[d] = pc[d]
    BY <1>2, CancelEffect DEF CancelWaiting, TypeOK
  <2>2. PICK i \in 1..Len(waiters[s]) :
          /\ waiters[s][i] = c
          /\ Len(waiters'[s]) = Len(waiters[s]) - 1
          /\ \A j \in 1..Len(waiters'[s]) :
               waiters'[s][j] = IF j < i THEN waiters[s][j] ELSE waiters[s][j+1]
    BY <1>2, CancelEffect
  <2>3. Len(waiters[s]) \in Nat /\ i \in Nat
    BY <2>0 DEF TypeOK
  <2>. DEFINE old(j) == IF j < i THEN j ELSE j + 1
  <2>4. ASSUME NEW j \in 1..Len(waiters'[s])
        PROVE  /\ old(j) \in 1..Len(waiters[s]) /\ waiters'[s][j] = waiters[s][old(j)]
               /\ old(j) # i
    BY <2>2, <2>3
  <2>5. \A j, m \in 1..Len(waiters'[s]) : old(j) = old(m) => j = m
    BY <2>2, <2>3
  <2>. HIDE DEF s, old
  <2>6. holder[s] # NoConn
    BY <2>0, <2>2, <2>3 DEF LocksReleased
  <2>7. \A t \in Sources : holder[t] # c
    BY <1>2, NoConnAssumption DEF LocksReleased, s
  <2>8. \A t \in Sources \ {s} : \A j \in 1..Len(waiters[t]) : waiters[t][j] # c
    BY DEF LocksReleased, s
  <2>9. ASSUME NEW t \in Sources \ {s} PROVE LocksReleased!(t)'
    BY <2>1, <2>7, <2>8 DEF TypeOK, LocksReleased
  <2>10. ASSUME NEW j \in 1..Len(waiters'[s])
         PROVE  /\ waiters'[s][j] # c
                /\ pc'[waiters'[s][j]] = "waiting" /\ Target[waiters'[s][j]] = s
                /\ waiters'[s][j] # holder'[s]
                /\ \A m \in 1..Len(waiters'[s]) : waiters'[s][m] = waiters'[s][j] => m = j
    <3>1. /\ old(j) \in 1..Len(waiters[s]) /\ waiters'[s][j] = waiters[s][old(j)]
          /\ old(j) # i
      BY <2>4
    <3>2. waiters[s][old(j)] # c /\ waiters[s][old(j)] \in Calls
      BY <2>0, <2>2, <3>1 DEF LocksReleased, TypeOK
    <3>3. ASSUME NEW m \in 1..Len(waiters'[s]), waiters'[s][m] = waiters'[s][j]
          PROVE  m = j
      BY <2>0, <2>4, <2>5, <3>1, <3>3 DEF LocksReleased
    <3>. QED
      BY <2>0, <2>1, <3>1, <3>2, <3>3 DEF LocksReleased
  <2>11. LocksReleased!(s)'
    <3>1. holder[s] \in Calls /\ holder[s] # c
      BY <2>0, <2>6, <2>7 DEF TypeOK
    <3>2. pc'[holder[s]] \in Suspended /\ Target[holder[s]] = s
      BY <2>0, <2>1, <2>6, <3>1 DEF LocksReleased
    <3>3. holder' = holder
      BY <2>1
    <3>. QED
      BY <2>6, <2>10, <3>2, <3>3 DEF LocksReleased
  <2>. QED
    BY <2>9, <2>11 DEF LocksReleased
<1>3. ASSUME NEW c \in Calls, Wait(c) PROVE LocksReleased'
  <2>. DEFINE s == Target[c]
  <2>1. /\ s \in Sources /\ pc[c] = "start" /\ holder[s] # NoConn
        /\ UNCHANGED holder /\ pc' = [pc EXCEPT ![c] = "waiting"]
        /\ waiters' = [waiters EXCEPT ![s] = Append(waiters[s], c)]
    BY <1>0, <1>3 DEF Wait, Missing
  <2>2. /\ Len(waiters'[s]) = Len(waiters[s]) + 1 /\ Len(waiters[s]) \in Nat
        /\ \A i \in 1..Len(waiters[s]) : waiters'[s][i] = waiters[s][i]
        /\ waiters'[s][Len(waiters[s]) + 1] = c
        /\ \A t \in Sources \ {s} : waiters'[t] = waiters[t]
    BY <2>1, AppendProperties DEF TypeOK
  <2>. HIDE DEF s
  <2>3. \A t \in Sources : \A i \in 1..Len(waiters[t]) : waiters[t][i] # c /\ waiters[t][i] \in Calls
    BY <2>1 DEF LocksReleased, TypeOK
  <2>4. \A t \in Sources : holder[t] # c
    BY <2>1, NoConnAssumption DEF LocksReleased, Suspended
  <2>5. ASSUME NEW t \in Sources \ {s} PROVE LocksReleased!(t)'
    BY <2>1, <2>2, <2>3, <2>4 DEF LocksReleased, TypeOK
  <2>6. \A i \in 1..Len(waiters'[s]) :
          i \in 1..Len(waiters[s]) \/ (i = Len(waiters[s]) + 1 /\ waiters'[s][i] = c)
    BY <2>2
  <2>7. LocksReleased!(s)'
    <3>1. ASSUME NEW i \in 1..Len(waiters'[s])
          PROVE  /\ pc'[waiters'[s][i]] = "waiting" /\ Target[waiters'[s][i]] = s
                 /\ waiters'[s][i] # holder'[s]
                 /\ \A j \in 1..Len(waiters'[s]) : waiters'[s][j] = waiters'[s][i] => j = i
      BY <2>1, <2>2, <2>3, <2>4, <2>6 DEF LocksReleased, TypeOK, s
    <3>. QED
      BY <2>1, <2>4, <3>1, NoConnAssumption DEF LocksReleased, TypeOK
  <2>. QED
    BY <2>5, <2>7 DEF LocksReleased
<1>4. ASSUME NEW c \in Calls, Build(c) PROVE LocksReleased'
  <2>1. /\ holder' = [holder EXCEPT ![Target[c]] = c] /\ UNCHANGED waiters
        /\ pc' = [pc EXCEPT ![c] = "connecting"]
        /\ \/ pc[c] = "start" /\ holder[Target[c]] = NoConn
           \/ pc[c] = "waiting" /\ holder[Target[c]] = c
    BY <1>4 DEF Build, Locked, Missing
  <2>2. \A t \in Sources : \A i \in 1..Len(waiters[t]) : waiters[t][i] # c /\ waiters[t][i] \in Calls
    BY <1>0, <2>1 DEF LocksReleased, TypeOK
  <2>3. Target[c] \in Sources /\ c # NoConn
    BY <1>0, NoConnAssumption
  <2>. QED
    BY <2>1, <2>2, <2>3 DEF LocksReleased, TypeOK, Suspended
<1>5. ASSUME NEW c \in Calls, Hit(c) \/ NotFound(c) \/ ConnectFails(c) \/ Finish(c)
      PROVE  LocksReleased'
  <2>1. /\ UNCHANGED <<holder, waiters>>
        /\ \E p : pc' = [pc EXCEPT ![c] = p] /\ (pc[c] = "connecting" => p = "cleaning")
        /\ pc[c] \notin {"waiting", "cleaning"}
    BY <1>5 DEF Hit, Serve, NotFound, ConnectFails, Finish, locks
  <2>2. \A t \in Sources : \A i \in 1..Len(waiters[t]) : waiters[t][i] # c /\ waiters[t][i] \in Calls
    BY <2>1 DEF LocksReleased, TypeOK
  <2>. QED
    BY <2>1, <2>2 DEF LocksReleased, TypeOK, Suspended
<1>6. ASSUME UNCHANGED <<holder, waiters, pc>> PROVE LocksReleased'
  BY <1>6 DEF LocksReleased
<1>7. ASSUME NEW s \in Sources,
             (\E type \in {"typed", "untyped"} : AddDataSource(s, type)) \/ RemoveDataSource(s)
      PROVE  UNCHANGED <<holder, waiters, pc>>
  BY <1>7 DEF AddDataSource, RemoveDataSource, locks
<1>8. CASE CloseEmpty \/ CloseBegins \/ CloseResumes \/ UNCHANGED vars
  <2>1. UNCHANGED <<holder, waiters, pc>>
    BY <1>8 DEF CloseEmpty, CloseBegins, CloseResumes, CloseContinues, CloseReturns,
                CloseRaises, vars, locks
  <2>. QED
    BY <2>1, <1>6
<1>. QED
  BY <1>1, <1>2, <1>3, <1>4, <1>5, <1>6, <1>7, <1>8 DEF Next, LeavesLock

\* A source lock is held and queued for only by calls suspended inside
\* _get_connector, whatever way the earlier ones left it.
THEOREM LocksCorrect == Safety => []LocksReleased
BY TypeCorrect, BuildCorrect, LocksInit, LocksStep, PTL DEF Safety

-----------------------------------------------------------------------------
(***************************************************************************)
(* What is pinned and handed out.                                          *)
(***************************************************************************)
PinnedInv == \A s \in Sources :
  pool[s] # NoConn => conn[pool[s]] = "open" \/ closing \in {"running", "raised"}

LEMMA PinnedStep == TypeOK /\ BuildInv /\ PinnedInv /\ [Next]_vars => PinnedInv'
<1>. SUFFICES ASSUME TypeOK, BuildInv, PinnedInv, [Next]_vars,
                     NEW s \in Sources, pool'[s] # NoConn
              PROVE  conn'[pool'[s]] = "open" \/ closing' \in {"running", "raised"}
  BY DEF PinnedInv
<1>. USE NoConnAssumption
<1>0. /\ \A c \in Calls : Target[c] \in Sources
      /\ \A c \in Calls : Inside(c) => pool[s] # c
  BY TargetAssumption DEF BuildInv, SharedInv, Shared
<1>1. ASSUME NEW c \in Calls, Build(c) \/ ConnectFails(c) \/ Cleaned(c) \/ CancelCritical(c)
      PROVE  conn'[pool'[s]] = "open" \/ closing' \in {"running", "raised"}
  <2>1. Inside(c) /\ UNCHANGED <<pool, closing>>
    BY <1>1 DEF Build, Locked, Missing, ConnectFails, Cleaned, CancelCritical, Critical,
                Inside, Suspended, closer
  <2>2. conn'[pool[s]] = conn[pool[s]]
    BY <1>0, <1>1, <2>1 DEF Build, ConnectFails, Cleaned, CancelCritical, TypeOK
  <2>. QED
    BY <2>1, <2>2 DEF PinnedInv
<1>2. ASSUME NEW c \in Calls, Connected(c)
      PROVE  conn'[pool'[s]] = "open" \/ closing' \in {"running", "raised"}
  <2>1. /\ conn' = [conn EXCEPT ![c] = "open"] /\ pool' = [pool EXCEPT ![Target[c]] = c]
        /\ UNCHANGED closing
    BY <1>2 DEF Connected, Insert
  <2>2. CASE pool'[s] = c
    BY <2>1, <2>2 DEF TypeOK
  <2>3. CASE pool'[s] # c
    BY <1>0, <2>1, <2>3 DEF TypeOK, PinnedInv
  <2>. QED
    BY <2>2, <2>3
<1>3. ASSUME NEW c \in Calls,
             \/ Hit(c) \/ NotFound(c) \/ Wait(c) \/ LockedHit(c) \/ LockedMiss(c)
             \/ CancelWaiting(c) \/ Finish(c)
      PROVE  UNCHANGED <<pool, conn, closing>>
  BY <1>3 DEF Hit, NotFound, Wait, LockedHit, LockedMiss, CancelWaiting, Finish, closer
<1>4. ASSUME NEW t \in Sources,
             (\E type \in {"typed", "untyped"} : AddDataSource(t, type)) \/ RemoveDataSource(t)
      PROVE  conn'[pool'[s]] = "open" \/ closing' \in {"running", "raised"}
  BY <1>4 DEF AddDataSource, RemoveDataSource, PinnedInv, TypeOK, closer
<1>5. CASE CloseEmpty \/ CloseBegins \/ CloseResumes
  BY <1>5 DEF CloseEmpty, CloseBegins, CloseResumes, CloseContinues, CloseReturns, CloseRaises,
              Clear, Leave, Visit
<1>6. ASSUME UNCHANGED <<pool, conn, closing>>
      PROVE  conn'[pool'[s]] = "open" \/ closing' \in {"running", "raised"}
  BY <1>6 DEF PinnedInv
<1>7. CASE UNCHANGED vars
  BY <1>6, <1>7 DEF vars, closer
<1>. QED
  BY <1>1, <1>2, <1>3, <1>4, <1>5, <1>6, <1>7 DEF Next, LeavesLock

\* What is pinned or handed out was connected, and only a close() that is
\* under way or has raised leaves a shut connector pinned.
THEOREM NoHalfBuiltCorrect == Safety => []NoHalfBuilt
<1>1. Init => PinnedInv
  BY DEF Init, PinnedInv
<1>2. Safety => []PinnedInv
  BY <1>1, PinnedStep, TypeCorrect, BuildCorrect, PTL DEF Safety
<1>3. TypeOK /\ BuildInv /\ PinnedInv => NoHalfBuilt
  BY DEF TypeOK, BuildInv, SharedInv, Shared, PinnedInv, NoHalfBuilt, Pooled, Entries
<1>. QED
  BY <1>2, <1>3, TypeCorrect, BuildCorrect, PTL

-----------------------------------------------------------------------------
(***************************************************************************)
(* Refinement: a pool step is a step of ConnectorRegistry or a stutter.    *)
(***************************************************************************)
MakerOf == [s \in Sources |->
              IF holder[s] \in Calls /\ Critical(holder[s]) THEN holder[s] ELSE NoConn]
SpentOf == {c \in Calls : conn[c] # "unbuilt"}

LEMMA RegistryInit == Init => Registry!Init
BY NoConnAssumption DEF Init, Registry!Init, Critical

\* A step that neither enters nor leaves the critical section keeps the makers.
LEMMA MakerStutter ==
  ASSUME TypeOK, LocksReleased, TypeOK', LocksReleased', NEW c \in Calls, ~Critical(c), ~Critical(c)',
         \A d \in Calls : d # c => pc'[d] = pc[d],
         \/ UNCHANGED holder
         \/ Release(Target[c]) /\ (holder[Target[c]] \in {NoConn, c})
  PROVE  UNCHANGED MakerOf
<1>. DEFINE s == Target[c]
<1>0. s \in Sources
  BY TargetAssumption
<1>. DEFINE In(h, p) == h \in Calls /\ p[h] \in {"connecting", "cleaning"}
<1>1. \A h : In(h, pc') <=> In(h, pc)
  BY DEF Critical
<1>2. ASSUME \A t \in Sources : In(holder[t], pc) \/ In(holder'[t], pc) => holder'[t] = holder[t]
      PROVE  UNCHANGED MakerOf
  <2>1. MakerOf = [t \in Sources |-> IF In(holder[t], pc) THEN holder[t] ELSE NoConn]
    BY DEF MakerOf, Critical
  <2>2. MakerOf' = [t \in Sources |-> IF In(holder'[t], pc') THEN holder'[t] ELSE NoConn]
    BY DEF MakerOf, Critical
  <2>3. \A t \in Sources : (IF In(holder'[t], pc') THEN holder'[t] ELSE NoConn)
                             = (IF In(holder[t], pc) THEN holder[t] ELSE NoConn)
    BY <1>1, <1>2
  <2>. HIDE DEF In
  <2>. QED
    BY <2>1, <2>2, <2>3
<1>3. CASE Release(s) /\ holder[s] \in {NoConn, c}
  <2>1. \A t \in Sources \ {s} : holder'[t] = holder[t]
    BY <1>0, <1>3, ReleaseEffect
  <2>2. ~In(holder[s], pc)
    BY <1>3, NoConnAssumption DEF Critical
  <2>3. ~In(holder'[s], pc)
    <3>1. CASE waiters[s] = <<>>
      BY <1>0, <1>3, <3>1, ReleaseEffect, NoConnAssumption
    <3>2. CASE waiters[s] # <<>>
      <4>1. 1 \in 1..Len(waiters[s]) /\ holder'[s] = waiters[s][1]
        BY <1>0, <1>3, <3>2, ReleaseEffect DEF TypeOK
      <4>. QED
        BY <1>0, <4>1 DEF LocksReleased
    <3>. QED
      BY <3>1, <3>2
  <2>. HIDE DEF In
  <2>. QED
    BY <1>2, <2>1, <2>2, <2>3
<1>4. CASE UNCHANGED holder
  BY <1>2, <1>4
<1>. QED
  BY <1>3, <1>4

\* A call that leaves the critical section empties the maker of its source.
LEMMA MakerLeaves ==
  ASSUME TypeOK, BuildInv, LocksReleased, NEW c \in Calls, Critical(c), ~Critical(c)',
         \A d \in Calls : d # c => pc'[d] = pc[d], Release(Target[c])
  PROVE  /\ MakerOf[Target[c]] = c
         /\ MakerOf' = [MakerOf EXCEPT ![Target[c]] = NoConn]
<1>. DEFINE s == Target[c]
            In(h, p) == h \in Calls /\ p[h] \in {"connecting", "cleaning"}
<1>0. s \in Sources
  BY TargetAssumption
<1>1. holder[s] = c /\ In(c, pc)
  BY DEF BuildInv, CriticalInv, Critical
<1>2. \A t \in Sources \ {s} : holder'[t] = holder[t] /\ holder[t] # c
  <2>1. \A t \in Sources \ {s} : holder'[t] = holder[t]
    BY <1>0, ReleaseEffect
  <2>2. \A t \in Sources \ {s} : holder[t] # c
    BY NoConnAssumption DEF LocksReleased
  <2>. QED
    BY <2>1, <2>2
<1>3. ~In(holder'[s], pc')
  <2>1. CASE waiters[s] = <<>>
    BY <1>0, <2>1, ReleaseEffect, NoConnAssumption
  <2>2. CASE waiters[s] # <<>>
    <3>1. 1 \in 1..Len(waiters[s]) /\ holder'[s] = waiters[s][1]
      BY <1>0, <2>2, ReleaseEffect DEF TypeOK
    <3>2. pc[holder'[s]] = "waiting"
      BY <1>0, <3>1 DEF LocksReleased
    <3>. QED
      BY <3>2 DEF Critical
  <2>. QED
    BY <2>1, <2>2
<1>4. MakerOf = [t \in Sources |-> IF In(holder[t], pc) THEN holder[t] ELSE NoConn]
  BY DEF MakerOf, Critical
<1>5. MakerOf' = [t \in Sources |-> IF In(holder'[t], pc') THEN holder'[t] ELSE NoConn]
  BY DEF MakerOf, Critical
<1>6. \A t \in Sources \ {s} : In(holder'[t], pc') <=> In(holder[t], pc)
  BY <1>2
<1>. HIDE DEF In
<1>. QED
  BY <1>0, <1>1, <1>2, <1>3, <1>4, <1>5, <1>6

LEMMA RegistryStep ==
  TypeOK /\ BuildInv /\ LocksReleased /\ [Next]_vars => [Registry!Next]_(Registry!vars)
<1>. SUFFICES ASSUME TypeOK, BuildInv, LocksReleased, [Next]_vars
              PROVE  [Registry!Next]_(Registry!vars)
  OBVIOUS
<1>0. TypeOK' /\ LocksReleased' /\ \A c \in Calls : Target[c] \in Sources
  BY TypeStep, LocksStep, TargetAssumption
<1>1. ASSUME UNCHANGED <<pool, MakerOf, SpentOf>> PROVE UNCHANGED Registry!vars
  BY <1>1 DEF Registry!vars, MakerOf, SpentOf
<1>2. ASSUME NEW c \in Calls,
             \/ Hit(c) \/ NotFound(c) \/ Wait(c) \/ LockedHit(c) \/ LockedMiss(c)
             \/ CancelWaiting(c) \/ Finish(c)
      PROVE  UNCHANGED Registry!vars
  <2>1. UNCHANGED <<pool, conn>>
    BY <1>2 DEF Hit, NotFound, Wait, LockedHit, LockedMiss, CancelWaiting, Finish
  <2>2. /\ ~Critical(c) /\ ~Critical(c)'
        /\ \A d \in Calls : d # c => pc'[d] = pc[d]
    BY <1>2 DEF Hit, NotFound, Wait, LockedHit, LockedMiss, CancelWaiting, Finish, Missing,
                Locked, Serve, Critical, TypeOK
  <2>3. UNCHANGED holder \/ (Release(Target[c]) /\ holder[Target[c]] \in {NoConn, c})
    <3>1. CASE CancelWaiting(c)
      <4>1. CASE holder[Target[c]] = c
        BY <3>1, <4>1 DEF CancelWaiting
      <4>2. holder[Target[c]] # c => UNCHANGED holder
        BY <3>1, CancelEffect
      <4>. QED
        BY <4>1, <4>2
    <3>2. CASE LockedHit(c) \/ LockedMiss(c)
      BY <3>2 DEF LockedHit, LockedMiss, Locked
    <3>3. CASE Hit(c) \/ NotFound(c) \/ Wait(c) \/ Finish(c)
      <4>1. UNCHANGED holder
        BY <3>3 DEF Hit, NotFound, Wait, Finish, locks
      <4>. QED
        BY <4>1
    <3>. QED
      BY <1>2, <3>1, <3>2, <3>3
  <2>4. UNCHANGED MakerOf
    BY <1>0, <2>2, <2>3, MakerStutter
  <2>. QED
    BY <1>1, <2>1, <2>4 DEF SpentOf
<1>3. ASSUME NEW c \in Calls, Build(c) PROVE Registry!Begin(Target[c], c)
  <2>. DEFINE s == Target[c]
  <2>1. /\ pool[s] = NoConn /\ UNCHANGED pool /\ ~Critical(c)
        /\ holder[s] \in {NoConn, c} /\ conn[c] = "unbuilt"
        /\ holder' = [holder EXCEPT ![s] = c] /\ pc' = [pc EXCEPT ![c] = "connecting"]
        /\ conn' = [conn EXCEPT ![c] = "connecting"]
    BY <1>3 DEF Build, Locked, Missing, Critical, BuildInv, UnbuiltInv
  <2>2. c \notin SpentOf /\ SpentOf' = SpentOf \cup {c}
    BY <2>1 DEF SpentOf, TypeOK
  <2>3. MakerOf[s] = NoConn
    BY <1>0, <2>1, NoConnAssumption DEF MakerOf
  <2>4. \A t \in Sources \ {s} : holder'[t] = holder[t] /\ holder[t] # c
    <3>1. c # NoConn
      BY NoConnAssumption
    <3>. QED
      BY <2>1, <3>1 DEF LocksReleased, TypeOK
  <2>5. MakerOf' = [MakerOf EXCEPT ![s] = c]
    BY <1>0, <2>1, <2>4 DEF MakerOf, Critical, TypeOK
  <2>. QED
    BY <2>1, <2>2, <2>3, <2>5 DEF Registry!Begin, MakerOf, SpentOf
<1>4. ASSUME NEW c \in Calls, Connected(c) PROVE Registry!Publish(Target[c])
  <2>1. /\ Critical(c) /\ ~Critical(c)' /\ Release(Target[c])
        /\ \A d \in Calls : d # c => pc'[d] = pc[d]
        /\ pool' = [pool EXCEPT ![Target[c]] = c]
    BY <1>4 DEF Connected, Insert, Critical, TypeOK
  <2>2. MakerOf[Target[c]] = c /\ MakerOf' = [MakerOf EXCEPT ![Target[c]] = NoConn]
    BY <2>1, MakerLeaves
  <2>3. UNCHANGED SpentOf
    BY <1>4, <2>1 DEF Connected, SpentOf, BuildInv, CriticalInv, TypeOK
  <2>4. pool[Target[c]] = NoConn /\ c # NoConn
    BY <2>1, NoConnAssumption DEF BuildInv, CriticalInv
  <2>. QED
    BY <2>1, <2>2, <2>3, <2>4 DEF Registry!Publish, MakerOf, SpentOf
<1>5. ASSUME NEW c \in Calls, Cleaned(c) \/ CancelCritical(c) PROVE Registry!Abandon(Target[c])
  <2>1. /\ Critical(c) /\ ~Critical(c)' /\ Release(Target[c])
        /\ \A d \in Calls : d # c => pc'[d] = pc[d]
        /\ UNCHANGED pool
    BY <1>5 DEF Cleaned, CancelCritical, Critical, TypeOK
  <2>2. MakerOf[Target[c]] = c /\ MakerOf' = [MakerOf EXCEPT ![Target[c]] = NoConn]
    BY <2>1, MakerLeaves
  <2>3. UNCHANGED SpentOf
    <3>1. conn[c] # "unbuilt" /\ conn \in [Calls -> {"unbuilt", "connecting", "open", "closing", "closed", "lost"}]
      BY <2>1 DEF BuildInv, CriticalInv, TypeOK
    <3>2. conn' = [conn EXCEPT ![c] = "closed"] \/ conn' = [conn EXCEPT ![c] = "lost"]
      BY <1>5 DEF Cleaned, CancelCritical
    <3>3. \A d \in Calls : conn'[d] # "unbuilt" <=> conn[d] # "unbuilt"
      BY <3>1, <3>2
    <3>. QED
      BY <3>3 DEF SpentOf
  <2>. QED
    BY <2>1, <2>2, <2>3, NoConnAssumption DEF Registry!Abandon, MakerOf, SpentOf
<1>6. ASSUME NEW c \in Calls, ConnectFails(c) PROVE UNCHANGED Registry!vars
  <2>1. UNCHANGED <<pool, holder>> /\ \A d \in Calls : Critical(d)' <=> Critical(d)
    BY <1>6 DEF ConnectFails, Critical, TypeOK, locks
  <2>2. UNCHANGED MakerOf
    BY <2>1 DEF MakerOf, Critical
  <2>3. UNCHANGED SpentOf
    BY <1>6 DEF ConnectFails, SpentOf, BuildInv, CriticalInv, Critical, TypeOK
  <2>. QED
    BY <1>1, <2>1, <2>2, <2>3
<1>7. ASSUME NEW s \in Sources,
             (\E type \in {"typed", "untyped"} : AddDataSource(s, type)) \/ RemoveDataSource(s)
      PROVE  UNCHANGED Registry!vars \/ Registry!Drop({s})
  <2>1. UNCHANGED <<holder, pc, conn>>
    BY <1>7 DEF AddDataSource, RemoveDataSource, locks
  <2>2. UNCHANGED <<MakerOf, SpentOf>>
    BY <2>1 DEF MakerOf, SpentOf, Critical
  <2>3. UNCHANGED pool \/ pool' = [t \in Sources |-> IF t \in {s} THEN NoConn ELSE pool[t]]
    BY <1>7 DEF AddDataSource, RemoveDataSource, TypeOK
  <2>. QED
    BY <1>1, <2>2, <2>3 DEF Registry!Drop, MakerOf, SpentOf
<1>8. CASE CloseEmpty \/ CloseBegins \/ CloseResumes
  <2>1. UNCHANGED <<holder, pc>>
    BY <1>8 DEF CloseEmpty, CloseBegins, CloseResumes, CloseContinues, CloseReturns,
                CloseRaises, locks
  <2>2. UNCHANGED MakerOf
    BY <2>1 DEF MakerOf, Critical
  <2>3. UNCHANGED pool \/ pool' = [t \in Sources |-> IF t \in Sources THEN NoConn ELSE pool[t]]
    BY <1>8 DEF CloseEmpty, CloseBegins, CloseResumes, CloseContinues, CloseReturns,
                CloseRaises, Clear, Visit
  <2>4. ASSUME NEW k \in Calls PROVE conn'[k] # "unbuilt" <=> conn[k] # "unbuilt"
    <3>0. Shared(k) => conn[k] # "unbuilt"
      BY DEF BuildInv, SharedInv
    <3>1. CASE CloseEmpty
      BY <3>1 DEF CloseEmpty
    <3>2. CASE CloseBegins
      BY <3>0, <3>2 DEF CloseBegins, Visit, Ahead, Entries, Shared, TypeOK
    <3>3. ASSUME NEW j \in Calls, CloseReturns(j) \/ CloseRaises(j)
          PROVE  conn'[k] # "unbuilt" <=> conn[k] # "unbuilt"
      BY <3>3 DEF CloseReturns, CloseRaises, Disconnecting, Shut, TypeOK
    <3>4. ASSUME NEW j \in Calls, CloseContinues(j)
          PROVE  conn'[k] # "unbuilt" <=> conn[k] # "unbuilt"
      <4>1. PICK m \in Calls : Visit(m, Shut(j)) /\ (m = k => Shared(k))
        BY <3>4 DEF CloseContinues, Visit, Ahead, Entries, Shared
      <4>2. conn[j] = "closing" /\ conn' = [[conn EXCEPT ![j] = "closed"] EXCEPT ![m] = "closing"]
        BY <3>4, <4>1 DEF CloseContinues, Disconnecting, Visit, Shut
      <4>. QED
        BY <3>0, <4>1, <4>2 DEF TypeOK
    <3>. QED
      BY <1>8, <3>1, <3>2, <3>3, <3>4 DEF CloseResumes
  <2>5. UNCHANGED SpentOf
    BY <2>4 DEF SpentOf
  <2>6. UNCHANGED Registry!vars \/ Registry!Drop(Sources)
    BY <1>1, <2>2, <2>3, <2>5 DEF Registry!Drop, MakerOf, SpentOf
  <2>. QED
    BY <2>6 DEF Registry!Next
<1>9. CASE UNCHANGED vars
  BY <1>9 DEF vars, locks, Registry!vars, Critical
<1>. QED
  BY <1>0, <1>2, <1>3, <1>4, <1>5, <1>6, <1>7, <1>8, <1>9 DEF Next, LeavesLock, Registry!Next

\* Every behaviour of the pool is one of ConnectorRegistry.
THEOREM PoolImplementsRegistry == Safety => ImplementsRegistry
BY RegistryInit, RegistryStep, TypeCorrect, BuildCorrect, LocksCorrect, PTL
DEF Safety, ImplementsRegistry, Registry!Spec

\* A pinned connector is dropped, never replaced.
THEOREM NeverReplacedCorrect == Safety => NeverReplaced
<1>1. TypeOK /\ BuildInv /\ [Next]_vars =>
        [\A s \in Sources : pool[s] # NoConn => pool'[s] \in {pool[s], NoConn}]_vars
  <2>. SUFFICES ASSUME TypeOK, BuildInv, Next, NEW s \in Sources, pool[s] # NoConn
                PROVE  pool'[s] \in {pool[s], NoConn}
    OBVIOUS
  <2>1. ASSUME NEW c \in Calls, Connected(c) PROVE pool'[s] \in {pool[s], NoConn}
    BY <2>1 DEF Connected, Insert, BuildInv, CriticalInv, Critical, TypeOK
  <2>2. (~ \E c \in Calls : Connected(c)) => \A t \in Sources : pool'[t] \in {pool[t], NoConn}
    BY DEF Next, LeavesLock, Hit, NotFound, Wait, LockedHit, LockedMiss, Build, ConnectFails,
           Cleaned, CancelWaiting, CancelCritical, Finish, AddDataSource, RemoveDataSource,
           CloseEmpty, CloseBegins, CloseResumes, CloseContinues, CloseReturns, CloseRaises,
           Clear, Visit, TypeOK
  <2>. QED
    BY <2>1, <2>2
<1>. QED
  BY <1>1, TypeCorrect, BuildCorrect, PTL DEF Safety, NeverReplaced

-----------------------------------------------------------------------------
(***************************************************************************)
(* What close() leaves behind.                                             *)
(***************************************************************************)
\* close() has one disconnect() under way, those before it have ended.
OneAtATime == \A j \in visited :
  /\ conn[j] \in {"closing", "closed"}
  /\ \A i \in visited : conn[i] = "closing" /\ conn[j] = "closing" => i = j
VisitedInv == OneAtATime /\ (closing # "running" => visited = {})

LEMMA VisitedStep == TypeOK /\ BuildInv /\ VisitedInv /\ [Next]_vars => VisitedInv'
<1>. SUFFICES ASSUME TypeOK, BuildInv, VisitedInv, [Next]_vars PROVE VisitedInv'
  OBVIOUS
\* A call changes its own connector only, and that is not one close() is at.
<1>1. ASSUME NEW c \in Calls,
             \/ Hit(c) \/ NotFound(c) \/ Wait(c) \/ LeavesLock(c) \/ Connected(c)
             \/ ConnectFails(c) \/ Cleaned(c) \/ CancelWaiting(c) \/ CancelCritical(c) \/ Finish(c)
      PROVE  VisitedInv'
  <2>1. visited' = visited /\ closing' = closing
    BY <1>1 DEF Hit, NotFound, Wait, LeavesLock, LockedHit, LockedMiss, Build, Connected,
                ConnectFails, Cleaned, CancelWaiting, CancelCritical, Finish, closer
  <2>2. CASE conn' = conn
    BY <2>1, <2>2 DEF VisitedInv, OneAtATime
  <2>3. CASE Build(c)
    <3>1. c \notin visited
      BY <2>3 DEF Build, Locked, Missing, BuildInv, UnbuiltInv, VisitedInv, OneAtATime
    <3>. QED
      BY <2>1, <2>3, <3>1 DEF Build, VisitedInv, OneAtATime, TypeOK
  <2>4. CASE Connected(c) \/ ConnectFails(c) \/ Cleaned(c) \/ CancelCritical(c)
    <3>1. c \notin visited
      BY <2>4 DEF Connected, ConnectFails, Cleaned, CancelCritical, Critical,
                  BuildInv, SharedInv, Shared, Inside, Suspended, TypeOK
    <3>2. \A d \in visited : conn'[d] = conn[d]
      BY <2>4, <3>1 DEF Connected, ConnectFails, Cleaned, CancelCritical, TypeOK
    <3>. QED
      BY <2>1, <3>2 DEF VisitedInv, OneAtATime
  <2>. QED
    BY <1>1, <2>2, <2>3, <2>4 DEF Hit, NotFound, Wait, LeavesLock, LockedHit, LockedMiss,
                                  CancelWaiting, Finish
<1>2. ASSUME NEW s \in Sources,
             (\E type \in {"typed", "untyped"} : AddDataSource(s, type)) \/ RemoveDataSource(s)
      PROVE  VisitedInv'
  BY <1>2 DEF AddDataSource, RemoveDataSource, closer, VisitedInv, OneAtATime
<1>3. ASSUME CloseEmpty \/ \E k \in Calls : CloseReturns(k) \/ CloseRaises(k)
      PROVE  VisitedInv'
  BY <1>3 DEF CloseEmpty, CloseReturns, CloseRaises, Clear, Leave, VisitedInv, OneAtATime
<1>4. CASE CloseBegins
  <2>1. PICK k \in Calls : Visit(k, conn)
    BY <1>4 DEF CloseBegins
  <2>2. visited = {}
    BY <1>4 DEF CloseBegins, VisitedInv, OneAtATime
  <2>. QED
    BY <2>1, <2>2 DEF Visit, VisitedInv, OneAtATime, TypeOK
<1>5. ASSUME NEW k \in Calls, CloseContinues(k) PROVE VisitedInv'
  <2>1. PICK j \in Calls : Visit(j, Shut(k))
    BY <1>5 DEF CloseContinues
  <2>2. conn' = [[conn EXCEPT ![k] = "closed"] EXCEPT ![j] = "closing"]
        /\ visited' = visited \cup {j} /\ closing' = "running"
    BY <2>1 DEF Visit, Shut
  <2>3. k \in visited /\ conn[k] = "closing"
    BY <1>5 DEF CloseContinues, Disconnecting
  <2>4. \A d \in visited \ {j} : conn'[d] = "closed"
    BY <2>2, <2>3 DEF VisitedInv, OneAtATime, TypeOK
  <2>5. conn'[j] = "closing"
    BY <2>2 DEF TypeOK
  <2>. QED
    BY <2>2, <2>4, <2>5 DEF VisitedInv, OneAtATime
<1>6. CASE UNCHANGED vars
  BY <1>6 DEF vars, closer, VisitedInv, OneAtATime
<1>. QED
  BY <1>1, <1>2, <1>3, <1>4, <1>5, <1>6 DEF Next, CloseResumes

(***************************************************************************)
(* Where the entries stand: each at a place of its own, within what the    *)
(* table has used, and none behind the iterator's place but those it has   *)
(* gone through and those an insertion has put there.  Without a rebuild   *)
(* an insertion puts nothing there, for the iterator is never beyond what  *)
(* has been used.                                                          *)
(***************************************************************************)
EntriesInv ==
  \A s \in Entries :
    /\ place[s] >= 1 /\ place[s] <= used
    /\ \A t \in Entries : place[t] = place[s] => t = s
BehindInv == \A s \in Entries : place[s] <= at => pool[s] \in visited \/ s \in passed
RebuiltInv == ~rebuilt => at <= used /\ passed = {}
IdleInv == closing # "running" => at = 0 /\ ~rebuilt /\ passed = {}
PlacedInv == EntriesInv /\ BehindInv /\ RebuiltInv /\ IdleInv

\* A rebuild keeps the entries apart and in their order.
LEMMA UpToOrder ==
  ASSUME TypeOK, EntriesInv
  PROVE  \A s, t \in Entries :
           /\ Cardinality(UpTo(s)) >= 1
           /\ Cardinality(UpTo(s)) = Cardinality(UpTo(t)) => s = t
<1>. SUFFICES ASSUME NEW s \in Entries, NEW t \in Entries
              PROVE  /\ Cardinality(UpTo(s)) >= 1
                     /\ Cardinality(UpTo(s)) = Cardinality(UpTo(t)) => s = t
  OBVIOUS
<1>0. /\ s \in Sources /\ t \in Sources /\ place[s] \in Nat /\ place[t] \in Nat
      /\ \A u \in Entries : place[u] \in Nat
  BY DEF Entries, TypeOK
<1>1. /\ IsFiniteSet(UpTo(s)) /\ Cardinality(UpTo(s)) \in Nat
      /\ IsFiniteSet(UpTo(t)) /\ Cardinality(UpTo(t)) \in Nat
  BY <1>0, UpToCount
<1>2. s \in UpTo(s) /\ t \in UpTo(t)
  BY <1>0 DEF UpTo
<1>3. Cardinality(UpTo(s)) >= 1
  BY <1>1, <1>2, FS_EmptySet
<1>4. ASSUME Cardinality(UpTo(s)) = Cardinality(UpTo(t)) PROVE s = t
  <2>1. UpTo(s) \subseteq UpTo(t) \/ UpTo(t) \subseteq UpTo(s)
    BY <1>0 DEF UpTo
  <2>2. UpTo(s) = UpTo(t)
    BY <1>1, <1>4, <2>1, FS_Subset
  <2>3. place[s] <= place[t] /\ place[t] <= place[s]
    BY <1>2, <2>2 DEF UpTo
  <2>. QED
    BY <1>0, <2>3 DEF EntriesInv
<1>. QED
  BY <1>3, <1>4

LEMMA InsertPlaced ==
  ASSUME TypeOK, PlacedInv, NEW c \in Calls, Insert(c), pool[Target[c]] = NoConn,
         UNCHANGED <<closing, visited, at>>
  PROVE  PlacedInv'
<1>. DEFINE u == Target[c]
<1>0. /\ u \in Sources /\ u \notin Entries /\ c # NoConn
      /\ \A s \in Entries : s \in Sources /\ place[s] \in Nat
  BY TargetAssumption, NoConnAssumption DEF Entries, TypeOK
<1>1. Entries' = Entries \cup {u} /\ \A s \in Entries : pool'[s] = pool[s]
  BY <1>0 DEF Insert, Entries, TypeOK
<1>2. used \in Nat /\ used' \in Nat /\ place' \in [Sources -> Nat] /\ rebuilt' \in BOOLEAN /\ at \in Nat
  BY InsertType DEF TypeOK
<1>3. CASE /\ place' = [place EXCEPT ![u] = used + 1]
           /\ used' = used + 1
           /\ UNCHANGED rebuilt
  <2>1. place'[u] = used + 1 /\ \A s \in Entries : place'[s] = place[s]
    BY <1>0, <1>3 DEF TypeOK
  <2>2. EntriesInv'
    BY <1>0, <1>1, <1>2, <1>3, <2>1 DEF PlacedInv, EntriesInv
  <2>3. ASSUME ~rebuilt PROVE at <= used /\ passed' = {}
    <3>1. at <= used /\ passed = {}
      BY <2>3 DEF PlacedInv, RebuiltInv
    <3>2. \A s \in Entries : place[s] <= at => pool[s] \in visited
      BY <3>1 DEF PlacedInv, BehindInv
    <3>3. ~(place'[u] <= at)
      BY <1>2, <2>1, <3>1
    <3>. QED
      BY <1>1, <2>1, <3>1, <3>2, <3>3 DEF Insert
  <2>4. RebuiltInv'
    BY <1>2, <1>3, <2>3 DEF RebuiltInv
  <2>5. IdleInv'
    BY <1>3, <2>3 DEF PlacedInv, IdleInv
  <2>6. BehindInv'
    BY DEF Insert, BehindInv
  <2>. QED
    BY <2>2, <2>4, <2>5, <2>6 DEF PlacedInv
<1>4. CASE /\ place' = [s \in Sources |->
                IF s = u THEN Cardinality(Entries) + 1
                ELSE IF s \in Entries THEN Cardinality(UpTo(s)) ELSE 0]
           /\ used' = Cardinality(Entries) + 1
           /\ rebuilt' = (closing = "running" \/ rebuilt)
  <2>1. place'[u] = used' /\ \A s \in Entries : place'[s] = Cardinality(UpTo(s))
    BY <1>0, <1>4
  <2>2. EntriesInv
    BY DEF PlacedInv
  <2>3. \A s, t \in Entries : /\ place'[s] >= 1 /\ place'[s] < used'
                              /\ place'[s] = place'[t] => s = t
    BY <1>0, <1>4, <2>1, <2>2, EntriesCount, UpToCount, UpToOrder
  <2>4. EntriesInv'
    BY <1>0, <1>1, <1>2, <1>4, <2>1, <2>3, EntriesCount DEF EntriesInv
  <2>5. BehindInv'
    BY DEF Insert, BehindInv
  <2>6. ASSUME closing # "running" PROVE at = 0 /\ ~rebuilt' /\ passed' = {}
    <3>1. at = 0 /\ ~rebuilt
      BY <2>6 DEF PlacedInv, IdleInv
    <3>2. \A s \in Entries' : ~(place'[s] <= at)
      <4>1. place'[u] >= 1
        BY <1>4, <2>1, EntriesCount
      <4>2. \A s \in Entries' : s \in Sources
        BY <1>0, <1>1
      <4>. QED
        BY <1>1, <1>2, <2>3, <3>1, <4>1, <4>2
    <3>. QED
      BY <1>4, <2>6, <3>1, <3>2 DEF Insert
  <2>7. RebuiltInv'
    <3>1. ASSUME ~rebuilt' PROVE at' <= used' /\ passed' = {}
      <4>1. closing # "running"
        BY <1>4, <3>1
      <4>2. at = 0 /\ passed' = {} /\ at' = at
        BY <2>6, <4>1
      <4>. QED
        BY <1>2, <4>2
    <3>. QED
      BY <3>1 DEF RebuiltInv
  <2>8. IdleInv'
    BY <2>6 DEF IdleInv
  <2>. QED
    BY <2>4, <2>5, <2>7, <2>8 DEF PlacedInv
<1>. QED
  BY <1>3, <1>4 DEF Insert

LEMMA VisitPlaced ==
  ASSUME TypeOK, PlacedInv, NEW k, NEW after, Visit(k, after)
  PROVE  PlacedInv'
<1>1. PICK s \in Ahead : k = pool[s] /\ at' = place[s] /\ \A t \in Ahead : place[s] <= place[t]
  BY DEF Visit
<1>2. /\ UNCHANGED <<pool, place, used, rebuilt, passed>>
      /\ visited' = visited \cup {k} /\ closing' = "running"
  BY DEF Visit, entries
<1>3. Entries' = Entries /\ s \in Entries /\ at \in Nat /\ \A t \in Entries : place[t] \in Nat
  BY <1>1, <1>2 DEF Entries, Ahead, TypeOK
<1>4. EntriesInv'
  BY <1>2, <1>3 DEF PlacedInv, EntriesInv
<1>5. ASSUME NEW t \in Entries, place[t] <= place[s] PROVE t = s \/ place[t] <= at
  <2>1. CASE place[t] > at
    <3>1. t \in Ahead
      BY <2>1 DEF Ahead
    <3>2. place[s] = place[t]
      BY <1>1, <1>3, <1>5, <3>1
    <3>. QED
      BY <1>3, <3>2 DEF PlacedInv, EntriesInv
  <2>. QED
    BY <1>3, <2>1
<1>6. BehindInv'
  BY <1>1, <1>2, <1>3, <1>5 DEF PlacedInv, BehindInv
<1>7. RebuiltInv' /\ IdleInv'
  BY <1>1, <1>2, <1>3 DEF PlacedInv, EntriesInv, RebuiltInv, IdleInv
<1>. QED
  BY <1>4, <1>6, <1>7 DEF PlacedInv

LEMMA PlacedStep == TypeOK /\ BuildInv /\ PlacedInv /\ [Next]_vars => PlacedInv'
<1>. SUFFICES ASSUME TypeOK, BuildInv, PlacedInv, [Next]_vars PROVE PlacedInv'
  OBVIOUS
<1>1. ASSUME UNCHANGED <<pool, place, used, closing, visited, at, rebuilt, passed>>
      PROVE  PlacedInv'
  <2>1. Entries' = Entries
    BY <1>1 DEF Entries
  <2>. QED
    BY <1>1, <2>1 DEF PlacedInv, EntriesInv, BehindInv, RebuiltInv, IdleInv
<1>2. ASSUME NEW c \in Calls,
             \/ Hit(c) \/ NotFound(c) \/ Wait(c) \/ LeavesLock(c)
             \/ ConnectFails(c) \/ Cleaned(c) \/ CancelWaiting(c) \/ CancelCritical(c) \/ Finish(c)
      PROVE  PlacedInv'
  BY <1>1, <1>2 DEF Hit, NotFound, Wait, LeavesLock, LockedHit, LockedMiss, Build,
              ConnectFails, Cleaned, CancelWaiting, CancelCritical, Finish, entries, closer
<1>3. ASSUME NEW c \in Calls, Connected(c) PROVE PlacedInv'
  <2>1. pool[Target[c]] = NoConn
    BY <1>3 DEF Connected, BuildInv, CriticalInv, Critical
  <2>. QED
    BY <1>3, <2>1, InsertPlaced DEF Connected
<1>4. ASSUME NEW s \in Sources, \E type \in {"typed", "untyped"} : AddDataSource(s, type)
      PROVE  PlacedInv'
  BY <1>1, <1>4 DEF AddDataSource, entries, closer
<1>5. ASSUME NEW s \in Sources, RemoveDataSource(s) PROVE PlacedInv'
  <2>1. /\ Entries' \subseteq Entries
        /\ \A t \in Entries' : pool'[t] = pool[t] /\ place'[t] = place[t]
        /\ UNCHANGED <<used, closing, visited, at, rebuilt, passed>>
    BY <1>5 DEF RemoveDataSource, Entries, closer, TypeOK
  <2>. QED
    BY <2>1 DEF PlacedInv, EntriesInv, BehindInv, RebuiltInv, IdleInv
<1>6. ASSUME CloseEmpty \/ \E k \in Calls : CloseReturns(k) PROVE PlacedInv'
  <2>1. /\ Entries' = {} /\ used' = 0 /\ at' = 0 /\ rebuilt' = FALSE /\ passed' = {}
    BY <1>6 DEF CloseEmpty, CloseReturns, Clear, Leave, Entries
  <2>. QED
    BY <2>1 DEF PlacedInv, EntriesInv, BehindInv, RebuiltInv, IdleInv
<1>7. ASSUME NEW k \in Calls, CloseRaises(k) PROVE PlacedInv'
  <2>1. /\ UNCHANGED <<pool, place, used>>
        /\ at' = 0 /\ rebuilt' = FALSE /\ passed' = {}
    BY <1>7 DEF CloseRaises, Leave, entries
  <2>2. Entries' = Entries /\ used \in Nat /\ \A s \in Entries : place[s] \in Nat
    BY <2>1 DEF Entries, TypeOK
  <2>. QED
    BY <2>1, <2>2 DEF PlacedInv, EntriesInv, BehindInv, RebuiltInv, IdleInv
<1>8. CASE CloseBegins \/ \E k \in Calls : CloseContinues(k)
  BY <1>8, VisitPlaced DEF CloseBegins, CloseContinues
<1>9. CASE UNCHANGED vars
  BY <1>1, <1>9 DEF vars
<1>. QED
  BY <1>2, <1>3, <1>4, <1>5, <1>6, <1>7, <1>8, <1>9 DEF Next, CloseResumes

\* When close() returns, every connector then in the table is disconnected,
\* however the table changed while it went through them, but for those a rebuild
\* of the table has put behind the iterator.
THEOREM ClosesThePinnedCorrect == Safety => ClosesThePinned
<1>1. Init => VisitedInv /\ PlacedInv
  BY DEF Init, VisitedInv, OneAtATime, PlacedInv, EntriesInv, BehindInv, RebuiltInv, IdleInv, Entries
<1>2. ASSUME TypeOK, VisitedInv, PlacedInv, [Next]_vars,
             closing = "running", closing' = "returned", NEW s \in Entries
      PROVE  conn'[pool[s]] = "closed" \/ (rebuilt /\ s \in passed)
  <2>1. PICK k \in Calls : CloseReturns(k)
    <3>1. ASSUME NEW c \in Calls,
                 \/ Hit(c) \/ NotFound(c) \/ Wait(c) \/ LeavesLock(c) \/ Connected(c)
                 \/ ConnectFails(c) \/ Cleaned(c) \/ CancelWaiting(c) \/ CancelCritical(c) \/ Finish(c)
          PROVE  FALSE
      BY <1>2, <3>1 DEF Hit, NotFound, Wait, LeavesLock, LockedHit, LockedMiss, Build, Connected,
                  ConnectFails, Cleaned, CancelWaiting, CancelCritical, Finish, closer
    <3>2. ASSUME NEW t \in Sources,
                 (\E type \in {"typed", "untyped"} : AddDataSource(t, type)) \/ RemoveDataSource(t)
          PROVE  FALSE
      BY <1>2, <3>2 DEF AddDataSource, RemoveDataSource, closer
    <3>3. ~CloseEmpty /\ ~CloseBegins /\ ~UNCHANGED vars
      BY <1>2 DEF CloseEmpty, CloseBegins, vars, closer
    <3>4. \A j \in Calls : ~CloseContinues(j) /\ ~CloseRaises(j)
      BY <1>2 DEF CloseContinues, CloseRaises, Visit, Leave
    <3>. QED
      BY <1>2, <3>1, <3>2, <3>3, <3>4 DEF Next, CloseResumes
  <2>2. /\ k \in visited /\ conn[k] = "closing" /\ s \notin Ahead
        /\ conn' = [conn EXCEPT ![k] = "closed"]
    BY <2>1 DEF CloseReturns, Disconnecting, Shut
  <2>3. place[s] <= at
    BY <1>2, <2>2 DEF Ahead, Entries, TypeOK
  <2>4. CASE pool[s] \in visited
    BY <1>2, <2>2, <2>4 DEF VisitedInv, OneAtATime, TypeOK
  <2>5. CASE s \in passed
    BY <1>2, <2>5 DEF PlacedInv, RebuiltInv
  <2>. QED
    BY <1>2, <2>3, <2>4, <2>5 DEF PlacedInv, BehindInv
<1>3. TypeOK /\ VisitedInv /\ PlacedInv /\ [Next]_vars =>
        (closing = "running" /\ closing' = "returned"
           => \A s \in Entries : conn'[pool[s]] = "closed" \/ (rebuilt /\ s \in passed))
  BY <1>2
<1>. QED
  BY <1>1, <1>3, TypeCorrect, BuildCorrect, VisitedStep, PlacedStep, PTL
  DEF Safety, ClosesThePinned
=============================================================================

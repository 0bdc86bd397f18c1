-------------------------- MODULE ConnectorsProofs --------------------------
(***************************************************************************)
(* Proofs about Connectors for any documents, fields and values and for    *)
(* lists of filters of any length.                                         *)
(***************************************************************************)
EXTENDS Connectors, FiniteSetTheorems, TLAPS

-----------------------------------------------------------------------------
(* Types.                                                                  *)

LEMMA NoDocuments == DOMAIN <<>> = {}
OBVIOUS

LEMMA StoredType ==
  ASSUME TypeOK, NEW id \in Ids, NEW d \in Documents, Stored(id, d)
  PROVE  DOMAIN docs' \subseteq Ids /\ \A x \in DOMAIN docs' : docs'[x] \in Documents
BY DEF Stored, TypeOK

LEMMA RemovedType ==
  ASSUME TypeOK, NEW ids, Removed(ids)
  PROVE  DOMAIN docs' \subseteq Ids /\ \A x \in DOMAIN docs' : docs'[x] \in Documents
BY DEF Removed, TypeOK

LEMMA UpdateType ==
  ASSUME TypeOK, NEW fs, NEW t \in Fields, NEW v \in Values, SqlUpdate(fs, t, v)
  PROVE  DOMAIN docs' \subseteq Ids /\ \A x \in DOMAIN docs' : docs'[x] \in Documents
<1>. DEFINE found == Found(WhereKeeps, fs)
<1>1. docs' = [id \in DOMAIN docs |-> IF id \in found THEN [docs[id] EXCEPT ![t] = v] ELSE docs[id]]
  BY DEF SqlUpdate
<1>2. \A id \in DOMAIN docs : docs[id] \in Documents /\ [docs[id] EXCEPT ![t] = v] \in Documents
  BY DEF TypeOK, Documents
<1>. HIDE DEF found
<1>. QED
  BY <1>1, <1>2 DEF TypeOK

LEMMA TypeStep == TypeOK /\ [Next]_vars => TypeOK'
<1>. SUFFICES ASSUME TypeOK, [Next]_vars PROVE TypeOK'
  OBVIOUS
<1>1. CASE Connect \/ Disconnect
  BY <1>1, NoDocuments DEF Connect, Disconnect, TypeOK
<1>2. ASSUME NEW id \in Ids, NEW d \in Documents, Insert(id, d) PROVE TypeOK'
  <2>1. Stored(id, d) \/ UNCHANGED docs
    BY <1>2 DEF Insert, SqlInsert, VectorInsert, QdrantUpsert, ChromaAdd, PineconeUpsert, PineconeUpsertSingle
  <2>2. DOMAIN docs' \subseteq Ids /\ \A x \in DOMAIN docs' : docs'[x] \in Documents
    BY <2>1, StoredType DEF TypeOK
  <2>. QED
    BY <1>2, <2>2 DEF Insert, TypeOK
<1>3. ASSUME NEW id \in Ids, NEW d \in Documents, Elsewhere(id, d) PROVE TypeOK'
  <2>1. DOMAIN docs' \subseteq Ids /\ \A x \in DOMAIN docs' : docs'[x] \in Documents
    BY <1>3, StoredType, RemovedType DEF Elsewhere
  <2>. QED
    BY <1>3, <2>1 DEF Elsewhere, TypeOK
<1>4. ASSUME NEW fs \in FilterLists, NEW t \in Fields, NEW v \in Values, Update(fs, t, v) PROVE TypeOK'
  <2>1. DOMAIN docs' \subseteq Ids /\ \A x \in DOMAIN docs' : docs'[x] \in Documents
    BY <1>4, UpdateType DEF Update
  <2>. QED
    BY <1>4, <2>1 DEF Update, TypeOK
<1>5. ASSUME NEW fs \in FilterLists, NEW ids \in SUBSET Ids, Delete(ids, fs) PROVE TypeOK'
  <2>1. DOMAIN docs' \subseteq Ids /\ \A x \in DOMAIN docs' : docs'[x] \in Documents
    BY <1>5, RemovedType
    DEF Delete, SqlDelete, PostgresDelete, VectorDelete, QdrantDelete, ChromaDelete, PineconeDelete
  <2>. QED
    BY <1>5, <2>1 DEF Delete, TypeOK
<1>6. CASE UNCHANGED vars
  BY <1>6 DEF vars, TypeOK
<1>. QED
  BY <1>1, <1>2, <1>3, <1>4, <1>5, <1>6 DEF Next

\* The documents keep the fields and values of documents, whatever connector
\* holds them.
THEOREM TypeCorrect == Spec => []TypeOK
<1>1. Init => TypeOK
  BY NoDocuments DEF Init, TypeOK
<1>. QED
  BY <1>1, TypeStep, PTL DEF Spec

-----------------------------------------------------------------------------
(* The eight readings of a list of filters.                                *)

\* Whether the connector keeps a document.
Reading(d, fs) ==
  \/ kind \in Databases /\ WhereKeeps(d, fs)
  \/ kind = "vector" /\ VectorKeeps(d, fs)
  \/ kind = "qdrant" /\ QdrantKeeps(d, fs)
  \/ kind = "chroma" /\ ChromaKeeps(d, fs)
  \/ kind = "pinecone" /\ PineconeKeeps(d, fs)
  \/ kind = "file" /\ FileKeeps(d, fs)
  \/ kind = "rest" /\ RestKeeps(d, fs)

LEMMA Kind == TypeOK => kind \in AllKinds
BY KindsAssumption DEF TypeOK

LEMMA SharedOperators ==
  ASSUME NEW f, f.operator \in Shared
  PROVE  f.operator \in Compared /\ f.operator \notin {"ne", "nin", "like", "ilike"}
BY DEF Shared, Compared

LEMMA SharedUnderstood ==
  ASSUME NEW fs, Uses(fs, Shared)
  PROVE  Uses(fs, SqlOperators) /\ Uses(fs, PostgresOperators) /\ Uses(fs, ChromaOperators)
BY DEF Uses, Shared, SqlOperators, PostgresOperators, ChromaOperators

LEMMA StoreAgrees ==
  ASSUME NEW d, NEW f, f.operator \in Shared
  PROVE  StoreMeets(d, f) <=> Has(d, f) /\ Meets(d[f.field], f)
BY SharedOperators DEF StoreMeets

LEMMA MatchesMeans ==
  ASSUME NEW v, NEW f, f.operator \in Shared
  PROVE  Matches(v, f) <=> Meets(v, f)
BY SharedOperators DEF Matches

\* Of the shared filters no connector drops one, but for what Pinecone replaces.
LEMMA ReadingKeepsShared ==
  ASSUME TypeOK, NEW d, NEW fs, Reading(d, fs)
  PROVE  SatisfiesShared(d, fs)
<1>. SUFFICES ASSUME NEW i \in DOMAIN fs, fs[i].operator \in Shared, Kept(fs, i)
              PROVE  Has(d, fs[i]) /\ Meets(d[fs[i].field], fs[i])
  BY DEF SatisfiesShared
<1>0. fs[i].operator \in Compared /\ fs[i].operator # "ne"
  BY SharedOperators
<1>1. CASE kind \in Databases
  BY <1>1, MatchesMeans DEF Reading, WhereKeeps, Databases
<1>2. CASE kind \in {"vector", "file", "rest"}
  BY <1>2, <1>0 DEF Reading, VectorKeeps, FileKeeps, RestKeeps, Databases
<1>3. CASE kind = "qdrant"
  <2>1. fs[i] \in QdrantConditions(fs) /\ QdrantKeeps(d, fs)
    BY <1>3, <1>0 DEF Reading, QdrantConditions, Databases
  <2>. QED
    BY <2>1, <1>0 DEF QdrantKeeps
<1>4. CASE kind = "chroma"
  BY <1>4, StoreAgrees DEF Reading, ChromaKeeps, Databases
<1>5. CASE kind = "pinecone"
  <2>1. fs[i] \in PineconeConditions(fs)
    BY <1>5, <1>0 DEF PineconeConditions, Kept
  <2>2. PineconeKeeps(d, fs)
    BY <1>5 DEF Reading, Databases
  <2>. QED
    BY <2>1, <2>2, StoreAgrees DEF PineconeKeeps
<1>. QED
  BY <1>1, <1>2, <1>3, <1>4, <1>5, Kind DEF AllKinds, Databases

\* And with no others they mean the same to all.
LEMMA ReadingIsSatisfying ==
  ASSUME TypeOK, NEW d, NEW fs, Uses(fs, Shared), AllKept(fs)
  PROVE  Reading(d, fs) <=> Satisfies(d, fs)
<1>1. Reading(d, fs) => Satisfies(d, fs)
  BY ReadingKeepsShared DEF SatisfiesShared, Satisfies, Uses, AllKept
<1>2. ASSUME Satisfies(d, fs) PROVE Reading(d, fs)
  <2>1. \A i \in DOMAIN fs : /\ fs[i].operator \in Shared /\ fs[i].operator \in Compared
                             /\ fs[i].operator # "ne"
                             /\ Has(d, fs[i]) /\ Meets(d[fs[i].field], fs[i])
    BY <1>2, SharedOperators DEF Satisfies, Uses
  <2>2. WhereKeeps(d, fs)
    BY <2>1, MatchesMeans DEF WhereKeeps
  <2>3. VectorKeeps(d, fs) /\ FileKeeps(d, fs) /\ RestKeeps(d, fs)
    BY <2>1 DEF VectorKeeps, FileKeeps, RestKeeps
  <2>4. QdrantKeeps(d, fs)
    BY <2>1 DEF QdrantKeeps, QdrantConditions
  <2>5. ChromaKeeps(d, fs)
    BY <2>1, StoreAgrees DEF ChromaKeeps
  <2>6. PineconeKeeps(d, fs)
    BY <2>1, StoreAgrees DEF PineconeKeeps, PineconeConditions
  <2>. QED
    BY <2>2, <2>3, <2>4, <2>5, <2>6, Kind DEF Reading, AllKinds, Databases
<1>. QED
  BY <1>1, <1>2

-----------------------------------------------------------------------------
(* What a connector answers.                                               *)

LEMMA FoundFinite ==
  ASSUME TypeOK, NEW found \in SUBSET DOMAIN docs
  PROVE  Cardinality(found) \in Nat
<1>1. IsFiniteSet(found)
  BY FS_Subset, LimitsAssumption DEF TypeOK
<1>. QED
  BY <1>1, FS_CardinalityType

LEMMA AtMostMeans ==
  ASSUME TypeOK, NEW found \in SUBSET DOMAIN docs, NEW n \in Nat, NEW some \in AtMost(n, found)
  PROVE  some \subseteq found /\ (some = found \/ (Cardinality(some) = n /\ n < Cardinality(found)))
<1>1. some \subseteq found /\ (IF Cardinality(found) <= n THEN some = found ELSE Cardinality(some) = n)
  BY DEF AtMost
<1>2. Cardinality(found) \in Nat
  BY FoundFinite
<1>. QED
  BY <1>1, <1>2

LEMMA AnswersOf ==
  ASSUME NEW fs, NEW limit
  PROVE  /\ kind = "sql" => Answers(fs, limit) = SqlSelect(fs, limit)
         /\ kind = "postgresql" => Answers(fs, limit) = PostgresSelect(fs, limit)
         /\ kind = "vector" => Answers(fs, limit) = VectorSearch(fs, limit)
         /\ kind = "qdrant" => Answers(fs, limit) = QdrantScroll(fs, limit)
         /\ kind = "chroma" => Answers(fs, limit) = ChromaGet(fs, limit)
         /\ kind = "pinecone" => Answers(fs, limit) = PineconeSearch(fs, limit)
         /\ kind = "file" => Answers(fs, limit) = FileList(fs, limit)
         /\ kind = "rest" => Answers(fs, limit) = RestGet(fs, limit)
BY ZenonT(60) DEF Answers

LEMMA LimitInForce ==
  ASSUME NEW limit
  PROVE  /\ limit # 0 => limit \in InForce(limit)
         /\ limit = 0 /\ kind \in {"vector", "pinecone"} => SearchLimit \in InForce(limit)
         /\ limit = 0 /\ kind \in {"qdrant", "chroma"} => ListLimit \in InForce(limit)
BY ZenonT(60) DEF InForce

LEMMA Answered ==
  ASSUME TypeOK, NEW fs, NEW limit \in Limits, NEW answer \in Answers(fs, limit),
         answer # Error \/ Uses(fs, Shared)
  PROVE  LET found == {id \in DOMAIN docs : Reading(docs[id], fs)}
         IN /\ answer \subseteq found
            /\ \/ answer = found
               \/ \E n \in InForce(limit) : Cardinality(answer) = n /\ n < Cardinality(found)
<1>. DEFINE found == {id \in DOMAIN docs : Reading(docs[id], fs)}
<1>0. limit \in Nat /\ SearchLimit \in Nat /\ ListLimit \in Nat
  BY LimitsAssumption
<1>1. CASE kind \in Databases \cup {"file", "rest"}
  <2>1. found = IF kind \in Databases THEN Found(WhereKeeps, fs)
                ELSE IF kind = "file" THEN Found(FileKeeps, fs) ELSE Found(RestKeeps, fs)
    BY <1>1 DEF Reading, Found, Databases
  <2>2. answer \in Listed(limit, found)
    BY <2>1, <1>1, AnswersOf, SharedUnderstood
    DEF SqlSelect, PostgresSelect, FileList, RestGet, Unless, Databases
  <2>3. limit # 0 => limit \in InForce(limit)
    BY LimitInForce
  <2>. HIDE DEF found
  <2>4. found \subseteq DOMAIN docs
    BY DEF found
  <2>. QED
    BY <2>2, <2>3, <2>4, <1>0, AtMostMeans DEF Listed, found
<1>2. CASE kind \in {"vector", "pinecone", "qdrant", "chroma"}
  <2>. DEFINE n == Or(limit, IF kind \in {"vector", "pinecone"} THEN SearchLimit ELSE ListLimit)
  <2>1. found = IF kind = "vector" THEN Found(VectorKeeps, fs)
                ELSE IF kind = "pinecone" THEN Found(PineconeKeeps, fs)
                ELSE IF kind = "qdrant" THEN Found(QdrantKeeps, fs) ELSE Found(ChromaKeeps, fs)
    BY <1>2 DEF Reading, Found, Databases
  <2>2. answer \in AtMost(n, found)
    BY <2>1, <1>2, AnswersOf, SharedUnderstood
    DEF VectorSearch, PineconeSearch, QdrantScroll, ChromaGet, Unless
  <2>3. n \in Nat /\ n \in InForce(limit)
    BY <1>0, <1>2, LimitInForce DEF Or
  <2>. HIDE DEF found, n
  <2>4. found \subseteq DOMAIN docs
    BY DEF found
  <2>. QED
    BY <2>2, <2>3, <2>4, AtMostMeans DEF found
<1>. QED
  BY <1>1, <1>2, Kind DEF AllKinds, Databases

\* Whatever connector a query is put to, no answer has a document that fails one
\* of the filters all connectors share, and with these alone all of them answer
\* with the same documents, up to the limit (the unified query of models.py).
THEOREM SharedFiltersCorrect == Spec => []SharedFiltersHold
<1>1. TypeOK => SharedFiltersHold
  <2>. SUFFICES ASSUME TypeOK, NEW fs \in FilterLists, NEW limit \in Limits,
                       NEW answer \in Answers(fs, limit)
                PROVE  /\ answer # Error =>
                            \A id \in answer : id \in DOMAIN docs /\ SatisfiesShared(docs[id], fs)
                       /\ Uses(fs, Shared) /\ AllKept(fs) =>
                            /\ answer # Error
                            /\ \/ answer = Found(Satisfies, fs)
                               \/ \E n \in InForce(limit) :
                                    Cardinality(answer) = n /\ n < Cardinality(Found(Satisfies, fs))
    BY DEF SharedFiltersHold
  <2>1. ASSUME answer # Error, NEW id \in answer
        PROVE  id \in DOMAIN docs /\ SatisfiesShared(docs[id], fs)
    <3>1. id \in DOMAIN docs /\ Reading(docs[id], fs)
      BY <2>1, Answered
    <3>. QED
      BY <3>1, ReadingKeepsShared
  <2>2. ASSUME Uses(fs, Shared), AllKept(fs)
        PROVE  /\ answer # Error
               /\ \/ answer = Found(Satisfies, fs)
                  \/ \E n \in InForce(limit) :
                       Cardinality(answer) = n /\ n < Cardinality(Found(Satisfies, fs))
    <3>1. {id \in DOMAIN docs : Reading(docs[id], fs)} = Found(Satisfies, fs)
      BY <2>2, ReadingIsSatisfying DEF Found
    <3>2. Found(Satisfies, fs) \subseteq Ids
      BY DEF Found, TypeOK
    <3>3. answer \in SUBSET Ids /\ (\/ answer = Found(Satisfies, fs)
                                    \/ \E n \in InForce(limit) :
                                         Cardinality(answer) = n /\ n < Cardinality(Found(Satisfies, fs)))
      BY <2>2, <3>1, <3>2, Answered
    <3>. QED
      BY <3>3, ErrorAssumption
  <2>. QED
    BY <2>1, <2>2
<1>. QED
  BY <1>1, TypeCorrect, PTL

-----------------------------------------------------------------------------
(* What DELETE and UPDATE touch.                                           *)

LEMMA RemovedMeans ==
  ASSUME NEW ids, Removed(ids)
  PROVE  /\ DOMAIN docs \ DOMAIN docs' = ids \cap DOMAIN docs
         /\ \A id \in DOMAIN docs' : id \in DOMAIN docs /\ docs'[id] = docs[id]
BY DEF Removed

\* A DELETE goes by the ids, or by what the connector makes of the filters.
LEMMA DeleteRemoves ==
  ASSUME TypeOK, NEW ids, NEW fs, Delete(ids, fs)
  PROVE  IF kind = "vector" \/ (ids # {} /\ kind \notin Databases) THEN Removed(ids)
         ELSE Removed({id \in DOMAIN docs : Reading(docs[id], fs)})
<1>1. CASE kind \in Databases
  <2>1. {id \in DOMAIN docs : Reading(docs[id], fs)} = Found(WhereKeeps, fs)
    BY <1>1 DEF Reading, Found, Databases
  <2>. QED
    BY <1>1, <2>1 DEF Delete, SqlDelete, PostgresDelete, Databases
<1>2. CASE kind = "vector"
  BY <1>2 DEF Delete, VectorDelete
<1>3. CASE kind = "qdrant"
  <2>1. {id \in DOMAIN docs : Reading(docs[id], fs)} = Found(QdrantKeeps, fs)
    BY <1>3 DEF Reading, Found, Databases
  <2>. QED
    BY <1>3, <2>1 DEF Delete, QdrantDelete, Databases
<1>4. CASE kind = "chroma"
  <2>1. {id \in DOMAIN docs : Reading(docs[id], fs)} = Found(ChromaKeeps, fs)
    BY <1>4 DEF Reading, Found, Databases
  <2>. QED
    BY <1>4, <2>1 DEF Delete, ChromaDelete, Databases
<1>5. CASE kind = "pinecone"
  <2>1. {id \in DOMAIN docs : Reading(docs[id], fs)} = Found(PineconeKeeps, fs)
    BY <1>5 DEF Reading, Found, Databases
  <2>. QED
    BY <1>5, <2>1 DEF Delete, PineconeDelete, Databases
<1>. QED
  BY <1>1, <1>2, <1>3, <1>4, <1>5 DEF Delete, Databases

\* A vector store that would be left without a condition refuses a DELETE.
LEMMA DeleteRefused ==
  ASSUME NEW fs, Uses(fs, {"like", "contains", "ilike"}), kind \notin Databases \cup {"vector"}
  PROVE  ~Delete({}, fs)
<1>1. \A i \in DOMAIN fs : fs[i].operator \notin Compared \cup {"nin"}
  BY DEF Uses, Compared
<1>2. QdrantConditions(fs) = {} /\ PineconeConditions(fs) = {}
  BY <1>1 DEF QdrantConditions, PineconeConditions
<1>3. fs = <<>> \/ ~Uses(fs, ChromaOperators) \/ DOMAIN fs = {}
  BY <1>1 DEF Uses, ChromaOperators
<1>. QED
  BY <1>2, <1>3 DEF Delete, QdrantDelete, ChromaDelete, PineconeDelete, Databases

\* A DELETE touches nothing it does not take: the ids, or of the documents that
\* satisfy the shared filters those that the connector's reading keeps, all of
\* them with shared filters alone.
THEOREM DeletesCorrect == Spec => DeletesWhatIsNamed
<1>1. ASSUME TypeOK, NEW ids \in SUBSET Ids, NEW fs \in FilterLists, Delete(ids, fs)
      PROVE  LET gone == DOMAIN docs \ DOMAIN docs'
             IN /\ \A id \in DOMAIN docs' : id \in DOMAIN docs /\ docs'[id] = docs[id]
                /\ IF kind = "vector" \/ (ids # {} /\ kind \notin Databases)
                   THEN gone = ids \cap DOMAIN docs
                   ELSE /\ \A id \in gone : SatisfiesShared(docs[id], fs)
                        /\ Uses(fs, Shared) /\ AllKept(fs) => gone = Found(Satisfies, fs)
                        /\ kind \notin Databases => ~Uses(fs, {"like", "contains", "ilike"})
  <2>. DEFINE kept == {id \in DOMAIN docs : Reading(docs[id], fs)}
  <2>1. CASE kind = "vector" \/ (ids # {} /\ kind \notin Databases)
    <3>1. Removed(ids)
      BY <1>1, <2>1, DeleteRemoves
    <3>. QED
      BY <2>1, <3>1, RemovedMeans
  <2>2. CASE ~(kind = "vector" \/ (ids # {} /\ kind \notin Databases))
    <3>1. Removed(kept)
      BY <1>1, <2>2, DeleteRemoves
    <3>2. /\ DOMAIN docs \ DOMAIN docs' = kept
          /\ \A id \in DOMAIN docs' : id \in DOMAIN docs /\ docs'[id] = docs[id]
      BY <3>1, RemovedMeans
    <3>3. \A id \in kept : SatisfiesShared(docs[id], fs)
      BY <1>1, ReadingKeepsShared
    <3>4. Uses(fs, Shared) /\ AllKept(fs) => kept = Found(Satisfies, fs)
      BY <1>1, ReadingIsSatisfying DEF Found
    <3>5. kind \notin Databases => ~Uses(fs, {"like", "contains", "ilike"})
      BY <1>1, <2>2, DeleteRefused
    <3>. QED
      BY <2>2, <3>2, <3>3, <3>4, <3>5
  <2>. QED
    BY <2>1, <2>2
<1>2. TypeOK => [\A ids \in SUBSET Ids, fs \in FilterLists : Delete(ids, fs) =>
       LET gone == DOMAIN docs \ DOMAIN docs'
       IN /\ \A id \in DOMAIN docs' : id \in DOMAIN docs /\ docs'[id] = docs[id]
          /\ IF kind = "vector" \/ (ids # {} /\ kind \notin Databases)
             THEN gone = ids \cap DOMAIN docs
             ELSE /\ \A id \in gone : SatisfiesShared(docs[id], fs)
                  /\ Uses(fs, Shared) /\ AllKept(fs) => gone = Found(Satisfies, fs)
                  /\ kind \notin Databases => ~Uses(fs, {"like", "contains", "ilike"})]_vars
  BY <1>1
<1>. QED
  BY <1>2, TypeCorrect, PTL DEF DeletesWhatIsNamed

\* An UPDATE changes the named column of the rows its filters are satisfied by,
\* and no other row.
THEOREM UpdatesCorrect == Spec => UpdatesWhatIsNamed
<1>1. ASSUME NEW fs \in FilterLists, NEW t \in Fields, NEW v \in Values,
             Update(fs, t, v), Uses(fs, Shared \cup {"contains"})
      PROVE  \A id \in DOMAIN docs :
               docs'[id] = IF Satisfies(docs[id], fs) THEN [docs[id] EXCEPT ![t] = v] ELSE docs[id]
  <2>. DEFINE found == Found(WhereKeeps, fs)
  <2>1. docs' = [id \in DOMAIN docs |-> IF id \in found THEN [docs[id] EXCEPT ![t] = v] ELSE docs[id]]
    BY <1>1 DEF Update, SqlUpdate
  <2>2. \A id \in DOMAIN docs : WhereKeeps(docs[id], fs) <=> Satisfies(docs[id], fs)
    <3>1. \A i \in DOMAIN fs : fs[i].operator \notin {"like", "ilike"}
      BY <1>1 DEF Uses, Shared, Compared
    <3>. QED
      BY <3>1 DEF WhereKeeps, Satisfies, Matches
  <2>4. \A id \in DOMAIN docs : id \in found <=> Satisfies(docs[id], fs)
    BY <2>2 DEF Found
  <2>. HIDE DEF found
  <2>. QED
    BY <2>1, <2>4
<1>2. [\A fs \in FilterLists, t \in Fields, v \in Values :
       Update(fs, t, v) /\ Uses(fs, Shared \cup {"contains"}) =>
         \A id \in DOMAIN docs :
           docs'[id] = IF Satisfies(docs[id], fs) THEN [docs[id] EXCEPT ![t] = v] ELSE docs[id]]_vars
  BY <1>1
<1>. QED
  BY <1>2, PTL DEF UpdatesWhatIsNamed
=============================================================================

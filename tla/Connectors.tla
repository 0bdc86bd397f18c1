----------------------------- MODULE Connectors -----------------------------
(***************************************************************************)
(* What the connectors of agent_data/connectors make of the one Query of   *)
(* agent_data/core/models.py: the filters they honour, ignore or refuse,   *)
(* and what INSERT, UPDATE and DELETE do to the documents they hold.  A    *)
(* behaviour is that of one connector, of any kind.                        *)
(*                                                                         *)
(* The servers behind the connectors are external and do what their        *)
(* documentation says.  Text search, and the order and similarity of       *)
(* results are left out: an answer is a set of ids, and which of those     *)
(* found it has when there is a limit is left open.                        *)
(***************************************************************************)
EXTENDS Integers, Sequences, FiniteSets

CONSTANTS
  Kinds,         \* the kinds of connectors looked at
  Ids, Fields, Values,
  Error,         \* a QueryResult with an error
  Missing,       \* the value of a field that a document does not have
  NeFindsMissing,\* whether Chroma's and Pinecone's $ne match a missing field
  FilterLists,   \* the lists of filters asked with
  Limits,        \* the limits asked with, 0 for none
  SearchLimit,   \* how many a similarity search answers when asked without one
  ListLimit      \* how many a vector store lists when asked without one

AllKinds == {"sql", "postgresql", "vector", "qdrant", "chroma", "pinecone", "file", "rest"}
ReadOnly == {"file", "rest"}
Databases == {"sql", "postgresql"}
Compared == {"eq", "ne", "gt", "lt", "gte", "lte", "in"}
Operators == Compared \cup {"like", "contains", "ilike", "nin"}

ASSUME KindsAssumption == Kinds \subseteq AllKinds
ASSUME ValuesAssumption == Values \subseteq Int /\ Missing \notin Values
ASSUME MissingAssumption == NeFindsMissing \in BOOLEAN
ASSUME ErrorAssumption == \A answer \in SUBSET Ids : answer # Error
ASSUME FiltersAssumption ==
  FilterLists \subseteq Seq([field : Fields, operator : Operators, value : Values])
ASSUME LimitsAssumption ==
  IsFiniteSet(Ids) /\ Limits \subseteq Nat /\ {SearchLimit, ListLimit} \subseteq Nat \ {0}

VARIABLES
  kind,       \* the kind of the connector
  connected,  \* _connected
  docs        \* the documents it holds, by id

vars == <<kind, connected, docs>>

Documents == [Fields -> Values \cup {Missing}]
TypeOK ==
  /\ kind \in Kinds
  /\ connected \in BOOLEAN
  /\ DOMAIN docs \subseteq Ids /\ \A id \in DOMAIN docs : docs[id] \in Documents

Init == kind \in Kinds /\ connected = FALSE /\ docs = <<>>

-----------------------------------------------------------------------------
(* Filters.                                                                *)

\* What a filter means.  An "in" filter of w has the list w, w + 1; a text
\* contains another here if it equals it or is the greater one.
Meets(v, f) ==
  LET w == f.value
  IN CASE f.operator = "eq" -> v = w
       [] f.operator = "ne" -> v # w
       [] f.operator = "gt" -> v > w
       [] f.operator = "lt" -> v < w
       [] f.operator = "gte" -> v >= w
       [] f.operator = "lte" -> v <= w
       [] f.operator = "in" -> v \in {w, w + 1}
       [] f.operator = "nin" -> v \notin {w, w + 1}
       [] f.operator \in {"contains", "like", "ilike"} -> v >= w

Has(d, f) == d[f.field] # Missing
Uses(fs, operators) == \A i \in DOMAIN fs : fs[i].operator \in operators
\* A pattern without wildcards matches what equals it.
Matches(v, f) == IF f.operator \in {"like", "ilike"} THEN v = f.value ELSE Meets(v, f)

\* _build_where_clause: other operators raise; NULL satisfies no condition.
SqlOperators == Compared \cup {"like", "contains"}
PostgresOperators == Compared \cup {"like", "ilike"}
WhereKeeps(d, fs) == \A i \in DOMAIN fs : Has(d, fs[i]) /\ Matches(d[fs[i].field], fs[i])

\* Fault: a document without the field passes.
VectorKeepsMissing(d, fs) ==
  \A i \in DOMAIN fs :
    Has(d, fs[i]) /\ fs[i].operator \in Compared \cup {"like"} => Meets(d[fs[i].field], fs[i])

\* _matches_filters: any other operator lets everything that has the field pass.
VectorKeeps(d, fs) ==
  \A i \in DOMAIN fs :
    /\ Has(d, fs[i])
    /\ fs[i].operator \in Compared \cup {"like"} => Meets(d[fs[i].field], fs[i])
FileKeeps(d, fs) ==
  \A i \in DOMAIN fs :
    /\ Has(d, fs[i])
    /\ fs[i].operator \in Compared \cup {"like"} => Meets(d[fs[i].field], fs[i])

\* _apply_filters: any other operator lets nothing pass.
RestKeeps(d, fs) ==
  \A i \in DOMAIN fs :
    /\ fs[i].operator \in Compared \cup {"like"}
    /\ Has(d, fs[i]) /\ Meets(d[fs[i].field], fs[i])

\* _build_filter: other operators are dropped, and "ne" is put into must= like
\* "eq".  Without a condition left there is no filter.
QdrantConditions(fs) == {fs[i] : i \in {j \in DOMAIN fs : fs[j].operator \in Compared}}
QdrantKeeps(d, fs) ==
  \A f \in QdrantConditions(fs) :
    Has(d, f) /\ IF f.operator = "ne" THEN d[f.field] = f.value ELSE Meets(d[f.field], f)

\* How $ne, $nin and the other conditions look upon a missing field.
StoreMeets(d, f) ==
  IF Has(d, f) THEN Meets(d[f.field], f) ELSE f.operator \in {"ne", "nin"} /\ NeFindsMissing

\* _build_where_filter: $and of all conditions; other operators raise.
ChromaOperators == Compared \cup {"nin"}
ChromaKeeps(d, fs) == \A i \in DOMAIN fs : StoreMeets(d, fs[i])

\* _build_filter: a dictionary by field, so the last condition of a field stays;
\* other operators are dropped.
PineconeConditions(fs) ==
  {fs[i] : i \in {j \in DOMAIN fs :
     /\ fs[j].operator \in Compared
     /\ \A k \in DOMAIN fs : k > j /\ fs[k].operator \in Compared => fs[k].field # fs[j].field}}
PineconeKeeps(d, fs) == \A f \in PineconeConditions(fs) : StoreMeets(d, f)

-----------------------------------------------------------------------------
(* Reading: execute() of a SEARCH with a vector for the in-memory store    *)
(* and Pinecone, which list in no other way, and of a SELECT for the rest. *)
(* An operator says which answers there may be.                            *)

Unless(refused, answers) == IF refused THEN {Error} ELSE answers
Found(Keeps(_, _), fs) == {id \in DOMAIN docs : Keeps(docs[id], fs)}
AtMost(limit, found) ==
  {some \in SUBSET found :
     IF Cardinality(found) <= limit THEN some = found ELSE Cardinality(some) = limit}

\* The vector and the file connector do not look whether they are connected.
Usable == connected \/ kind \in {"vector", "file"}

\* What is answered without a limit, or with limit 0 ...
Listed(limit, found) == IF limit = 0 THEN {found} ELSE AtMost(limit, found)
SqlSelect(fs, limit) == Unless(~Uses(fs, SqlOperators), Listed(limit, Found(WhereKeeps, fs)))
PostgresSelect(fs, limit) == Unless(~Uses(fs, PostgresOperators), Listed(limit, Found(WhereKeeps, fs)))
FileList(fs, limit) == Listed(limit, Found(FileKeeps, fs))
RestGet(fs, limit) == Listed(limit, Found(RestKeeps, fs))

\* ... depends: the vector stores have limits of their own.
Or(limit, default) == IF limit = 0 THEN default ELSE limit
VectorSearch(fs, limit) == AtMost(Or(limit, SearchLimit), Found(VectorKeeps, fs))
PineconeSearch(fs, limit) == AtMost(Or(limit, SearchLimit), Found(PineconeKeeps, fs))
QdrantScroll(fs, limit) == AtMost(Or(limit, ListLimit), Found(QdrantKeeps, fs))
ChromaGet(fs, limit) ==
  Unless(~Uses(fs, ChromaOperators), AtMost(Or(limit, ListLimit), Found(ChromaKeeps, fs)))

Answers(fs, limit) ==
  CASE kind = "sql" -> SqlSelect(fs, limit)       [] kind = "postgresql" -> PostgresSelect(fs, limit)
    [] kind = "vector" -> VectorSearch(fs, limit) [] kind = "qdrant" -> QdrantScroll(fs, limit)
    [] kind = "chroma" -> ChromaGet(fs, limit)    [] kind = "pinecone" -> PineconeSearch(fs, limit)
    [] kind = "file" -> FileList(fs, limit)       [] kind = "rest" -> RestGet(fs, limit)

-----------------------------------------------------------------------------
(* Writing.                                                                *)

Connect == ~connected /\ connected' = TRUE /\ UNCHANGED <<kind, docs>>

\* Only the in-memory store loses its documents.
Disconnect ==
  /\ connected' = FALSE
  /\ docs' = IF kind = "vector" THEN <<>> ELSE docs
  /\ UNCHANGED kind

Stored(id, d) == docs' = [x \in DOMAIN docs \cup {id} |-> IF x = id THEN d ELSE docs[x]]

\* INSERT of one document in the form for several.  A primary key that is taken
\* is an error, an id that is taken is replaced, and left alone by Chroma's add().
SqlInsert(id, d) == id \notin DOMAIN docs /\ Stored(id, d)
VectorInsert(id, d) == Stored(id, d)
QdrantUpsert(id, d) == Stored(id, d)
ChromaAdd(id, d) == IF id \in DOMAIN docs THEN UNCHANGED docs ELSE Stored(id, d)
PineconeUpsert(id, d) == Stored(id, d)

\* The single form of Pinecone stores nothing: it builds "values", and the
\* formatting looks for "vector".
PineconeUpsertSingle(id, d) == UNCHANGED docs

Insert(id, d) ==
  /\ Usable
  /\ \/ kind \in Databases /\ SqlInsert(id, d)
     \/ kind = "vector" /\ VectorInsert(id, d)
     \/ kind = "qdrant" /\ QdrantUpsert(id, d)
     \/ kind = "chroma" /\ ChromaAdd(id, d)
     \/ kind = "pinecone" /\ (PineconeUpsert(id, d) \/ PineconeUpsertSingle(id, d))
  /\ UNCHANGED <<kind, connected>>

Removed(ids) == docs' = [x \in DOMAIN docs \ ids |-> docs[x]]

\* The WHERE clause of an UPDATE or a DELETE is that of a SELECT.
WhereRaises(fs) == ~Uses(fs, IF kind = "sql" THEN SqlOperators ELSE PostgresOperators)

\* UPDATE sets one column of the rows found; the vector stores refuse it.
SqlUpdate(fs, t, v) ==
  LET found == Found(WhereKeeps, fs)
  IN docs' = [id \in DOMAIN docs |-> IF id \in found THEN [docs[id] EXCEPT ![t] = v] ELSE docs[id]]

Update(fs, t, v) ==
  /\ Usable /\ kind \in Databases /\ ~WhereRaises(fs)
  /\ SqlUpdate(fs, t, v)
  /\ UNCHANGED <<kind, connected>>

\* DELETE with metadata["ids"] and filters.  No limit holds for it.  The
\* databases look at the filters only: without one, every row goes.
SqlDelete(fs) == ~WhereRaises(fs) /\ Removed(Found(WhereKeeps, fs))
PostgresDelete(fs) == ~WhereRaises(fs) /\ Removed(Found(WhereKeeps, fs))

\* The vector store looks at the ids only.
VectorDelete(ids) == Removed(ids)

\* Fault: the filters alone decide, and without one everything goes.
QdrantDeleteAny(ids, fs) == Removed(Found(QdrantKeeps, fs))

\* The others look at the filters if there are no ids, and want one or the other.
QdrantDelete(ids, fs) ==
  IF ids # {} THEN Removed(ids)
  ELSE QdrantConditions(fs) # {} /\ Removed(Found(QdrantKeeps, fs))
ChromaDelete(ids, fs) ==
  /\ Uses(fs, ChromaOperators)
  /\ IF ids # {} THEN Removed(ids) ELSE fs # <<>> /\ Removed(Found(ChromaKeeps, fs))
PineconeDelete(ids, fs) ==
  IF ids # {} THEN Removed(ids)
  ELSE PineconeConditions(fs) # {} /\ Removed(Found(PineconeKeeps, fs))

Delete(ids, fs) ==
  /\ Usable
  /\ \/ kind = "sql" /\ SqlDelete(fs)
     \/ kind = "postgresql" /\ PostgresDelete(fs)
     \/ kind = "vector" /\ VectorDelete(ids)
     \/ kind = "qdrant" /\ QdrantDelete(ids, fs)
     \/ kind = "chroma" /\ ChromaDelete(ids, fs)
     \/ kind = "pinecone" /\ PineconeDelete(ids, fs)
  /\ UNCHANGED <<kind, connected>>

\* The files and the data of the remote service change by themselves.
Elsewhere(id, d) ==
  /\ kind \in ReadOnly
  /\ Stored(id, d) \/ Removed({id})
  /\ UNCHANGED <<kind, connected>>

Next ==
  \/ Connect \/ Disconnect
  \/ \E id \in Ids, d \in Documents : Insert(id, d) \/ Elsewhere(id, d)
  \/ \E fs \in FilterLists :
       \/ \E t \in Fields, v \in Values : Update(fs, t, v)
       \/ \E ids \in SUBSET Ids : Delete(ids, fs)

Spec == Init /\ [][Next]_vars

-----------------------------------------------------------------------------
(* Properties.                                                             *)

\* The operators every connector reads the same way.  Of the rest that models.py
\* (line 71) lists, "ne" is turned round by Qdrant, and "like" and "contains" are
\* dropped, refused or let everything or nothing pass, as the connector has it.
Shared == Compared \ {"ne"}
Satisfies(d, fs) == \A i \in DOMAIN fs : Has(d, fs[i]) /\ Meets(d[fs[i].field], fs[i])

\* Pinecone keeps one condition of a field, the last one: of a range, one bound.
Kept(fs, i) ==
  kind = "pinecone" =>
    \A j \in DOMAIN fs : j > i /\ fs[j].operator \in Compared => fs[j].field # fs[i].field
AllKept(fs) == \A i \in DOMAIN fs : Kept(fs, i)
SatisfiesShared(d, fs) ==
  \A i \in DOMAIN fs :
    fs[i].operator \in Shared /\ Kept(fs, i) => Has(d, fs[i]) /\ Meets(d[fs[i].field], fs[i])

\* How many documents an answer may have at most, where there is a limit.
InForce(limit) ==
  IF limit # 0 THEN {limit}
  ELSE CASE kind \in {"vector", "pinecone"} -> {SearchLimit}
         [] kind \in {"qdrant", "chroma"} -> {ListLimit}
         [] OTHER -> {}

\* Whatever connector a query is put to, and whatever it makes of the other
\* filters, no answer has a document that fails one of the shared ones, but for the
\* bounds that Pinecone replaces.  A query with shared ones alone is answered with
\* documents that satisfy it: all there are, or as many as the limit asked for, or
\* the connector's own limit, lets through (vector.py 98, pinecone.py 83, qdrant.py
\* 206, chroma.py 200).
SharedFiltersHold ==
  \A fs \in FilterLists, limit \in Limits :
    Usable => \A answer \in Answers(fs, limit) :
      /\ answer # Error => \A id \in answer : id \in DOMAIN docs /\ SatisfiesShared(docs[id], fs)
      /\ Uses(fs, Shared) /\ AllKept(fs) =>
           /\ answer # Error
           /\ \/ answer = Found(Satisfies, fs)
              \/ \E n \in InForce(limit) : Cardinality(answer) = n /\ n < Cardinality(Found(Satisfies, fs))

\* A DELETE touches nothing that it does not take.  By ids, in a store that looks
\* at ids, it takes these.  By filters, it takes nothing that fails a shared one,
\* whatever the connector drops or turns round of the others, and with shared ones
\* alone all that satisfies them; and a vector store that would be left without a
\* condition refuses it (qdrant.py 169-195, chroma.py 173-188, pinecone.py 157-175).
DeletesWhatIsNamed ==
  [][\A ids \in SUBSET Ids, fs \in FilterLists : Delete(ids, fs) =>
       LET gone == DOMAIN docs \ DOMAIN docs'
       IN /\ \A id \in DOMAIN docs' : id \in DOMAIN docs /\ docs'[id] = docs[id]
          /\ IF kind = "vector" \/ (ids # {} /\ kind \notin Databases)
             THEN gone = ids \cap DOMAIN docs
             ELSE /\ \A id \in gone : SatisfiesShared(docs[id], fs)
                  /\ Uses(fs, Shared) /\ AllKept(fs) => gone = Found(Satisfies, fs)
                  /\ kind \notin Databases => ~Uses(fs, {"like", "contains", "ilike"})]_vars

\* An UPDATE changes the named column of the rows its filters are satisfied by.
UpdatesWhatIsNamed ==
  [][\A fs \in FilterLists, t \in Fields, v \in Values :
       Update(fs, t, v) /\ Uses(fs, Shared \cup {"contains"}) =>
         \A id \in DOMAIN docs :
           docs'[id] = IF Satisfies(docs[id], fs) THEN [docs[id] EXCEPT ![t] = v] ELSE docs[id]]_vars
=============================================================================

---------------------------- MODULE QueryHistory ----------------------------
(***************************************************************************)
(* The saved queries of one session (agent_data/nl2sql/history.py), a JSON *)
(* file that server processes load, change and write in place, behind the  *)
(* routes of agent_data/web/routes.py.  A process handles one request at a *)
(* time, for the handlers never await; another process, or a crash, comes  *)
(* in while the file is open for writing.                                  *)
(***************************************************************************)
EXTENDS Naturals, SequencesExt

CONSTANTS
  Workers,     \* the processes that share the storage directory
  MaxItems,    \* max_items
  MaxAdded     \* bound on the items ever saved

ASSUME HistoryAssumption == MaxItems \in Nat \ {0} /\ MaxAdded \in Nat

VARIABLES
  file,      \* what the file holds, the item saved last in front
  stage,     \* where each process stands
  copy,      \* the items each process is about to write; the new one alone
             \* ... until it has loaded those before it
  added,     \* the items made so far number their ids
  promised,  \* history: what the finished operations amount to, one by one
  apart      \* history: no two operations overlapped and none was cut
             \* ... short since the history was empty

vars == <<file, stage, copy, added, promised, apart>>

\* by is a history: the process that saved the item.
Items == [id : 1..MaxAdded, by : Workers, favorite : BOOLEAN]

Histories == {h \in Seq(Items) : Len(h) <= MaxItems}

Holding(h) == [kind |-> "history", items |-> h]

\* A file that does not exist; one cut off where JSON cannot be parsed; one
\* cut off within a character, which the reader's decoder refuses.
Absent == [kind |-> "absent", items |-> <<>>]
Cut == [kind |-> "cut", items |-> <<>>]
Garbled == [kind |-> "garbled", items |-> <<>>]
Torn == {Cut, Garbled}

Stages == {"idle", "made", "loaded", "writing", "contended", "orphaned"}

TypeOK ==
  /\ file.kind \in {"absent", "cut", "garbled", "history"} /\ file.items \in Histories
  /\ stage \in [Workers -> Stages]
  /\ copy \in [Workers -> Histories]
  /\ added \in 0..MaxAdded
  /\ promised \in Histories
  /\ apart \in BOOLEAN

Init ==
  /\ file = Absent
  /\ stage = [w \in Workers |-> "idle"]
  /\ copy = [w \in Workers |-> <<>>]
  /\ added = 0
  /\ promised = <<>>
  /\ apart = TRUE

-----------------------------------------------------------------------------
(* What the operations make of a history.                                  *)

\* Fault: the new item goes to the end.
InsertLast(h, item) ==
  LET all == Append(h, item) IN SubSeq(all, 1, IF Len(all) > MaxItems THEN MaxItems ELSE Len(all))

\* add_item: in front, and the oldest beyond max_items go.
Insert(h, item) ==
  LET all == <<item>> \o h IN SubSeq(all, 1, IF Len(all) > MaxItems THEN MaxItems ELSE Len(all))

Has(h, id) == \E i \in DOMAIN h : h[i].id = id

\* toggle_favorite, and update_item with its favorite field
Toggle(h, id) == [i \in DOMAIN h |-> IF h[i].id = id THEN [h[i] EXCEPT !.favorite = ~@] ELSE h[i]]
Update(h, id, value) == [i \in DOMAIN h |-> IF h[i].id = id THEN [h[i] EXCEPT !.favorite = value] ELSE h[i]]

\* delete_item: no two items have the same id.
Delete(h, id) == IF Has(h, id) THEN RemoveAt(h, CHOOSE i \in DOMAIN h : h[i].id = id) ELSE h

\* _load_history: a file that is not there or not JSON is an empty history.
Readable == file # Garbled
Load == file.items

-----------------------------------------------------------------------------
(* Requests of the web API.                                                *)

\* A process whose operation, if any, has not touched the file.
Untouched(w) == stage[w] \in {"idle", "made"}

\* An operation loads the history and makes its copy; it is applied to what was
\* promised at once if no other one is under way.
Loads(w, next, promise) ==
  /\ Readable
  /\ stage' = [stage EXCEPT ![w] = "loaded"]
  /\ copy' = [copy EXCEPT ![w] = next]
  /\ apart' = (apart /\ \A v \in Workers : Untouched(v))
  /\ promised' = promise
  /\ UNCHANGED <<file, added>>

\* POST /history/save: the item gets its time stamp and its id ...
MakeItem(w) ==
  /\ stage[w] = "idle" /\ added < MaxAdded
  /\ added' = added + 1
  /\ stage' = [stage EXCEPT ![w] = "made"]
  /\ copy' = [copy EXCEPT ![w] = <<[id |-> added + 1, by |-> w, favorite |-> FALSE]>>]
  /\ UNCHANGED <<file, promised, apart>>

\* Fault: the item is saved without those before it.
SaveQueryAlone(w) ==
  /\ stage[w] = "made"
  /\ Loads(w, copy[w], Insert(promised, copy[w][1]))

\* ... before the items are loaded that it goes in front of, so that another
\* process may have saved a newer one meanwhile ...
SaveQuery(w) ==
  /\ stage[w] = "made"
  /\ Loads(w, Insert(Load, copy[w][1]), Insert(promised, copy[w][1]))

\* ... or cannot be loaded, and the request fails.
SaveFails(w) ==
  /\ stage[w] = "made" /\ ~Readable
  /\ stage' = [stage EXCEPT ![w] = "idle"]
  /\ copy' = [copy EXCEPT ![w] = <<>>]
  /\ UNCHANGED <<file, added, promised, apart>>

\* PUT /history/favorite/{item_id}: an item that is not there is a 404.
ToggleFavorite(w, id) ==
  /\ stage[w] = "idle" /\ Has(Load, id)
  /\ Loads(w, Toggle(Load, id), Toggle(promised, id))

UpdateItem(w, id, value) ==
  /\ stage[w] = "idle" /\ Has(Load, id)
  /\ Loads(w, Update(Load, id, value), Update(promised, id, value))

\* DELETE /history/item/{item_id}
DeleteItem(w, id) ==
  /\ stage[w] = "idle" /\ Has(Load, id)
  /\ Loads(w, Delete(Load, id), Delete(promised, id))

Writing == {w \in Workers : stage[w] \in {"writing", "contended"}}

\* _save_history: opening the file for writing empties it ...
Opens(w) ==
  /\ stage[w] = "loaded"
  /\ stage' = [v \in Workers |-> IF v \in Writing \/ (v = w /\ Writing # {}) THEN "contended"
                                 ELSE IF v = w THEN "writing" ELSE stage[v]]
  /\ file' = Cut
  /\ UNCHANGED <<copy, added, promised, apart>>

\* ... and the JSON goes in piece by piece.  Two processes that have the file
\* open may write into each other's text.
Writes(w) ==
  /\ stage[w] \in {"writing", "contended", "orphaned"}
  /\ stage' = [stage EXCEPT ![w] = "idle"]
  /\ copy' = [copy EXCEPT ![w] = <<>>]
  /\ file' \in CASE stage[w] = "writing" -> {Holding(copy[w])}
                 [] stage[w] = "contended" -> {Holding(copy[w])} \cup Torn
                 [] OTHER -> {file}
  /\ UNCHANGED <<added, promised, apart>>

\* The process ends in the middle of a request: what was flushed stays.
Crash(w) ==
  /\ stage[w] # "idle"
  /\ stage' = [stage EXCEPT ![w] = "idle"]
  /\ copy' = [copy EXCEPT ![w] = <<>>]
  /\ file' \in {file} \cup (IF w \in Writing THEN Torn ELSE {})
  /\ apart' = FALSE
  /\ UNCHANGED <<added, promised>>

\* clear_history unlinks the file, also from under those who write it.
ClearHistory(w) ==
  /\ stage[w] = "idle"
  /\ file' = Absent
  /\ stage' = [v \in Workers |-> IF v \in Writing THEN "orphaned" ELSE stage[v]]
  /\ promised' = <<>>
  /\ apart' = \A v \in Workers : Untouched(v)
  /\ UNCHANGED <<copy, added>>

Next ==
  \E w \in Workers :
    \/ MakeItem(w) \/ SaveQuery(w) \/ SaveFails(w) \/ Opens(w) \/ Writes(w) \/ Crash(w) \/ ClearHistory(w)
    \/ \E id \in 1..MaxAdded :
         \/ ToggleFavorite(w, id) \/ DeleteItem(w, id)
         \/ \E value \in BOOLEAN : UpdateItem(w, id, value)

Spec == Init /\ [][Next]_vars

-----------------------------------------------------------------------------
(* Reading.                                                                *)

\* The items of h at some of its places, in their order, and those of the file
\* that a listing shows.
At(h, places) ==
  LET n == Cardinality(places)
      place == CHOOSE f \in [1..n -> places] : \A i, j \in 1..n : i < j => f[i] < f[j]
  IN [i \in 1..n |-> h[place[i]]]
Shown(favorite_only) == At(Load, {i \in DOMAIN Load : favorite_only => Load[i].favorite})

\* Fault: the last index is taken for inclusive.
PageInclusive(limit, offset, favorite_only) ==
  LET h == Shown(favorite_only)
      end == IF offset + limit + 1 > Len(h) THEN Len(h) ELSE offset + limit + 1
  IN SubSeq(h, offset + 1, end)

\* get_history: Python's history[offset : offset + limit]
Page(limit, offset, favorite_only) ==
  LET h == Shown(favorite_only)
      end == IF offset + limit > Len(h) THEN Len(h) ELSE offset + limit
  IN SubSeq(h, offset + 1, end)

\* GET /history/list: its total is that of the page.
ListRoute(limit, offset, favorite_only) ==
  [items |-> Page(limit, offset, favorite_only), total |-> Len(Page(limit, offset, favorite_only))]

GetItem(id) == {Load[i] : i \in {j \in DOMAIN Load : Load[j].id = id}}

\* search: the first limit items that match, here those with the given ids.
Search(ids, limit) ==
  LET found == At(Load, {i \in DOMAIN Load : Load[i].id \in ids})
  IN SubSeq(found, 1, IF Len(found) > limit THEN limit ELSE Len(found))

\* get_stats
Stats == [total_queries |-> Len(Load),
          favorite_count |-> Cardinality({i \in DOMAIN Load : Load[i].favorite})]

-----------------------------------------------------------------------------
(* Properties.                                                             *)

\* Without overlapping operations and crashes the file holds, whenever nobody
\* writes, exactly what the operations so far amount to (history.py 67-101).
StoredAsPromised ==
  apart /\ (\A w \in Workers : Untouched(w)) => Load = promised

\* Whatever overlaps or crashes, a history that can be read shows each item
\* once, and those that one process saved the newest first: updates are lost,
\* never doubled.  Items of two processes may stand in the order in which they
\* were put in front, not in that of their time stamps (routes.py 354, history.py
\* 86-92).
NewestFirst ==
  \A h \in {Load} \cup {copy[w] : w \in Workers} :
    \A i, j \in DOMAIN h : i < j =>
      h[i].id # h[j].id /\ (h[i].by = h[j].by => h[i].id > h[j].id)

\* The pages of a listing are its consecutive parts, favourites included; what
\* the statistics count is what the listing shows, every listed item can be
\* fetched, and a search shows the items it finds as a listing does, the first
\* ones of them (history.py 124-144, 236-246, 269-280).
ReadsAgree ==
  \A fav \in BOOLEAN, n \in 1..MaxItems :
    LET all == Page(MaxItems, 0, fav)
    IN /\ all = Page(n, 0, fav) \o Page(MaxItems, n, fav)
       /\ Len(all) = (IF fav THEN Stats.favorite_count ELSE Stats.total_queries)
       /\ \A i \in DOMAIN all : GetItem(all[i].id) = {all[i]}
       /\ Search({all[i].id : i \in DOMAIN all}, n) = Page(n, 0, fav)
=============================================================================

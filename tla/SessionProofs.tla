---------------------------- MODULE SessionProofs ----------------------------
(***************************************************************************)
(* Proofs about what the server keeps of a session, for any number of      *)
(* processes and sessions and any limits: QueryHistory, its saved queries, *)
(* and ConversationMemory, its conversation with the LLM.                  *)
(***************************************************************************)
EXTENDS QueryHistory, ConversationMemory, FiniteSetTheorems, SequenceTheorems, TLAPS

-----------------------------------------------------------------------------
(* Histories: short enough, each item once, those of one process newest    *)
(* first, and of items made so far.                                        *)

Before(x, y) == x.id # y.id /\ (x.by = y.by => x.id > y.id)
Ordered(h) == \A i, j \in DOMAIN h : i < j => Before(h[i], h[j])
UpTo(h, n) == \A i \in DOMAIN h : h[i].id <= n

\* An item that may go in front of h, and a history of items of h alone.
Fresh(h, item) == \A i \in DOMAIN h : Before(item, h[i])
Within(g, h) == \A i \in DOMAIN g : \E j \in DOMAIN h : g[i].id = h[j].id /\ g[i].by = h[j].by

LEMMA NoHistory ==
  <<>> \in Histories /\ Ordered(<<>>) /\ (\A n : UpTo(<<>>, n)) /\ \A x : Fresh(<<>>, x)
<1>1. <<>> \in Seq(Items) /\ Len(<<>>) = 0 /\ DOMAIN <<>> = {}
  OBVIOUS
<1>. QED
  BY <1>1, HistoryAssumption DEF Histories, Ordered, UpTo, Fresh

LEMMA WithinKeeps ==
  ASSUME NEW g, NEW h, Within(g, h)
  PROVE  (\A n : UpTo(h, n) => UpTo(g, n)) /\ \A x : Fresh(h, x) => Fresh(g, x)
BY DEF Within, UpTo, Fresh, Before

LEMMA InsertKeeps ==
  ASSUME NEW h \in Histories, NEW item \in Items
  PROVE  /\ Insert(h, item) \in Histories
         /\ Ordered(h) /\ Fresh(h, item) => Ordered(Insert(h, item))
         /\ \A n : UpTo(h, n) /\ item.id <= n => UpTo(Insert(h, item), n)
         /\ \A x : Fresh(h, x) /\ Before(x, item) => Fresh(Insert(h, item), x)
<1>. DEFINE all == <<item>> \o h
            n == IF Len(all) > MaxItems THEN MaxItems ELSE Len(all)
            kept == SubSeq(all, 1, n)
<1>1. h \in Seq(Items) /\ Len(h) \in Nat /\ DOMAIN h = 1..Len(h)
  BY DEF Histories
<1>2. all \in Seq(Items) /\ Len(all) = Len(h) + 1
      /\ \A i \in 1..Len(all) : all[i] = IF i = 1 THEN item ELSE h[i - 1]
  BY <1>1
<1>3. n \in 1..Len(all) /\ n <= MaxItems
  BY <1>1, <1>2, HistoryAssumption
<1>. HIDE DEF n
<1>4. kept \in Seq(Items) /\ Len(kept) = n /\ DOMAIN kept = 1..n
      /\ \A i \in 1..n : kept[i] = IF i = 1 THEN item ELSE h[i - 1]
  <2>. HIDE DEF all
  <2>. QED
    BY <1>2, <1>3
<1>. HIDE DEF kept, all
<1>5. kept \in Histories
  BY <1>3, <1>4 DEF Histories
<1>6. (\A i \in 2..n : i - 1 \in DOMAIN h /\ kept[i] = h[i - 1]) /\ kept[1] = item
  BY <1>1, <1>2, <1>3, <1>4
<1>7. ASSUME Ordered(h), Fresh(h, item) PROVE Ordered(kept)
  <2>. SUFFICES ASSUME NEW i \in 1..n, NEW j \in 1..n, i < j PROVE Before(kept[i], kept[j])
    BY <1>4 DEF Ordered
  <2>1. j \in 2..n
    BY <1>3
  <2>2. CASE i = 1
    BY <1>6, <1>7, <2>1, <2>2 DEF Fresh
  <2>3. CASE i # 1
    <3>1. i \in 2..n /\ i - 1 < j - 1
      BY <1>3, <2>3
    <3>. QED
      BY <1>6, <1>7, <2>1, <3>1 DEF Ordered
  <2>. QED
    BY <2>2, <2>3
<1>8. ASSUME NEW m, UpTo(h, m), item.id <= m PROVE UpTo(kept, m)
  <2>. SUFFICES ASSUME NEW i \in 1..n PROVE kept[i].id <= m
    BY <1>4 DEF UpTo
  <2>1. CASE i = 1
    BY <1>6, <1>8, <2>1
  <2>2. CASE i # 1
    <3>1. i \in 2..n
      BY <1>3, <2>2
    <3>. QED
      BY <1>6, <1>8, <3>1 DEF UpTo
  <2>. QED
    BY <2>1, <2>2
<1>9. ASSUME NEW x, Fresh(h, x), Before(x, item) PROVE Fresh(kept, x)
  <2>. SUFFICES ASSUME NEW i \in 1..n PROVE Before(x, kept[i])
    BY <1>4 DEF Fresh
  <2>1. CASE i = 1
    BY <1>6, <1>9, <2>1
  <2>2. CASE i # 1
    <3>1. i \in 2..n
      BY <1>3, <2>2
    <3>. QED
      BY <1>6, <1>9, <3>1 DEF Fresh
  <2>. QED
    BY <2>1, <2>2
<1>10. Insert(h, item) = kept
  BY DEF Insert, kept, n, all
<1>. QED
  BY <1>5, <1>7, <1>8, <1>9, <1>10

\* Changing the favourite marks changes neither the items nor their order.
LEMMA SameIdsKeep ==
  ASSUME NEW h \in Histories, NEW g, DOMAIN g = DOMAIN h,
         \A i \in DOMAIN h : g[i] \in Items /\ g[i].id = h[i].id /\ g[i].by = h[i].by,
         g = [i \in DOMAIN h |-> g[i]]
  PROVE  g \in Histories /\ (Ordered(h) => Ordered(g)) /\ Within(g, h)
<1>1. h \in Seq(Items) /\ Len(h) \in Nat /\ DOMAIN h = 1..Len(h) /\ Len(h) <= MaxItems
  BY DEF Histories
<1>2. g \in [1..Len(h) -> Items]
  BY <1>1
<1>3. g \in Seq(Items) /\ Len(g) = Len(h)
  BY <1>1, <1>2
<1>. QED
  BY <1>1, <1>3 DEF Histories, Ordered, Before, Within

LEMMA MarksKeep ==
  ASSUME NEW h \in Histories, NEW id, NEW value \in BOOLEAN
  PROVE  /\ Toggle(h, id) \in Histories /\ Update(h, id, value) \in Histories
         /\ Ordered(h) => Ordered(Toggle(h, id)) /\ Ordered(Update(h, id, value))
         /\ Within(Toggle(h, id), h) /\ Within(Update(h, id, value), h)
<1>1. \A i \in DOMAIN h : h[i] \in Items
  BY DEF Histories
<1>2. \A item \in Items : /\ [item EXCEPT !.favorite = ~@] \in Items /\ [item EXCEPT !.favorite = ~@].id = item.id
                          /\ [item EXCEPT !.favorite = ~@].by = item.by
                          /\ [item EXCEPT !.favorite = value] \in Items
                          /\ [item EXCEPT !.favorite = value].id = item.id
                          /\ [item EXCEPT !.favorite = value].by = item.by
  BY DEF Items
<1>3. /\ Toggle(h, id) \in Histories /\ (Ordered(h) => Ordered(Toggle(h, id)))
      /\ Within(Toggle(h, id), h)
  <2>1. /\ DOMAIN Toggle(h, id) = DOMAIN h
        /\ \A i \in DOMAIN h : Toggle(h, id)[i] \in Items /\ Toggle(h, id)[i].id = h[i].id /\ Toggle(h, id)[i].by = h[i].by
        /\ Toggle(h, id) = [i \in DOMAIN h |-> Toggle(h, id)[i]]
    BY <1>1, <1>2 DEF Toggle
  <2>. QED
    BY <2>1, SameIdsKeep
<1>4. /\ Update(h, id, value) \in Histories /\ (Ordered(h) => Ordered(Update(h, id, value)))
      /\ Within(Update(h, id, value), h)
  <2>1. /\ DOMAIN Update(h, id, value) = DOMAIN h
        /\ \A i \in DOMAIN h : Update(h, id, value)[i] \in Items /\ Update(h, id, value)[i].id = h[i].id /\ Update(h, id, value)[i].by = h[i].by
        /\ Update(h, id, value) = [i \in DOMAIN h |-> Update(h, id, value)[i]]
    BY <1>1, <1>2 DEF Update
  <2>. QED
    BY <2>1, SameIdsKeep
<1>. QED
  BY <1>3, <1>4

LEMMA DeleteKeeps ==
  ASSUME NEW h \in Histories, NEW id
  PROVE  /\ Delete(h, id) \in Histories
         /\ Ordered(h) => Ordered(Delete(h, id))
         /\ Within(Delete(h, id), h)
<1>1. CASE ~Has(h, id)
  BY <1>1 DEF Delete, Within
<1>2. CASE Has(h, id)
  <2>. DEFINE at == CHOOSE i \in DOMAIN h : h[i].id = id
  <2>1. h \in Seq(Items) /\ Len(h) \in Nat /\ DOMAIN h = 1..Len(h) /\ Len(h) <= MaxItems
    BY DEF Histories
  <2>2. at \in 1..Len(h)
    BY <1>2, <2>1 DEF Has
  <2>3. Delete(h, id) = SubSeq(h, 1, at - 1) \o SubSeq(h, at + 1, Len(h))
    BY <1>2 DEF Delete, RemoveAt
  <2>. HIDE DEF at
  <2>. DEFINE front == SubSeq(h, 1, at - 1)
              back == SubSeq(h, at + 1, Len(h))
              rest == front \o back
  <2>4. front \in Seq(Items) /\ Len(front) = at - 1 /\ \A i \in 1..(at - 1) : front[i] = h[i]
    BY <2>1, <2>2
  <2>5. back \in Seq(Items) /\ Len(back) = Len(h) - at /\ \A i \in 1..(Len(h) - at) : back[i] = h[at + i]
    <3>1. \A i \in (at + 1)..Len(h) : h[i] \in Items
      BY <2>1, <2>2
    <3>2. /\ back \in Seq(Items)
          /\ Len(back) = IF at + 1 <= Len(h) THEN Len(h) - (at + 1) + 1 ELSE 0
          /\ \A i \in 1..(Len(h) - (at + 1) + 1) : back[i] = h[at + 1 + i - 1]
      BY <2>1, <2>2, <3>1, SubSeqProperties
    <3>3. Len(back) = Len(h) - at
      <4>1. CASE at = Len(h)
        BY <2>1, <2>2, <3>2, <4>1
      <4>2. CASE at # Len(h)
        <5>1. \A n \in Nat : \A m \in 1..n : m # n => m + 1 <= n /\ n - (m + 1) + 1 = n - m
          OBVIOUS
        <5>. QED
          BY <2>1, <2>2, <3>2, <4>2, <5>1
      <4>. QED
        BY <4>1, <4>2
    <3>4. ASSUME NEW i \in 1..(Len(h) - at) PROVE back[i] = h[at + i]
      <4>1. i \in 1..(Len(h) - (at + 1) + 1) /\ at + 1 + i - 1 = at + i
        BY <2>1, <2>2
      <4>. QED
        BY <3>2, <4>1
    <3>. QED
      BY <3>2, <3>3, <3>4
  <2>. HIDE DEF front, back
  <2>6. /\ rest \in Seq(Items) /\ Len(rest) = Len(h) - 1 /\ DOMAIN rest = 1..(Len(h) - 1)
        /\ \A i \in 1..(Len(h) - 1) : rest[i] = IF i < at THEN h[i] ELSE h[i + 1]
    <3>1. rest \in Seq(Items) /\ Len(rest) = Len(h) - 1
          /\ \A i \in 1..Len(rest) : rest[i] = IF i <= Len(front) THEN front[i] ELSE back[i - Len(front)]
      <4>1. /\ rest \in Seq(Items) /\ Len(rest) = Len(front) + Len(back)
            /\ \A i \in 1..(Len(front) + Len(back)) :
                 rest[i] = IF i <= Len(front) THEN front[i] ELSE back[i - Len(front)]
        BY <2>4, <2>5, ConcatProperties
      <4>2. Len(front) + Len(back) = Len(h) - 1
        BY <2>1, <2>2, <2>4, <2>5
      <4>. QED
        BY <4>1, <4>2
    <3>2. DOMAIN rest = 1..(Len(h) - 1)
      BY <3>1
    <3>. HIDE DEF rest
    <3>3. ASSUME NEW i \in 1..(Len(h) - 1) PROVE rest[i] = IF i < at THEN h[i] ELSE h[i + 1]
      <4>1. CASE i < at
        BY <2>1, <2>2, <2>4, <3>1, <4>1
      <4>2. CASE i >= at
        <5>1. i - Len(front) \in 1..(Len(h) - at) /\ at + (i - Len(front)) = i + 1
          BY <2>1, <2>2, <2>4, <4>2
        <5>. QED
          BY <2>1, <2>2, <2>4, <2>5, <3>1, <4>2, <5>1
      <4>. QED
        BY <2>1, <2>2, <4>1, <4>2
    <3>. QED
      BY <3>1, <3>2, <3>3
  <2>. HIDE DEF rest
  <2>7. rest \in Histories
    BY <2>1, <2>2, <2>6, HistoryAssumption DEF Histories
  <2>8. ASSUME Ordered(h) PROVE Ordered(rest)
    <3>. SUFFICES ASSUME NEW i \in 1..(Len(h) - 1), NEW j \in 1..(Len(h) - 1), i < j
                  PROVE  Before(rest[i], rest[j])
      BY <2>6 DEF Ordered
    <3>1. \A k, l \in 1..Len(h) : k < l => Before(h[k], h[l])
      BY <2>1, <2>8 DEF Ordered
    <3>. DEFINE k == IF i < at THEN i ELSE i + 1
                l == IF j < at THEN j ELSE j + 1
    <3>2. k \in 1..Len(h) /\ l \in 1..Len(h) /\ k < l
      BY <2>1, <2>2
    <3>3. rest[i] = h[k] /\ rest[j] = h[l]
      BY <2>6
    <3>. QED
      BY <3>1, <3>2, <3>3
  <2>9. Within(rest, h)
    <3>. SUFFICES ASSUME NEW i \in 1..(Len(h) - 1) PROVE \E j \in 1..Len(h) : rest[i] = h[j]
      BY <2>1, <2>6 DEF Within
    <3>1. (IF i < at THEN i ELSE i + 1) \in 1..Len(h)
      BY <2>1, <2>2
    <3>. QED
      BY <2>6, <3>1
  <2>. QED
    BY <2>3, <2>7, <2>8, <2>9 DEF rest, front, back
<1>. QED
  BY <1>1, <1>2

-----------------------------------------------------------------------------
(* The inductive invariant.                                                *)

\* The file and the copies under way are in order and know no item that was not
\* made; and an item that is still to be put in front is in none of them, nor is
\* a newer one of its process.
Sorted(h) == Ordered(h) /\ UpTo(h, added)
New(w) == copy[w][1]
Pending(w) ==
  /\ copy[w] \in Seq(Items) /\ Len(copy[w]) = 1 /\ New(w).by = w
  /\ Fresh(file.items, New(w))
  /\ \A v \in Workers \ {w} : Fresh(copy[v], New(w))
HistoryInv ==
  /\ TypeOK
  /\ Sorted(file.items)
  /\ \A w \in Workers : Sorted(copy[w])
  /\ \A w \in Workers : stage[w] = "made" => Pending(w)

\* A step that leaves the items under way alone, but for those of w, which it
\* makes of items that are there, and changes at most what the file holds.
LEMMA CopyKeeps ==
  ASSUME HistoryInv, NEW w \in Workers, NEW next \in Histories,
         Sorted(next), \A v \in Workers \ {w} : stage[v] = "made" => Fresh(next, New(v)),
         copy' = [copy EXCEPT ![w] = next],
         \A v \in Workers : stage'[v] = "made" => v # w /\ stage[v] = "made",
         file'.items \in {file.items, copy[w], <<>>},
         file'.items = copy[w] => stage[w] # "made",
         added' = added, TypeOK'
  PROVE  HistoryInv'
<1>1. file.items \in Histories /\ \A v \in Workers : copy[v] \in Histories
  BY DEF HistoryInv, TypeOK
<1>2. Sorted(file.items)'
  BY NoHistory DEF HistoryInv, Sorted, UpTo, Ordered
<1>3. \A v \in Workers : Sorted(copy[v])'
  BY DEF HistoryInv, TypeOK, Sorted, UpTo, Ordered
<1>4. ASSUME NEW v \in Workers, stage'[v] = "made" PROVE Pending(v)'
  <2>1. v # w /\ stage[v] = "made" /\ Pending(v) /\ copy'[v] = copy[v] /\ New(v)' = New(v)
    BY <1>4 DEF HistoryInv, TypeOK, New
  <2>2. Fresh(file'.items, New(v))
    BY <2>1, NoHistory DEF Pending
  <2>3. ASSUME NEW u \in Workers \ {v} PROVE Fresh(copy'[u], New(v))
    <3>1. CASE u = w
      BY <2>1, <3>1 DEF HistoryInv, TypeOK
    <3>2. CASE u # w
      BY <2>1, <3>2 DEF HistoryInv, TypeOK, Pending
    <3>. QED
      BY <3>1, <3>2
  <2>. QED
    BY <2>1, <2>2, <2>3 DEF Pending, Fresh
<1>. QED
  BY <1>2, <1>3, <1>4 DEF HistoryInv

\* One operation that loads: its copy is as good as the file was.
LEMMA LoadsKeep ==
  ASSUME HistoryInv, NEW w \in Workers, NEW next \in Histories, NEW promise \in Histories,
         Loads(w, next, promise), Sorted(next),
         \A v \in Workers \ {w} : stage[v] = "made" => Fresh(next, New(v))
  PROVE  HistoryInv'
<1>1. TypeOK'
  BY DEF Loads, HistoryInv, TypeOK, Stages
<1>2. \A v \in Workers : stage'[v] = "made" => v # w /\ stage[v] = "made"
  BY DEF Loads, HistoryInv, TypeOK
<1>3. file'.items \in {file.items, <<>>} /\ added' = added /\ copy' = [copy EXCEPT ![w] = next]
  BY DEF Loads
<1>4. file'.items = copy[w] => stage[w] # "made"
  <2>. SUFFICES ASSUME file.items = copy[w], stage[w] = "made" PROVE FALSE
    BY DEF Loads
  <2>1. Len(copy[w]) = 1 /\ copy[w] \in Seq(Items) /\ Fresh(copy[w], copy[w][1])
    BY DEF HistoryInv, Pending, New
  <2>2. 1 \in DOMAIN copy[w]
    BY <2>1
  <2>. QED
    BY <2>1, <2>2 DEF Fresh, Before
<1>. QED
  BY <1>1, <1>2, <1>3, <1>4, CopyKeeps

\* So does one whose copy has only items of the file.
LEMMA ChangesKeep ==
  ASSUME HistoryInv, NEW w \in Workers, NEW next \in Histories, NEW promise \in Histories,
         Loads(w, next, promise), Ordered(next), Within(next, file.items)
  PROVE  HistoryInv'
<1>1. UpTo(next, added)
  BY WithinKeeps DEF HistoryInv, Sorted
<1>2. \A v \in Workers \ {w} : stage[v] = "made" => Fresh(next, New(v))
  BY WithinKeeps DEF HistoryInv, Pending
<1>. QED
  BY <1>1, <1>2, LoadsKeep DEF Sorted

LEMMA MakeKeeps == ASSUME HistoryInv, NEW w \in Workers, MakeItem(w) PROVE HistoryInv'
<1>. DEFINE item == [id |-> added + 1, by |-> w, favorite |-> FALSE]
<1>1. /\ added \in Nat /\ added' = added + 1 /\ added' \in 0..MaxAdded
      /\ item \in Items /\ item.id = added + 1 /\ item.by = w
  BY HistoryAssumption DEF HistoryInv, TypeOK, MakeItem, Items
<1>2. copy' = [copy EXCEPT ![w] = <<item>>] /\ file' = file
  BY DEF MakeItem
<1>. HIDE DEF item
<1>3. <<item>> \in Seq(Items) /\ Len(<<item>>) = 1 /\ DOMAIN <<item>> = {1} /\ <<item>>[1] = item
  BY <1>1
<1>4. <<item>> \in Histories
  BY <1>3, HistoryAssumption DEF Histories
<1>5. TypeOK'
  BY <1>1, <1>2, <1>4 DEF MakeItem, HistoryInv, TypeOK, Stages
<1>6. ASSUME NEW h \in Histories, Sorted(h) PROVE Ordered(h) /\ UpTo(h, added') /\ Fresh(h, item)
  <2>1. \A i \in DOMAIN h : h[i].id \in Int /\ h[i].id <= added
    <3>1. \A i \in DOMAIN h : h[i] \in Items
      BY DEF Histories
    <3>2. \A x \in Items : x.id \in Int
      BY HistoryAssumption DEF Items
    <3>. QED
      BY <1>6, <3>1, <3>2 DEF Sorted, UpTo
  <2>2. Ordered(h)
    BY <1>6 DEF Sorted
  <2>3. UpTo(h, added')
    BY <1>1, <2>1 DEF UpTo
  <2>4. \A i \in DOMAIN h : item.id # h[i].id /\ item.id > h[i].id
    BY <1>1, <2>1
  <2>. QED
    BY <2>2, <2>3, <2>4 DEF Fresh, Before
<1>7. Ordered(<<item>>) /\ UpTo(<<item>>, added')
  BY <1>1, <1>3 DEF Ordered, UpTo
<1>8. \A v \in Workers : Sorted(copy[v])'
  <2>. SUFFICES ASSUME NEW v \in Workers PROVE Sorted(copy[v])'
    OBVIOUS
  <2>1. CASE v = w
    <3>1. copy'[v] = <<item>>
      BY <1>2, <2>1 DEF HistoryInv, TypeOK
    <3>. QED
      BY <1>7, <3>1 DEF Sorted, Ordered, UpTo
  <2>2. CASE v # w
    <3>1. copy'[v] = copy[v] /\ copy[v] \in Histories /\ Sorted(copy[v])
      BY <1>2, <2>2 DEF HistoryInv, TypeOK
    <3>. QED
      BY <1>6, <3>1 DEF Sorted, Ordered, UpTo
  <2>. QED
    BY <2>1, <2>2
<1>9. Sorted(file.items)'
  BY <1>2, <1>6 DEF HistoryInv, TypeOK, Sorted, Ordered, UpTo
<1>10. ASSUME NEW v \in Workers, stage'[v] = "made" PROVE Pending(v)'
  <2>1. CASE v = w
    <3>1. copy'[v] = <<item>> /\ New(v)' = item
      BY <1>2, <1>3, <2>1 DEF HistoryInv, TypeOK, New
    <3>2. Fresh(file'.items, item)
      BY <1>2, <1>6 DEF HistoryInv, TypeOK
    <3>3. \A u \in Workers \ {v} : Fresh(copy'[u], item)
      BY <1>2, <1>6, <2>1 DEF HistoryInv, TypeOK
    <3>. QED
      BY <1>1, <1>3, <2>1, <3>1, <3>2, <3>3 DEF Pending, Fresh
  <2>2. CASE v # w
    <3>1. stage[v] = "made" /\ Pending(v) /\ copy'[v] = copy[v] /\ New(v)' = New(v)
      BY <1>2, <1>10, <2>2 DEF MakeItem, HistoryInv, TypeOK, New
    <3>2. New(v) \in Items /\ New(v).id <= added /\ New(v).by = v
      <4>1. copy[v] \in Seq(Items) /\ Len(copy[v]) = 1 /\ UpTo(copy[v], added) /\ New(v).by = v
        BY <3>1 DEF Pending, HistoryInv, Sorted
      <4>2. 1 \in DOMAIN copy[v]
        BY <4>1
      <4>. QED
        BY <4>1, <4>2 DEF New, UpTo
    <3>3. Fresh(<<item>>, New(v))
      BY <1>1, <1>3, <2>2, <3>2, HistoryAssumption DEF Fresh, Before, Items
    <3>4. Fresh(file'.items, New(v))
      BY <1>2, <3>1 DEF Pending
    <3>5. ASSUME NEW u \in Workers \ {v} PROVE Fresh(copy'[u], New(v))
      <4>1. CASE u = w
        BY <1>2, <3>3, <4>1 DEF HistoryInv, TypeOK
      <4>2. CASE u # w
        BY <1>2, <3>1, <4>2 DEF HistoryInv, TypeOK, Pending
      <4>. QED
        BY <4>1, <4>2
    <3>. QED
      BY <3>1, <3>4, <3>5 DEF Pending, Fresh
  <2>. QED
    BY <2>1, <2>2
<1>. QED
  BY <1>5, <1>8, <1>9, <1>10 DEF HistoryInv

LEMMA SaveKeeps == ASSUME HistoryInv, NEW w \in Workers, SaveQuery(w) PROVE HistoryInv'
<1>. DEFINE item == New(w)
<1>1. Pending(w)
  BY DEF SaveQuery, HistoryInv
<1>2. item \in Items /\ item.id <= added /\ item.by = w /\ 1 \in DOMAIN copy[w]
  <2>1. copy[w] \in Seq(Items) /\ Len(copy[w]) = 1 /\ UpTo(copy[w], added)
    BY <1>1 DEF Pending, HistoryInv, Sorted
  <2>2. 1 \in DOMAIN copy[w]
    BY <2>1
  <2>. QED
    BY <1>1, <2>1, <2>2 DEF New, UpTo, Pending
<1>3. Loads(w, Insert(file.items, item), Insert(promised, item))
  BY DEF SaveQuery, Load, New
<1>4. file.items \in Histories /\ promised \in Histories /\ Ordered(file.items) /\ UpTo(file.items, added)
  BY DEF HistoryInv, TypeOK, Sorted
<1>5. /\ Insert(file.items, item) \in Histories /\ Insert(promised, item) \in Histories
      /\ Sorted(Insert(file.items, item))
  BY <1>1, <1>2, <1>4, InsertKeeps DEF Pending, Sorted
<1>6. ASSUME NEW v \in Workers \ {w}, stage[v] = "made"
      PROVE  Fresh(Insert(file.items, item), New(v))
  <2>1. Fresh(file.items, New(v)) /\ Fresh(copy[w], New(v))
    BY <1>6 DEF HistoryInv, Pending
  <2>2. Before(New(v), item)
    BY <1>2, <2>1 DEF Fresh, New
  <2>. QED
    BY <1>2, <1>4, <2>1, <2>2, InsertKeeps
<1>. HIDE DEF item
<1>. QED
  BY <1>3, <1>4, <1>5, <1>6, LoadsKeep

LEMMA HistoryStep == HistoryInv /\ [Next]_vars => HistoryInv'
<1>. SUFFICES ASSUME HistoryInv, [Next]_vars PROVE HistoryInv'
  OBVIOUS
<1>1. /\ file.items \in Histories /\ promised \in Histories /\ Ordered(file.items)
      /\ \A v \in Workers : copy[v] \in Histories
  BY DEF HistoryInv, TypeOK, Sorted
<1>2. ASSUME NEW w \in Workers, NEW id \in 1..MaxAdded,
             \/ ToggleFavorite(w, id) \/ DeleteItem(w, id) \/ \E value \in BOOLEAN : UpdateItem(w, id, value)
      PROVE  HistoryInv'
  <2>1. CASE ToggleFavorite(w, id)
    <3>1. Loads(w, Toggle(file.items, id), Toggle(promised, id))
      BY <2>1 DEF ToggleFavorite, Load
    <3>2. TRUE \in BOOLEAN
      OBVIOUS
    <3>3. /\ Toggle(file.items, id) \in Histories /\ Toggle(promised, id) \in Histories
          /\ Ordered(Toggle(file.items, id)) /\ Within(Toggle(file.items, id), file.items)
      BY <1>1, <3>2, MarksKeep
    <3>. QED
      BY <3>1, <3>3, ChangesKeep
  <2>2. CASE DeleteItem(w, id)
    BY <1>1, <2>2, DeleteKeeps, ChangesKeep DEF DeleteItem, Load
  <2>3. ASSUME NEW value \in BOOLEAN, UpdateItem(w, id, value) PROVE HistoryInv'
    BY <1>1, <2>3, MarksKeep, ChangesKeep DEF UpdateItem, Load
  <2>. QED
    BY <1>2, <2>1, <2>2, <2>3
<1>3. ASSUME NEW w \in Workers, Opens(w) PROVE HistoryInv'
  <2>1. file'.items = <<>> /\ file'.kind = "cut" /\ UNCHANGED <<copy, added, promised, apart>>
    BY <1>3 DEF Opens, Cut
  <2>2. stage[w] = "loaded" /\ stage' \in [Workers -> Stages]
    BY <1>3 DEF Opens, HistoryInv, TypeOK, Stages
  <2>3. \A v \in Workers : stage'[v] = "made" => v # w /\ stage[v] = "made"
    BY <1>3 DEF Opens
  <2>4. TypeOK'
    BY <2>1, <2>2, NoHistory DEF HistoryInv, TypeOK
  <2>5. copy' = [copy EXCEPT ![w] = copy[w]]
    BY <2>1 DEF HistoryInv, TypeOK
  <2>6. Sorted(copy[w]) /\ \A v \in Workers \ {w} : stage[v] = "made" => Fresh(copy[w], New(v))
    BY DEF HistoryInv, Pending
  <2>. QED
    BY <1>1, <2>1, <2>2, <2>3, <2>4, <2>5, <2>6, CopyKeeps
\* A process that is done, or ends.
<1>4. ASSUME NEW w \in Workers, SaveFails(w) \/ Writes(w) \/ Crash(w) PROVE HistoryInv'
  <2>1. /\ stage' = [stage EXCEPT ![w] = "idle"] /\ copy' = [copy EXCEPT ![w] = <<>>]
        /\ added' = added /\ promised' = promised /\ apart' \in BOOLEAN
    BY <1>4 DEF SaveFails, Writes, Crash, HistoryInv, TypeOK
  <2>2. /\ file' \in {file, Holding(copy[w])} \cup Torn
        /\ stage[w] = "made" => file' = file
    BY <1>4 DEF SaveFails, Writes, Crash, Writing, HistoryInv, TypeOK
  <2>3. /\ file'.kind \in {"absent", "cut", "garbled", "history"}
        /\ file'.items \in {file.items, copy[w], <<>>}
    BY <2>2 DEF Holding, Torn, Cut, Garbled, HistoryInv, TypeOK
  <2>4. file'.items = copy[w] => stage[w] # "made"
    <3>. SUFFICES ASSUME file.items = copy[w], stage[w] = "made" PROVE FALSE
      BY <2>2
    <3>1. Len(copy[w]) = 1 /\ copy[w] \in Seq(Items) /\ Fresh(copy[w], copy[w][1])
      BY DEF HistoryInv, Pending, New
    <3>2. 1 \in DOMAIN copy[w]
      BY <3>1
    <3>. QED
      BY <3>1, <3>2 DEF Fresh, Before
  <2>5. TypeOK'
    BY <1>1, <2>1, <2>3, NoHistory DEF HistoryInv, TypeOK, Stages
  <2>6. \A v \in Workers : stage'[v] = "made" => v # w /\ stage[v] = "made"
    BY <2>1 DEF HistoryInv, TypeOK
  <2>7. <<>> \in Histories /\ Sorted(<<>>) /\ \A v \in Workers : Fresh(<<>>, New(v))
    BY NoHistory DEF Sorted
  <2>. QED
    BY <2>1, <2>3, <2>4, <2>5, <2>6, <2>7, CopyKeeps
<1>5. ASSUME NEW w \in Workers, ClearHistory(w) PROVE HistoryInv'
  <2>1. file'.items = <<>> /\ file'.kind = "absent" /\ UNCHANGED <<copy, added>> /\ stage[w] = "idle"
        /\ promised' = <<>> /\ apart' \in BOOLEAN
    BY <1>5 DEF ClearHistory, Absent
  <2>2. stage' \in [Workers -> Stages] /\ \A v \in Workers : stage'[v] = "made" => v # w /\ stage[v] = "made"
    BY <1>5 DEF ClearHistory, Writing, HistoryInv, TypeOK, Stages
  <2>3. TypeOK'
    BY <2>1, <2>2, NoHistory DEF HistoryInv, TypeOK
  <2>4. copy' = [copy EXCEPT ![w] = copy[w]]
    BY <2>1 DEF HistoryInv, TypeOK
  <2>5. Sorted(copy[w]) /\ \A v \in Workers \ {w} : stage[v] = "made" => Fresh(copy[w], New(v))
    BY DEF HistoryInv, Pending
  <2>. QED
    BY <1>1, <2>1, <2>2, <2>3, <2>4, <2>5, CopyKeeps
<1>6. CASE UNCHANGED vars
  BY <1>6 DEF vars, HistoryInv, TypeOK, Sorted, Ordered, UpTo, Pending, New, Fresh
<1>. QED
  BY <1>2, <1>3, <1>4, <1>5, <1>6, MakeKeeps, SaveKeeps DEF Next

LEMMA HistoryInit == Init => HistoryInv
BY NoHistory, HistoryAssumption DEF Init, HistoryInv, TypeOK, Stages, Sorted, Absent

\* The file, the copies and what was promised stay histories of at most
\* max_items items.
THEOREM TypeCorrect == Spec => []TypeOK
<1>1. HistoryInv => TypeOK
  BY DEF HistoryInv
<1>. QED
  BY <1>1, HistoryInit, HistoryStep, PTL DEF Spec

\* Whatever overlaps or crashes, a history that can be read shows each item
\* once, and those that one process saved the newest first (routes.py 354,
\* history.py 75-101).
THEOREM NewestFirstCorrect == Spec => []NewestFirst
<1>1. HistoryInv => NewestFirst
  BY DEF HistoryInv, NewestFirst, Sorted, Ordered, Before, Load
<1>. QED
  BY <1>1, HistoryInit, HistoryStep, PTL DEF Spec

-----------------------------------------------------------------------------
(* Operations one by one.                                                  *)

\* As long as no two overlapped and none was cut short, at most one operation
\* has loaded the file, about to write what was promised; with none, the file
\* holds it.
Alone ==
  /\ \A w \in Workers : stage[w] \in {"idle", "made", "loaded", "writing"}
  /\ \A v, w \in Workers : ~Untouched(v) /\ ~Untouched(w) => v = w
  /\ (\A w \in Workers : Untouched(w)) => file.items = promised
  /\ \A w \in Workers : ~Untouched(w) => copy[w] = promised
PromiseInv == apart => Alone

LEMMA PromiseStep == TypeOK /\ PromiseInv /\ [Next]_vars => PromiseInv'
<1>. SUFFICES ASSUME TypeOK, PromiseInv, [Next]_vars, apart' PROVE Alone'
  BY DEF PromiseInv
<1>1. ASSUME NEW w \in Workers, NEW next, NEW promise, Loads(w, next, promise),
             file.items = promised => next = promise
      PROVE  Alone'
  <2>1. (\A v \in Workers : Untouched(v)) /\ file.items = promised
    BY <1>1 DEF Loads, PromiseInv, Alone
  <2>. QED
    BY <1>1, <2>1 DEF Loads, Alone, TypeOK, Untouched
<1>2. ASSUME NEW w \in Workers, SaveQuery(w) PROVE Alone'
  BY <1>1, <1>2 DEF SaveQuery, Load
<1>3. ASSUME NEW w \in Workers, NEW id,
             \/ ToggleFavorite(w, id) \/ DeleteItem(w, id) \/ \E value \in BOOLEAN : UpdateItem(w, id, value)
      PROVE  Alone'
  BY <1>1, <1>3 DEF ToggleFavorite, DeleteItem, UpdateItem, Load
<1>4. ASSUME NEW w \in Workers, Opens(w) PROVE Alone'
  <2>1. apart /\ Alone /\ stage[w] = "loaded" /\ ~Untouched(w) /\ UNCHANGED <<copy, promised>>
    BY <1>4 DEF Opens, PromiseInv, Untouched
  <2>2. \A v \in Workers : v # w => Untouched(v)
    BY <2>1 DEF Alone
  <2>3. Writing = {}
    BY <2>1, <2>2 DEF Writing, Untouched
  <2>4. \A v \in Workers : stage'[v] = IF v = w THEN "writing" ELSE stage[v]
    BY <1>4, <2>3 DEF Opens
  <2>. QED
    BY <2>1, <2>2, <2>4 DEF Alone, Untouched
<1>5. ASSUME NEW w \in Workers, Writes(w) PROVE Alone'
  <2>1. apart /\ Alone /\ promised' = promised
    BY <1>5 DEF Writes, PromiseInv
  <2>2. stage[w] = "writing" /\ ~Untouched(w) /\ copy[w] = promised
    BY <1>5, <2>1 DEF Writes, Alone, Untouched
  <2>3. file' = Holding(promised)
    BY <1>5, <2>2 DEF Writes
  <2>4. file'.items = promised
    BY <2>3 DEF Holding
  <2>5. \A v \in Workers : stage'[v] \in {"idle", "made"}
    BY <1>5, <2>1, <2>2 DEF Writes, Alone, TypeOK, Untouched
  <2>. QED
    BY <2>1, <2>4, <2>5 DEF Alone, Untouched
<1>6. ASSUME NEW w \in Workers, ClearHistory(w) PROVE Alone'
  <2>1. \A v \in Workers : Untouched(v)
    BY <1>6 DEF ClearHistory
  <2>2. \A v \in Workers : stage'[v] \in {"idle", "made"}
    BY <1>6, <2>1 DEF ClearHistory, Writing, Untouched
  <2>3. file'.items = <<>> /\ promised' = <<>>
    BY <1>6 DEF ClearHistory, Absent
  <2>. QED
    BY <2>2, <2>3 DEF Alone, Untouched
<1>7. ASSUME NEW w \in Workers, MakeItem(w) \/ SaveFails(w) PROVE Alone'
  <2>1. /\ apart /\ Alone /\ Untouched(w) /\ file' = file /\ promised' = promised
        /\ \A v \in Workers : Untouched(v) => stage'[v] \in {"idle", "made"}
        /\ \A v \in Workers : ~Untouched(v) => stage'[v] = stage[v] /\ copy'[v] = copy[v]
    BY <1>7 DEF MakeItem, SaveFails, PromiseInv, Untouched, TypeOK
  <2>. QED
    BY <2>1 DEF Alone, Untouched
<1>8. \A w \in Workers : ~Crash(w)
  BY DEF Crash
<1>9. CASE UNCHANGED vars
  BY <1>9 DEF vars, PromiseInv, Alone, Untouched
<1>. QED
  BY <1>2, <1>3, <1>4, <1>5, <1>6, <1>7, <1>8, <1>9 DEF Next

\* Without overlapping operations and crashes the file holds, whenever nobody
\* writes, what the operations so far amount to (history.py 67-101).
THEOREM StoredCorrect == Spec => []StoredAsPromised
<1>1. Init => PromiseInv
  BY DEF Init, PromiseInv, Alone, Absent, Untouched
<1>2. PromiseInv => StoredAsPromised
  BY DEF PromiseInv, Alone, StoredAsPromised, Load
<1>. QED
  BY <1>1, <1>2, TypeCorrect, PromiseStep, PTL DEF Spec
-----------------------------------------------------------------------------
(* Reading: the items at some places of a history.                         *)

Rising(f, n) == \A i, j \in 1..n : i < j => f[i] < f[j]
Place(places) ==
  LET n == Cardinality(places)
  IN CHOOSE f \in [1..n -> places] : \A i, j \in 1..n : i < j => f[i] < f[j]

\* Every set of places has a rising enumeration: each place goes where as many
\* places are not above it.
LEMMA RisingExists ==
  ASSUME NEW l \in Nat, NEW I, I \subseteq 1..l
  PROVE  LET n == Cardinality(I)
         IN IsFiniteSet(I) /\ n \in 0..l /\ \E f \in [1..n -> I] : Rising(f, n)
<1>. DEFINE n == Cardinality(I)
            upto(i) == {j \in I : j <= i}
            r == [i \in I |-> Cardinality(upto(i))]
            f == [k \in 1..n |-> CHOOSE i \in I : r[i] = k]
<1>0. \A i \in I : i \in Int
  OBVIOUS
<1>1. IsFiniteSet(I) /\ n \in 0..l
  <2>1. IsFiniteSet(1..l) /\ Cardinality(1..l) = l
    BY FS_Interval
  <2>2. IsFiniteSet(I) /\ Cardinality(I) <= Cardinality(1..l)
    BY <2>1, FS_Subset
  <2>. QED
    BY <2>1, <2>2, FS_CardinalityType
<1>2. ASSUME NEW i \in I
      PROVE  IsFiniteSet(upto(i)) /\ r[i] = Cardinality(upto(i)) /\ r[i] \in 1..n
  <2>1. IsFiniteSet(upto(i)) /\ Cardinality(upto(i)) <= n /\ Cardinality(upto(i)) \in Nat
    BY <1>1, FS_Subset, FS_CardinalityType
  <2>2. i \in upto(i)
    OBVIOUS
  <2>3. Cardinality(upto(i)) # 0
    <3>. HIDE DEF upto
    <3>. QED
      BY <2>1, <2>2, FS_EmptySet
  <2>4. r[i] = Cardinality(upto(i))
    OBVIOUS
  <2>. HIDE DEF r, upto, n
  <2>. QED
    BY <1>1, <2>1, <2>3, <2>4
<1>3. ASSUME NEW i \in I, NEW j \in I, i < j PROVE r[i] < r[j]
  <2>1. upto(i) \in SUBSET upto(j) /\ j \in upto(j) /\ j \notin upto(i)
    <3>1. \A k \in I : k <= i => k <= j
      BY <1>0, <1>3
    <3>2. j <= j /\ ~(j <= i)
      BY <1>0, <1>3
    <3>. QED
      BY <3>1, <3>2
  <2>. HIDE DEF upto
  <2>2. Cardinality(upto(i)) <= Cardinality(upto(j)) /\ Cardinality(upto(i)) # Cardinality(upto(j))
    BY <1>2, <2>1, FS_Subset
  <2>. HIDE DEF r
  <2>. QED
    BY <1>1, <1>2, <2>2
<1>. HIDE DEF upto
<1>4. r \in [I -> 1..n] /\ \A i, j \in I : r[i] = r[j] => i = j
  <2>1. r \in [I -> 1..n]
    BY <1>2
  <2>. HIDE DEF r
  <2>2. \A i, j \in I : i \in Int /\ j \in Int /\ r[i] \in Int /\ r[j] \in Int
    BY <1>2
  <2>. QED
    BY <1>3, <2>1, <2>2
<1>5. \A k \in 1..n : \E i \in I : r[i] = k
  <2>. HIDE DEF r
  <2>1. r \in Injection(I, 1..n)
    BY <1>4 DEF Injection, IsInjective
  <2>2. IsFiniteSet(1..n) /\ Cardinality(1..n) = n
    BY <1>1, FS_Interval
  <2>3. r \in Surjection(I, 1..n)
    <3>. DEFINE T == 1..n
    <3>1. r \in Injection(I, T) /\ IsFiniteSet(T) /\ Cardinality(I) = Cardinality(T)
      BY <2>1, <2>2
    <3>. HIDE DEF T
    <3>2. r \in Surjection(I, T)
      BY <3>1, FS_Injection
    <3>. QED
      BY <3>2 DEF T
  <2>. QED
    BY <2>3 DEF Surjection
<1>. HIDE DEF r, n
<1>6. f \in [1..n -> I] /\ \A k \in 1..n : f[k] \in I /\ r[f[k]] = k
  BY <1>5
<1>. HIDE DEF f
<1>7. Rising(f, n)
  <2>. SUFFICES ASSUME NEW i \in 1..n, NEW j \in 1..n, i < j PROVE f[i] < f[j]
    BY DEF Rising
  <2>1. f[i] \in I /\ f[j] \in I /\ r[f[i]] = i /\ r[f[j]] = j
    BY <1>6
  <2>2. f[i] \in Int /\ f[j] \in Int /\ i \in Int /\ j \in Int
    <3>1. n \in Int
      BY <1>1
    <3>2. i \in Int /\ j \in Int
      BY <3>1
    <3>. QED
      BY <1>0, <2>1, <3>2
  <2>3. f[i] # f[j]
    BY <2>1, <2>2
  <2>4. ~(f[j] < f[i])
    BY <1>3, <2>1, <2>2
  <2>. QED
    BY <2>2, <2>3, <2>4
<1>. QED
  BY <1>1, <1>6, <1>7 DEF n

\* Hence the items at some places are all of them, in their order.
LEMMA AtPlaces ==
  ASSUME NEW h \in Seq(Items), NEW I, I \subseteq DOMAIN h
  PROVE  LET n == Cardinality(I)
             p == Place(I)
         IN /\ n \in 0..Len(h) /\ At(h, I) \in Seq(Items) /\ Len(At(h, I)) = n
            /\ \A i \in 1..n : p[i] \in I /\ At(h, I)[i] = h[p[i]]
            /\ \A k \in I : \E i \in 1..n : p[i] = k
<1>. DEFINE n == Cardinality(I)
            p == Place(I)
            all == [i \in 1..n |-> h[p[i]]]
<1>1. Len(h) \in Nat /\ DOMAIN h = 1..Len(h) /\ I \subseteq 1..Len(h)
  OBVIOUS
<1>2. IsFiniteSet(I) /\ n \in 0..Len(h) /\ \E f \in [1..n -> I] : Rising(f, n)
  BY <1>1, RisingExists
<1>3. p \in [1..n -> I] /\ Rising(p, n)
  BY <1>2 DEF Place, Rising
<1>4. At(h, I) = all
  BY DEF At, Place
<1>. HIDE DEF p
<1>5. \A i \in 1..n : p[i] \in I /\ h[p[i]] \in Items
  BY <1>1, <1>3
<1>6. all \in Seq(Items) /\ Len(all) = n /\ \A i \in 1..n : all[i] = h[p[i]]
  <2>1. all \in [1..n -> Items]
    BY <1>5
  <2>. HIDE DEF n
  <2>. QED
    BY <1>2, <2>1
<1>7. \A k \in I : \E i \in 1..n : p[i] = k
  <2>. HIDE DEF n
  <2>1. \A i, j \in 1..n : p[i] = p[j] => i = j
    <3>1. \A i \in 1..n : p[i] \in Int /\ i \in Int
      BY <1>1, <1>2, <1>5
    <3>. QED
      BY <1>3, <3>1 DEF Rising
  <2>2. p \in Injection(1..n, I)
    BY <1>3, <2>1 DEF Injection, IsInjective
  <2>3. IsFiniteSet(1..n) /\ Cardinality(1..n) = n
    BY <1>2, FS_Interval
  <2>4. p \in Surjection(1..n, I)
    <3>. DEFINE S == 1..n
    <3>1. p \in Injection(S, I) /\ IsFiniteSet(I) /\ Cardinality(S) = Cardinality(I)
      BY <1>2, <2>2, <2>3 DEF n
    <3>. HIDE DEF S
    <3>2. p \in Surjection(S, I)
      BY <3>1, FS_Injection
    <3>. QED
      BY <3>2 DEF S
  <2>. QED
    BY <2>4 DEF Surjection
<1>. QED
  BY <1>2, <1>4, <1>5, <1>6, <1>7 DEF p

\* Two pages are the listing cut in two.
LEMMA CutInTwo ==
  ASSUME NEW h \in Seq(Items), NEW n \in Nat
  PROVE  h = SubSeq(h, 1, IF n > Len(h) THEN Len(h) ELSE n) \o SubSeq(h, n + 1, Len(h))
<1>. DEFINE l == Len(h)
            m == IF n > l THEN l ELSE n
            a == SubSeq(h, 1, m)
            b == SubSeq(h, n + 1, l)
<1>1. l \in Nat /\ \A i \in 1..l : h[i] \in Items
  OBVIOUS
<1>2. m \in 0..l
  BY <1>1
<1>3. a \in Seq(Items) /\ Len(a) = m /\ \A i \in 1..m : a[i] = h[i]
  <2>. HIDE DEF m
  <2>. QED
    BY <1>1, <1>2
<1>4. b \in Seq(Items) /\ Len(b) = l - m /\ \A i \in 1..(l - m) : b[i] = h[m + i]
  <2>1. /\ b \in Seq(Items)
        /\ Len(b) = IF n + 1 <= l THEN l - (n + 1) + 1 ELSE 0
        /\ \A i \in 1..(l - (n + 1) + 1) : b[i] = h[n + 1 + i - 1]
    <3>1. \A i \in (n + 1)..l : h[i] \in Items
      BY <1>1
    <3>. HIDE DEF l
    <3>. QED
      BY <1>1, <3>1, SubSeqProperties
  <2>. HIDE DEF b, l
  <2>2. CASE n + 1 <= l
    <3>1. m = n /\ l - (n + 1) + 1 = l - m
      BY <1>1, <2>2
    <3>2. \A i \in 1..(l - m) : n + 1 + i - 1 = m + i
      BY <1>1, <3>1
    <3>. HIDE DEF m
    <3>. QED
      BY <2>1, <2>2, <3>1, <3>2
  <2>3. CASE ~(n + 1 <= l)
    <3>1. m = l /\ l - m = 0
      BY <1>1, <2>3
    <3>. HIDE DEF m
    <3>. QED
      BY <2>1, <2>3, <3>1
  <2>. QED
    BY <2>2, <2>3
<1>. HIDE DEF a, b, m
<1>5. /\ a \o b \in Seq(Items) /\ Len(a \o b) = Len(a) + Len(b)
      /\ \A i \in 1..(Len(a) + Len(b)) : (a \o b)[i] = IF i <= Len(a) THEN a[i] ELSE b[i - Len(a)]
  BY <1>3, <1>4, ConcatProperties
<1>6. Len(a) + Len(b) = l
  BY <1>1, <1>2, <1>3, <1>4
<1>7. ASSUME NEW i \in 1..l PROVE (a \o b)[i] = h[i]
  <2>1. (a \o b)[i] = IF i <= m THEN a[i] ELSE b[i - m]
    BY <1>3, <1>5, <1>6
  <2>2. CASE i <= m
    BY <1>1, <1>2, <1>3, <2>1, <2>2
  <2>3. CASE ~(i <= m)
    <3>1. i - m \in 1..(l - m) /\ m + (i - m) = i
      BY <1>1, <1>2, <2>3
    <3>. QED
      BY <1>4, <2>1, <2>3, <3>1
  <2>. QED
    BY <2>2, <2>3
<1>8. a \o b = h
  <2>1. a \o b \in Seq(Items) /\ Len(a \o b) = Len(h) /\ \A i \in 1..Len(a \o b) : (a \o b)[i] = h[i]
    BY <1>5, <1>6, <1>7
  <2>. QED
    BY <2>1, SeqEqual
<1>. QED
  BY <1>8 DEF a, b, m

\* What is shown, and a search for what is shown, by any favourite marks.
LEMMA ReadsOf ==
  ASSUME file.items \in Histories, Ordered(file.items), NEW fav \in BOOLEAN, NEW n \in 1..MaxItems
  PROVE  LET all == Page(MaxItems, 0, fav)
         IN /\ all = Page(n, 0, fav) \o Page(MaxItems, n, fav)
            /\ Len(all) = (IF fav THEN Stats.favorite_count ELSE Stats.total_queries)
            /\ \A i \in DOMAIN all : GetItem(all[i].id) = {all[i]}
            /\ Search({all[i].id : i \in DOMAIN all}, n) = Page(n, 0, fav)
<1>. DEFINE h == file.items
            I == {i \in DOMAIN h : fav => h[i].favorite}
            L == At(h, I)
            m == Len(L)
            p == Place(I)
<1>1. /\ h \in Seq(Items) /\ Len(h) \in Nat /\ Len(h) <= MaxItems /\ DOMAIN h = 1..Len(h)
      /\ MaxItems \in Nat \ {0} /\ n \in Nat \ {0} /\ n <= MaxItems
  BY HistoryAssumption DEF Histories
<1>2. /\ m \in 0..Len(h) /\ L \in Seq(Items) /\ m = Cardinality(I) /\ DOMAIN L = 1..m
      /\ \A i \in 1..m : p[i] \in I /\ L[i] = h[p[i]]
      /\ \A k \in I : \E i \in 1..m : p[i] = k
  <2>1. h \in Seq(Items) /\ I \subseteq DOMAIN h
    BY <1>1
  <2>. DEFINE c == Cardinality(I)
  <2>2. /\ c \in 0..Len(h) /\ L \in Seq(Items) /\ Len(L) = c
        /\ \A i \in 1..c : p[i] \in I /\ L[i] = h[p[i]]
        /\ \A k \in I : \E i \in 1..c : p[i] = k
    <3>. HIDE DEF h, I
    <3>. QED
      BY <2>1, AtPlaces
  <2>. HIDE DEF L, p, I, h
  <2>. QED
    BY <2>2
<1>3. Shown(fav) = L
  BY DEF Shown, Load
<1>. HIDE DEF L
<1>4. /\ Page(MaxItems, 0, fav) = SubSeq(L, 0 + 1, IF 0 + MaxItems > m THEN m ELSE 0 + MaxItems)
      /\ Page(n, 0, fav) = SubSeq(L, 0 + 1, IF 0 + n > m THEN m ELSE 0 + n)
      /\ Page(MaxItems, n, fav) = SubSeq(L, n + 1, IF n + MaxItems > m THEN m ELSE n + MaxItems)
  BY <1>3 DEF Page
<1>. HIDE DEF m, h, p
<1>5. /\ (IF 0 + MaxItems > m THEN m ELSE 0 + MaxItems) = m
      /\ (IF n + MaxItems > m THEN m ELSE n + MaxItems) = m
      /\ (IF 0 + n > m THEN m ELSE 0 + n) = (IF n > m THEN m ELSE n)
      /\ 0 + 1 = 1
  BY <1>1, <1>2
<1>6. Page(MaxItems, 0, fav) = L
  <2>1. Page(MaxItems, 0, fav) = SubSeq(L, 1, m)
    BY <1>4, <1>5
  <2>. QED
    BY <1>2, <2>1, SubSeqFull DEF m
<1>7. Page(n, 0, fav) = SubSeq(L, 1, IF n > m THEN m ELSE n) /\ Page(MaxItems, n, fav) = SubSeq(L, n + 1, m)
  BY <1>4, <1>5
<1>8. L = Page(n, 0, fav) \o Page(MaxItems, n, fav)
  BY <1>1, <1>2, <1>7, CutInTwo DEF m
<1>9. m = IF fav THEN Stats.favorite_count ELSE Stats.total_queries
  <2>1. CASE fav
    <3>1. I = {i \in DOMAIN Load : Load[i].favorite}
      BY <2>1 DEF Load, h
    <3>. HIDE DEF I
    <3>. QED
      BY <1>2, <2>1, <3>1 DEF Stats
  <2>2. CASE ~fav
    <3>0. I = DOMAIN h
      BY <2>2, Zenon
    <3>1. I = 1..Len(h)
      BY <1>1, <3>0
    <3>2. Cardinality(1..Len(h)) = Len(h)
      <4>1. \A l \in Nat : Cardinality(1..l) = l
        BY FS_Interval
      <4>. QED
        BY <1>1, <4>1, Zenon
    <3>3. Stats.total_queries = Len(h)
      BY DEF Stats, Load, h
    <3>4. m = Len(h)
      <4>. HIDE DEF I
      <4>. QED
        BY <1>2, <3>1, <3>2
    <3>. HIDE DEF I
    <3>. QED
      BY <2>2, <3>3, <3>4
  <2>. QED
    BY <2>1, <2>2
<1>10. \A j, k \in DOMAIN h : h[j].id = h[k].id => j = k
  <2>1. \A j \in DOMAIN h : j \in Int
    BY <1>1
  <2>2. \A j, k \in DOMAIN h : j < k => h[j].id # h[k].id
    BY DEF Ordered, Before, h
  <2>. QED
    BY <2>1, <2>2
<1>11. ASSUME NEW i \in DOMAIN L PROVE GetItem(L[i].id) = {L[i]}
  <2>1. p[i] \in DOMAIN h /\ L[i] = h[p[i]]
    BY <1>2, <1>11
  <2>2. {j \in DOMAIN h : h[j].id = L[i].id} = {p[i]}
    BY <1>10, <2>1
  <2>3. GetItem(L[i].id) = {h[j] : j \in {p[i]}}
    BY <2>2 DEF GetItem, Load, h
  <2>. QED
    BY <2>1, <2>3
<1>12. Search({L[i].id : i \in DOMAIN L}, n) = Page(n, 0, fav)
  <2>. DEFINE ids == {L[i].id : i \in DOMAIN L}
              J == {j \in DOMAIN h : h[j].id \in ids}
  <2>1. J = I
    <3>1. ASSUME NEW j \in J PROVE j \in I
      <4>1. PICK i \in 1..m : h[j].id = L[i].id
        BY <1>2
      <4>2. p[i] \in I /\ p[i] \in DOMAIN h /\ L[i] = h[p[i]]
        BY <1>2
      <4>. QED
        BY <1>10, <4>1, <4>2
    <3>2. ASSUME NEW j \in I PROVE j \in J
      <4>1. PICK i \in 1..m : p[i] = j
        BY <1>2
      <4>2. L[i] = h[j] /\ j \in DOMAIN h /\ i \in DOMAIN L
        BY <1>2, <4>1
      <4>. QED
        BY <4>2
    <3>. QED
      BY <3>1, <3>2
  <2>2. Search(ids, n) = SubSeq(At(h, J), 1, IF Len(At(h, J)) > n THEN n ELSE Len(At(h, J)))
    BY DEF Search, Load, h
  <2>. HIDE DEF J, I
  <2>3. Search(ids, n) = SubSeq(L, 1, IF m > n THEN n ELSE m)
    <3>1. At(h, J) = L
      BY <2>1 DEF L
    <3>. QED
      BY <2>2, <3>1 DEF m
  <2>4. (IF m > n THEN n ELSE m) = (IF n > m THEN m ELSE n)
    <3>1. m \in Int /\ n \in Int
      BY <1>1, <1>2
    <3>. QED
      BY <3>1
  <2>5. Search(ids, n) = Page(n, 0, fav)
    <3>. HIDE DEF ids
    <3>. QED
      BY <1>7, <2>3, <2>4
  <2>. QED
    BY <2>5
<1>. QED
  BY <1>6, <1>8, <1>9, <1>11, <1>12 DEF m

\* For any number of items and any limits, the pages of a listing, the
\* statistics, the single items and a search agree (history.py 124-144,
\* 236-246, 269-280).
THEOREM ReadsAgreeCorrect == Spec => []ReadsAgree
<1>1. HistoryInv => ReadsAgree
  <2>. SUFFICES ASSUME HistoryInv, NEW fav \in BOOLEAN, NEW n \in 1..MaxItems
                PROVE  LET all == Page(MaxItems, 0, fav)
                       IN /\ all = Page(n, 0, fav) \o Page(MaxItems, n, fav)
                          /\ Len(all) = (IF fav THEN Stats.favorite_count ELSE Stats.total_queries)
                          /\ \A i \in DOMAIN all : GetItem(all[i].id) = {all[i]}
                          /\ Search({all[i].id : i \in DOMAIN all}, n) = Page(n, 0, fav)
    BY DEF ReadsAgree
  <2>1. file.items \in Histories /\ Ordered(file.items)
    BY DEF HistoryInv, TypeOK, Sorted
  <2>. QED
    BY <2>1, ReadsOf
<1>. QED
  BY <1>1, HistoryInit, HistoryStep, PTL DEF Spec

-----------------------------------------------------------------------------
(* Turns are totally ordered, and numbered by their rank.                  *)

LEMMA NewerOrders ==
  \A t, u \in Turns :
    /\ ~Newer(t, t)
    /\ Newer(t, u) => ~Newer(u, t)
    /\ t # u => Newer(t, u) \/ Newer(u, t)
    /\ \A v \in Turns : Newer(t, u) /\ Newer(u, v) => Newer(t, v)
<1>1. \A t \in Turns : t.id \in Int /\ t.time \in Int /\ t = [id |-> t.id, time |-> t.time]
  BY MemoryAssumption DEF Turns
<1>. QED
  BY <1>1 DEF Newer

LEMMA RowNumberType ==
  ASSUME NEW S, S \subseteq Turns, IsFiniteSet(S), NEW t \in Turns
  PROVE  /\ RowNumber(t, S) \in Nat \ {0}
         /\ t \in S => RowNumber(t, S) <= Cardinality(S)
<1>. DEFINE A == {u \in S : Newer(u, t)}
<1>1. IsFiniteSet(A) /\ Cardinality(A) \in Nat /\ IsFiniteSet(S \ {t}) /\ Cardinality(S) \in Nat
  BY FS_Subset, FS_CardinalityType, FS_RemoveElement
<1>2. ASSUME t \in S PROVE Cardinality(A) + 1 <= Cardinality(S)
  <2>1. A \in SUBSET (S \ {t})
    BY NewerOrders
  <2>2. Cardinality(A) <= Cardinality(S \ {t}) /\ Cardinality(S \ {t}) = Cardinality(S) - 1
    BY <1>1, <1>2, <2>1, FS_Subset, FS_RemoveElement
  <2>. QED
    BY <1>1, <2>2
<1>. QED
  BY <1>1, <1>2 DEF RowNumber

LEMMA NewerHasLowerNumber ==
  ASSUME NEW S, S \subseteq Turns, IsFiniteSet(S), NEW t \in S, NEW u \in S, Newer(t, u)
  PROVE  RowNumber(t, S) < RowNumber(u, S)
<1>. DEFINE A == {v \in S : Newer(v, t)}
            B == {v \in S : Newer(v, u)}
<1>1. IsFiniteSet(A) /\ IsFiniteSet(B) /\ Cardinality(A) \in Nat /\ Cardinality(B) \in Nat
  BY FS_Subset, FS_CardinalityType
<1>2. t \notin A /\ A \cup {t} \in SUBSET B
  BY NewerOrders
<1>3. Cardinality(A \cup {t}) = Cardinality(A) + 1
  BY <1>1, <1>2, FS_AddElement
<1>4. Cardinality(A \cup {t}) <= Cardinality(B)
  BY <1>1, <1>2, FS_Subset
<1>. QED
  BY <1>1, <1>3, <1>4 DEF RowNumber

LEMMA NumbersDiffer ==
  ASSUME NEW S, S \subseteq Turns, IsFiniteSet(S), NEW t \in S, NEW u \in S, RowNumber(t, S) = RowNumber(u, S)
  PROVE  t = u
<1>1. RowNumber(t, S) \in Nat
  BY RowNumberType
<1>. QED
  BY <1>1, NewerHasLowerNumber, NewerOrders

\* Hence only so many turns have a number up to n.
LEMMA NumberedAreFew ==
  ASSUME NEW S, S \subseteq Turns, IsFiniteSet(S), NEW n \in Nat
  PROVE  LET K == {t \in S : RowNumber(t, S) <= n} IN IsFiniteSet(K) /\ Cardinality(K) <= n
<1>. DEFINE K == {t \in S : RowNumber(t, S) <= n}
            f == [t \in K |-> RowNumber(t, S)]
<1>1. IsFiniteSet(1..n) /\ Cardinality(1..n) = n
  BY FS_Interval
<1>2. f \in Injection(K, 1..n)
  <2>1. \A t \in K : RowNumber(t, S) \in 1..n
    BY RowNumberType
  <2>2. \A t, u \in K : RowNumber(t, S) = RowNumber(u, S) => t = u
    BY NumbersDiffer
  <2>3. f \in [K -> 1..n] /\ DOMAIN f = K /\ \A t \in K : f[t] = RowNumber(t, S)
    BY <2>1
  <2>. HIDE DEF f
  <2>. QED
    BY <2>2, <2>3 DEF Injection, IsInjective
<1>. HIDE DEF f, K
<1>3. IsFiniteSet(K) /\ Cardinality(K) <= Cardinality(1..n)
  BY <1>1, <1>2, FS_Injection
<1>. QED
  BY <1>1, <1>3 DEF K

-----------------------------------------------------------------------------
(* Turns in the order of their making.                                     *)

Ascending(h) == \A i, j \in DOMAIN h : i < j => Newer(h[j], h[i])

\* As many turns have been made since as stand behind.
LEMMA TurnsBehind ==
  ASSUME NEW n \in Nat, NEW h \in [1..n -> Turns], Ascending(h), NEW k \in 1..(n + 1)
  PROVE  LET B == {h[j] : j \in k..n} IN IsFiniteSet(B) /\ Cardinality(B) = n - k + 1
<1>. DEFINE B == {h[j] : j \in k..n}
            f == [j \in k..n |-> h[j]]
<1>1. IsFiniteSet(k..n) /\ Cardinality(k..n) = n - k + 1
  <2>1. /\ IsFiniteSet(k..n)
        /\ Cardinality(k..n) = IF k > n THEN 0 ELSE n - k + 1
    BY FS_Interval
  <2>. QED
    BY <2>1
<1>2. \A i, j \in k..n : h[i] = h[j] => i = j
  <2>. SUFFICES ASSUME NEW i \in k..n, NEW j \in k..n, i < j PROVE h[i] # h[j]
    OBVIOUS
  <2>1. Newer(h[j], h[i]) /\ h[i] \in Turns
    BY DEF Ascending
  <2>. QED
    BY <2>1, NewerOrders
<1>3. f \in Bijection(k..n, B)
  <2>1. /\ f \in [k..n -> B] /\ DOMAIN f = k..n /\ \A j \in k..n : f[j] = h[j]
        /\ \A u \in B : \E j \in k..n : h[j] = u
    OBVIOUS
  <2>. HIDE DEF f, B
  <2>2. f \in Injection(k..n, B)
    BY <1>2, <2>1 DEF Injection, IsInjective
  <2>3. f \in Surjection(k..n, B)
    BY <2>1 DEF Surjection
  <2>. QED
    BY <2>2, <2>3 DEF Bijection
<1>. HIDE DEF f, B
<1>4. IsFiniteSet(B) /\ Cardinality(B) = Cardinality(k..n)
  BY <1>1, <1>3, FS_Bijection DEF ExistsBijection
<1>. QED
  BY <1>1, <1>4 DEF B

\* An ascending enumeration lists all of the set, each turn by its number.
LEMMA Enumerates ==
  ASSUME NEW S, S \subseteq Turns, IsFiniteSet(S), NEW n, n = Cardinality(S),
         NEW h \in [1..n -> S], Ascending(h), NEW i \in 1..n
  PROVE  RowNumber(h[i], S) = n - i + 1
<1>1. n \in Nat /\ IsFiniteSet(1..n) /\ Cardinality(1..n) = n
  <2>1. n \in Nat
    BY FS_CardinalityType
  <2>. QED
    BY <2>1, FS_Interval
<1>2. h \in Injection(1..n, S)
  <2>1. ASSUME NEW j \in 1..n, NEW k \in 1..n, j < k PROVE h[j] # h[k]
    <3>1. Newer(h[k], h[j]) /\ h[j] \in Turns
      BY <2>1 DEF Ascending
    <3>. QED
      BY <3>1, NewerOrders
  <2>2. \A j, k \in 1..n : h[j] = h[k] => j = k
    BY <1>1, <2>1
  <2>. QED
    BY <2>2 DEF Injection, IsInjective
<1>3. h \in Surjection(1..n, S)
  BY <1>1, <1>2, FS_Injection
<1>. DEFINE A == {u \in S : Newer(u, h[i])}
            B == {h[j] : j \in (i + 1)..n}
<1>4. A = B
  <2>1. \A u \in S : \E j \in 1..n : h[j] = u
    BY <1>3 DEF Surjection
  <2>2. \A j \in 1..n : Newer(h[j], h[i]) <=> j > i
    <3>. SUFFICES ASSUME NEW j \in 1..n PROVE Newer(h[j], h[i]) <=> j > i
      OBVIOUS
    <3>1. h[i] \in Turns /\ h[j] \in Turns
      OBVIOUS
    <3>2. /\ i < j => Newer(h[j], h[i])
          /\ j < i => Newer(h[i], h[j])
      BY DEF Ascending
    <3>3. i < j \/ j < i \/ i = j
      BY <1>1
    <3>4. j > i <=> i < j
      BY <1>1
    <3>5. CASE i < j
      BY <3>2, <3>4, <3>5
    <3>6. CASE j < i
      <4>1. ~(i < j)
        BY <1>1, <3>6
      <4>. QED
        BY <3>1, <3>2, <3>4, <3>6, <4>1, NewerOrders
    <3>7. CASE i = j
      <4>1. ~(i < j)
        BY <1>1, <3>7
      <4>. QED
        BY <3>1, <3>4, <3>7, <4>1, NewerOrders
    <3>. QED
      BY <3>3, <3>5, <3>6, <3>7
  <2>. QED
    BY <1>1, <2>1, <2>2
<1>5. Cardinality(B) = n - (i + 1) + 1
  <2>1. i + 1 \in 1..(n + 1) /\ h \in [1..n -> Turns]
    BY <1>1
  <2>. QED
    BY <1>1, <2>1, TurnsBehind
<1>6. RowNumber(h[i], S) = Cardinality(A) + 1
  BY DEF RowNumber
<1>. HIDE DEF A, B
<1>. QED
  BY <1>1, <1>4, <1>5, <1>6

LEMMA InOrderIs ==
  ASSUME NEW S, S \subseteq Turns, IsFiniteSet(S), NEW n, n = Cardinality(S),
         NEW h \in [1..n -> S], Ascending(h)
  PROVE  InOrder(S) = h
<1>. DEFINE P(g) == \A i, j \in 1..n : i < j => Newer(g[j], g[i])
            g == CHOOSE g \in [1..n -> S] : P(g)
<1>1. P(h)
  BY DEF Ascending
<1>2. g \in [1..n -> S] /\ P(g)
  BY <1>1
<1>3. InOrder(S) = g
  BY DEF InOrder
<1>. HIDE DEF g
<1>4. Ascending(g)
  BY <1>2 DEF Ascending
<1>5. ASSUME NEW i \in 1..n PROVE g[i] = h[i]
  <2>1. RowNumber(g[i], S) = RowNumber(h[i], S)
    BY <1>2, <1>4, Enumerates
  <2>. QED
    BY <1>2, <2>1, NumbersDiffer
<1>. HIDE DEF P
<1>6. g = h
  <2>1. g = [i \in 1..n |-> g[i]] /\ h = [i \in 1..n |-> h[i]]
    BY <1>2
  <2>. QED
    BY <1>5, <2>1
<1>. QED
  BY <1>3, <1>6

-----------------------------------------------------------------------------
(* What the table has of one session.                                      *)

LEMMA TurnsAre ==
  ASSUME NEW all, all \subseteq Sessions \X Turns, NEW s \in Sessions
  PROVE  /\ \A t : t \in TurnsOf(s, all) <=> <<s, t>> \in all
         /\ TurnsOf(s, all) \subseteq Turns
<1>1. \A row \in all : row = <<row[1], row[2]>> /\ row[1] \in Sessions /\ row[2] \in Turns
  OBVIOUS
<1>. QED
  BY <1>1 DEF TurnsOf

LEMMA TurnsAreFinite ==
  ASSUME NEW all, IsFiniteSet(all), NEW s
  PROVE  IsFiniteSet(TurnsOf(s, all))
<1>. DEFINE A == {row \in all : row[1] = s}
            f == [row \in A |-> row[2]]
<1>1. IsFiniteSet(A)
  BY FS_Subset
<1>2. f \in Surjection(A, TurnsOf(s, all))
  <2>1. f \in [A -> TurnsOf(s, all)] /\ \A row \in A : f[row] = row[2]
    BY DEF TurnsOf
  <2>2. \A t \in TurnsOf(s, all) : \E row \in A : t = row[2]
    BY DEF TurnsOf
  <2>. HIDE DEF f, A
  <2>. QED
    BY <2>1, <2>2 DEF Surjection
<1>. QED
  BY <1>1, <1>2, FS_Surjection

\* Trimming one session leaves the others alone, and of that one the turns
\* with the lowest numbers.
LEMMA TrimmedTurns ==
  ASSUME NEW all, all \subseteq Sessions \X Turns, NEW s \in Sessions, NEW r \in Sessions
  PROVE  TurnsOf(r, Trimmed(s, all)) =
           IF r = s THEN {t \in TurnsOf(s, all) : RowNumber(t, TurnsOf(s, all)) <= MaxTurns}
           ELSE TurnsOf(r, all)
<1>. DEFINE S == TurnsOf(s, all)
            K == {row \in all : row[1] = s => RowNumber(row[2], S) <= MaxTurns}
<1>1. Trimmed(s, all) = K
  BY DEF Trimmed
<1>2. \A t : <<r, t>> \in K <=> <<r, t>> \in all /\ (r = s => RowNumber(t, S) <= MaxTurns)
  OBVIOUS
<1>3. \A t : t \in TurnsOf(r, K) <=> <<r, t>> \in K
  BY TurnsAre
<1>4. \A t : t \in TurnsOf(r, all) <=> <<r, t>> \in all
  BY TurnsAre
<1>. HIDE DEF S, K
<1>5. \A t : t \in TurnsOf(r, K) <=> t \in TurnsOf(r, all) /\ (r = s => RowNumber(t, S) <= MaxTurns)
  BY <1>2, <1>3, <1>4
<1>6. CASE r = s
  <2>1. TurnsOf(r, K) = {t \in S : RowNumber(t, S) <= MaxTurns}
    BY <1>5, <1>6 DEF S
  <2>. QED
    BY <1>1, <1>6, <2>1 DEF S
<1>7. CASE r # s
  <2>1. TurnsOf(r, K) = TurnsOf(r, all)
    BY <1>5, <1>7
  <2>. QED
    BY <1>1, <1>7, <2>1
<1>. QED
  BY <1>6, <1>7

-----------------------------------------------------------------------------
(* Types and limits, whatever the clock does.                              *)

TypeInv == MemoryTypeOK /\ IsFiniteSet(rows)

LEMMA AppendedKeeps ==
  ASSUME NEW s \in Sessions, deques[s] \in Seq(Turns), Len(deques[s]) <= MaxTurns, NEW turn \in Turns
  PROVE  LET all == Append(deques[s], turn)
             k == Len(all) - Len(Appended(s, turn))
         IN /\ Appended(s, turn) \in Seq(Turns)
            /\ Len(Appended(s, turn)) \in 1..MaxTurns
            /\ k = (IF Len(all) > MaxTurns THEN 1 ELSE 0)
            /\ \A i \in 1..Len(Appended(s, turn)) : Appended(s, turn)[i] = all[k + i]
<1>. DEFINE all == Append(deques[s], turn)
            m == IF Len(all) > MaxTurns THEN 2 ELSE 1
            d == SubSeq(all, m, Len(all))
<1>1. all \in Seq(Turns) /\ Len(all) = Len(deques[s]) + 1
  BY AppendProperties
<1>2. Appended(s, turn) = d
  BY DEF Appended
<1>3. Len(deques[s]) \in Nat /\ MaxTurns \in Nat \ {0}
  BY MemoryAssumption
<1>4. m \in 1..2 /\ Len(all) \in Nat /\ m <= Len(all)
  BY <1>1, <1>3
<1>. HIDE DEF all
<1>5. \A i \in m..Len(all) : all[i] \in Turns
  BY <1>1, <1>4
<1>6. /\ d \in Seq(Turns) /\ Len(d) = Len(all) - m + 1
      /\ \A i \in 1..(Len(all) - m + 1) : d[i] = all[m + i - 1]
  <2>. HIDE DEF m
  <2>. QED
    BY <1>4, <1>5, SubSeqProperties
<1>. HIDE DEF d
<1>7. Len(all) - Len(d) = m - 1 /\ Len(d) \in 1..MaxTurns
  <2>. DEFINE l == Len(deques[s])
              a == Len(all)
  <2>1. l \in Nat /\ a = l + 1 /\ l <= MaxTurns /\ MaxTurns \in Nat /\ MaxTurns > 0
    BY <1>1, <1>3
  <2>2. m = (IF a > MaxTurns THEN 2 ELSE 1) /\ Len(d) = a - m + 1
    BY <1>6
  <2>. HIDE DEF m, a, l
  <2>3. CASE a > MaxTurns
    BY <2>1, <2>2, <2>3 DEF a
  <2>4. CASE ~(a > MaxTurns)
    BY <2>1, <2>2, <2>4 DEF a
  <2>. QED
    BY <2>3, <2>4
<1>8. \A i \in 1..Len(d) : d[i] = all[(m - 1) + i]
  <2>1. \A i \in 1..Len(d) : (m - 1) + i = m + i - 1
    BY <1>4, <1>7
  <2>. QED
    BY <1>6, <2>1
<1>9. m - 1 = IF Len(all) > MaxTurns THEN 1 ELSE 0
  BY <1>3
<1>. HIDE DEF m
<1>. QED
  BY <1>2, <1>6, <1>7, <1>8, <1>9 DEF all

LEMMA TypeInit == MemoryInit => TypeInv
<1>. SUFFICES ASSUME MemoryInit PROVE TypeInv
  OBVIOUS
<1>1. <<>> \in Seq(Turns) /\ Len(<<>>) = 0
  OBVIOUS
<1>2. rows = {} /\ IsFiniteSet(rows) /\ Cardinality({}) = 0
  BY FS_EmptySet DEF MemoryInit
<1>3. \A s \in Sessions : OfSession(s) = {}
  BY <1>2 DEF OfSession, TurnsOf
<1>4. deques \in [Sessions -> Seq(Turns)] /\ \A s \in Sessions : Len(deques[s]) <= MaxTurns
  BY <1>1, MemoryAssumption DEF MemoryInit
<1>5. \A s \in Sessions : Cardinality(OfSession(s)) <= MaxTurns
  BY <1>2, <1>3, MemoryAssumption
<1>. QED
  BY <1>2, <1>4, <1>5, MemoryAssumption DEF MemoryInit, TypeInv, MemoryTypeOK

\* Fewer rows are no more turns.
LEMMA FewerRows ==
  ASSUME TypeInv, rows' \subseteq rows
  PROVE  /\ rows' \subseteq Sessions \X Turns /\ IsFiniteSet(rows')
         /\ \A s \in Sessions : OfSession(s)' \subseteq OfSession(s) /\ Cardinality(OfSession(s)') <= MaxTurns
<1>1. IsFiniteSet(rows) /\ rows \subseteq Sessions \X Turns
  BY DEF TypeInv, MemoryTypeOK
<1>2. rows' \subseteq Sessions \X Turns /\ IsFiniteSet(rows')
  BY <1>1, FS_Subset
<1>3. ASSUME NEW s \in Sessions
      PROVE  OfSession(s)' \subseteq OfSession(s) /\ Cardinality(OfSession(s)') <= MaxTurns
  <2>1. OfSession(s)' = TurnsOf(s, rows') /\ OfSession(s) = TurnsOf(s, rows)
    BY DEF OfSession
  <2>2. IsFiniteSet(OfSession(s)) /\ IsFiniteSet(OfSession(s)')
    BY <1>1, <1>2, <2>1, TurnsAreFinite
  <2>3. OfSession(s)' \in SUBSET OfSession(s)
    BY <2>1 DEF TurnsOf
  <2>4. /\ Cardinality(OfSession(s)) \in Nat /\ Cardinality(OfSession(s)') \in Nat
        /\ Cardinality(OfSession(s)') <= Cardinality(OfSession(s))
    BY <2>2, <2>3, FS_Subset, FS_CardinalityType
  <2>5. Cardinality(OfSession(s)) <= MaxTurns /\ MaxTurns \in Nat
    BY MemoryAssumption DEF TypeInv, MemoryTypeOK
  <2>. QED
    BY <2>3, <2>4, <2>5
<1>. QED
  BY <1>2, <1>3

\* What adding a turn makes of each session in the table.
LEMMA AddTurnTable ==
  ASSUME TypeInv, NEW s \in Sessions, AddTurn(s)
  PROVE  LET turn == [id |-> last_id + 1, time |-> now]
             S == OfSession(s) \cup {turn}
         IN /\ turn \in Turns /\ S \subseteq Turns /\ IsFiniteSet(S)
            /\ rows' \subseteq Sessions \X Turns /\ IsFiniteSet(rows')
            /\ OfSession(s)' = {t \in S : RowNumber(t, S) <= MaxTurns}
            /\ \A r \in Sessions \ {s} : OfSession(r)' = OfSession(r)
<1>. DEFINE turn == [id |-> last_id + 1, time |-> now]
            S == OfSession(s) \cup {turn}
            all == rows \cup {<<s, turn>>}
<1>1. turn \in Turns
  BY MemoryAssumption DEF AddTurn, TypeInv, MemoryTypeOK, Turns
<1>. HIDE DEF turn
<1>2. rows \subseteq Sessions \X Turns /\ IsFiniteSet(rows)
  BY DEF TypeInv, MemoryTypeOK
<1>3. all \subseteq Sessions \X Turns /\ IsFiniteSet(all)
  <2>1. <<s, turn>> \in Sessions \X Turns
    BY <1>1
  <2>. QED
    BY <1>2, <2>1, FS_AddElement
<1>4. rows' = Trimmed(s, all)
  BY DEF AddTurn, turn
<1>5. TurnsOf(s, all) = S /\ \A r \in Sessions \ {s} : TurnsOf(r, all) = OfSession(r)
  <2>1. \A r \in Sessions : \A t : t \in TurnsOf(r, all) <=> <<r, t>> \in all
    BY <1>3, TurnsAre
  <2>2. \A r \in Sessions : \A t : t \in OfSession(r) <=> <<r, t>> \in rows
    BY <1>2, TurnsAre DEF OfSession
  <2>3. \A r \in Sessions : \A t : <<r, t>> \in all <=> <<r, t>> \in rows \/ (r = s /\ t = turn)
    OBVIOUS
  <2>. QED
    BY <2>1, <2>2, <2>3
<1>. HIDE DEF all, S
<1>6. S \subseteq Turns /\ IsFiniteSet(S)
  BY <1>3, <1>5, TurnsAre, TurnsAreFinite
<1>7. rows' \in SUBSET all
  BY <1>4 DEF Trimmed
<1>8. rows' \subseteq Sessions \X Turns /\ IsFiniteSet(rows')
  BY <1>3, <1>7, FS_Subset
<1>9. \A r \in Sessions : OfSession(r)' = TurnsOf(r, Trimmed(s, all))
  BY <1>4 DEF OfSession
<1>10. OfSession(s)' = {t \in S : RowNumber(t, S) <= MaxTurns}
  BY <1>3, <1>5, <1>9, TrimmedTurns
<1>11. \A r \in Sessions \ {s} : OfSession(r)' = OfSession(r)
  BY <1>3, <1>5, <1>9, TrimmedTurns
<1>. QED
  BY <1>1, <1>6, <1>8, <1>10, <1>11 DEF S, turn

LEMMA TypeStep == TypeInv /\ [MemoryNext]_memory => TypeInv'
<1>. SUFFICES ASSUME TypeInv, [MemoryNext]_memory PROVE TypeInv'
  OBVIOUS
<1>. USE MemoryAssumption DEF TypeInv, MemoryTypeOK
<1>1. ASSUME NEW s \in Sessions, AddTurn(s) PROVE TypeInv'
  <2>. DEFINE turn == [id |-> last_id + 1, time |-> now]
              S == OfSession(s) \cup {turn}
  <2>1. /\ turn \in Turns /\ S \subseteq Turns /\ IsFiniteSet(S)
        /\ rows' \subseteq Sessions \X Turns /\ IsFiniteSet(rows')
        /\ OfSession(s)' = {t \in S : RowNumber(t, S) <= MaxTurns}
        /\ \A r \in Sessions \ {s} : OfSession(r)' = OfSession(r)
    BY <1>1, AddTurnTable
  <2>2. deques' = [deques EXCEPT ![s] = Appended(s, turn)]
    BY <1>1 DEF AddTurn
  <2>3. last_id' \in 0..MaxIds /\ now' = now /\ steady' = steady
    BY <1>1 DEF AddTurn
  <2>. HIDE DEF turn, S
  <2>4. Appended(s, turn) \in Seq(Turns) /\ Len(Appended(s, turn)) <= MaxTurns
    BY <2>1, AppendedKeeps
  <2>5. deques' \in [Sessions -> Seq(Turns)] /\ \A r \in Sessions : Len(deques'[r]) <= MaxTurns
    BY <2>2, <2>4
  <2>6. Cardinality(OfSession(s)') <= MaxTurns
    BY <2>1, NumberedAreFew
  <2>7. \A r \in Sessions : Cardinality(OfSession(r)') <= MaxTurns
    BY <2>1, <2>6
  <2>. QED
    BY <2>1, <2>3, <2>5, <2>7
<1>2. ASSUME NEW s \in Sessions, ClearSession(s) PROVE TypeInv'
  <2>1. rows' \subseteq rows /\ last_id' = last_id /\ now' = now /\ steady' = steady
    BY <1>2 DEF ClearSession
  <2>2. deques' \in [Sessions -> Seq(Turns)] /\ \A r \in Sessions : Len(deques'[r]) <= MaxTurns
    <3>1. <<>> \in Seq(Turns) /\ Len(<<>>) = 0
      OBVIOUS
    <3>. QED
      BY <1>2, <3>1 DEF ClearSession
  <2>. QED
    BY <2>1, <2>2, FewerRows
<1>3. CASE CleanupExpired
  <2>1. rows' \subseteq rows /\ last_id' = last_id /\ now' = now /\ steady' = steady
    BY <1>3 DEF CleanupExpired, UnexpiredRows
  <2>2. deques' \in [Sessions -> Seq(Turns)] /\ \A r \in Sessions : Len(deques'[r]) <= MaxTurns
    <3>1. <<>> \in Seq(Turns) /\ Len(<<>>) = 0
      OBVIOUS
    <3>. QED
      BY <1>3, <3>1 DEF CleanupExpired
  <2>. QED
    BY <2>1, <2>2, FewerRows
<1>4. CASE Tick \/ ClockStepsBack
  <2>1. rows' = rows /\ deques' = deques /\ last_id' = last_id /\ now' \in 0..MaxTime /\ steady' \in BOOLEAN
    <3>1. CASE Tick
      BY <3>1 DEF Tick
    <3>2. CASE ClockStepsBack
      <4>1. now' = now - 1 /\ now > 0 /\ now \in 0..MaxTime
        BY <3>2 DEF ClockStepsBack
      <4>2. now' \in 0..MaxTime
        BY <4>1
      <4>3. steady' \in BOOLEAN
        BY <3>2 DEF ClockStepsBack
      <4>. QED
        BY <3>2, <4>2, <4>3 DEF ClockStepsBack
    <3>. QED
      BY <1>4, <3>1, <3>2
  <2>. QED
    BY <2>1, FewerRows
<1>5. CASE UNCHANGED memory
  <2>1. rows' = rows /\ deques' = deques /\ last_id' = last_id /\ now' = now /\ steady' = steady
    BY <1>5 DEF memory
  <2>. QED
    BY <2>1, FewerRows
<1>. QED
  BY <1>1, <1>2, <1>3, <1>4, <1>5 DEF MemoryNext

\* However many turns are added and whatever the clock does, both memories
\* keep within max_turns turns of a session (memory.py 37-47, 225-237).
THEOREM MemoryTypeCorrect == MemorySpec => []MemoryTypeOK
<1>1. TypeInv => MemoryTypeOK
  BY DEF TypeInv
<1>. QED
  BY <1>1, TypeInit, TypeStep, PTL DEF MemorySpec

-----------------------------------------------------------------------------
(* The two memories under a steady clock.                                  *)

\* The turns of a deque were made one after the other, until now, and what the
\* table has of a session is their end, the last one included.
Chronological(h) == \A i, j \in DOMAIN h : i < j => h[i].id < h[j].id /\ h[i].time <= h[j].time
Past(h) == \A i \in DOMAIN h : h[i].id <= last_id /\ h[i].time <= now
Ends(S, h) ==
  /\ S \subseteq {h[i] : i \in DOMAIN h}
  /\ \A i, j \in DOMAIN h : i < j /\ h[i] \in S => h[j] \in S
  /\ h # <<>> => h[Len(h)] \in S
SteadyInv ==
  steady => \A s \in Sessions : /\ Chronological(deques[s]) /\ Past(deques[s])
                                /\ Ends(OfSession(s), deques[s])

LEMMA Deques ==
  ASSUME NEW h \in Seq(Turns)
  PROVE  /\ Len(h) \in Nat /\ DOMAIN h = 1..Len(h) /\ h \in [1..Len(h) -> Turns]
         /\ \A i \in 1..Len(h) : h[i] \in Turns /\ h[i].id \in Int /\ h[i].time \in Int
         /\ h # <<>> <=> Len(h) # 0
         /\ Chronological(h) => Ascending(h)
<1>1. /\ Len(h) \in Nat /\ DOMAIN h = 1..Len(h) /\ h \in [1..Len(h) -> Turns]
      /\ h # <<>> <=> Len(h) # 0
  OBVIOUS
<1>2. \A t \in Turns : t.id \in Int /\ t.time \in Int
  BY MemoryAssumption DEF Turns
<1>3. \A i \in 1..Len(h) : h[i] \in Turns /\ h[i].id \in Int /\ h[i].time \in Int
  BY <1>1, <1>2
<1>4. ASSUME Chronological(h) PROVE Ascending(h)
  BY <1>1, <1>3, <1>4 DEF Chronological, Ascending, Newer
<1>. QED
  BY <1>1, <1>3, <1>4

\* A turn of the table is numbered by its place from the end.
LEMMA NumberInDeque ==
  ASSUME NEW h \in Seq(Turns), Chronological(h),
         NEW S, S \subseteq Turns, Ends(S, h), NEW i \in 1..Len(h), h[i] \in S
  PROVE  RowNumber(h[i], S) = Len(h) - i + 1
<1>. DEFINE n == Len(h)
            A == {u \in S : Newer(u, h[i])}
            B == {h[j] : j \in (i + 1)..n}
<1>1. n \in Nat /\ DOMAIN h = 1..n /\ h \in [1..n -> Turns] /\ Ascending(h)
  BY Deques
<1>2. \A j \in 1..n : Newer(h[j], h[i]) <=> i < j
  <2>. SUFFICES ASSUME NEW j \in 1..n PROVE Newer(h[j], h[i]) <=> i < j
    OBVIOUS
  <2>1. h[i] \in Turns /\ h[j] \in Turns
    BY <1>1
  <2>2. /\ i < j => Newer(h[j], h[i])
        /\ j < i => Newer(h[i], h[j])
    BY <1>1 DEF Ascending
  <2>3. i < j \/ (j < i /\ ~(i < j)) \/ (i = j /\ ~(i < j))
    BY <1>1
  <2>. QED
    BY <2>1, <2>2, <2>3, NewerOrders
<1>3. A = B
  <2>1. \A j \in 1..n : i < j => h[j] \in S
    BY <1>1 DEF Ends
  <2>2. \A u \in S : \E j \in 1..n : u = h[j]
    BY <1>1 DEF Ends
  <2>3. \A j \in (i + 1)..n : j \in 1..n /\ i < j
    BY <1>1
  <2>4. \A j \in 1..n : i < j => j \in (i + 1)..n
    BY <1>1
  <2>5. A \subseteq B
    BY <1>2, <2>2, <2>4
  <2>6. B \subseteq A
    BY <1>2, <2>1, <2>3
  <2>. QED
    BY <2>5, <2>6
<1>4. Cardinality(B) = n - (i + 1) + 1
  <2>1. i + 1 \in 1..(n + 1)
    BY <1>1
  <2>. QED
    BY <1>1, <2>1, TurnsBehind
<1>5. RowNumber(h[i], S) = Cardinality(A) + 1
  BY DEF RowNumber
<1>. HIDE DEF A, B
<1>. QED
  BY <1>1, <1>3, <1>4, <1>5

LEMMA AppendEnds ==
  ASSUME NEW h \in Seq(Turns), Chronological(h), NEW S, Ends(S, h),
         NEW turn \in Turns, \A i \in 1..Len(h) : h[i].id < turn.id /\ h[i].time <= turn.time
  PROVE  Chronological(Append(h, turn)) /\ Ends(S \cup {turn}, Append(h, turn))
<1>. DEFINE all == Append(h, turn)
            n == Len(h)
<1>1. n \in Nat /\ DOMAIN h = 1..n
  BY Deques
<1>2. /\ all \in Seq(Turns) /\ Len(all) = n + 1 /\ DOMAIN all = 1..(n + 1)
      /\ \A i \in 1..n : all[i] = h[i]
      /\ all[n + 1] = turn
  BY AppendProperties
<1>. HIDE DEF all, n
<1>3. \A i, j \in 1..(n + 1) : i < j => i \in 1..n /\ (j \in 1..n \/ j = n + 1)
  BY <1>1
<1>4. Chronological(all)
  BY <1>1, <1>2, <1>3 DEF Chronological, n
<1>5. Ends(S \cup {turn}, all)
  <2>1. S \cup {turn} \subseteq {all[i] : i \in DOMAIN all}
    <3>1. turn \in {all[i] : i \in DOMAIN all}
      BY <1>1, <1>2
    <3>2. ASSUME NEW t \in S PROVE t \in {all[i] : i \in DOMAIN all}
      <4>1. PICK i \in 1..n : t = h[i]
        BY <1>1 DEF Ends
      <4>2. i \in DOMAIN all /\ all[i] = t
        BY <1>1, <1>2, <4>1
      <4>. QED
        BY <4>2
    <3>. QED
      BY <3>1, <3>2
  <2>2. ASSUME NEW i \in DOMAIN all, NEW j \in DOMAIN all, i < j, all[i] \in S \cup {turn}
        PROVE  all[j] \in S \cup {turn}
    <3>1. i \in 1..n /\ (j \in 1..n \/ j = n + 1) /\ all[i] = h[i]
      BY <1>2, <1>3, <2>2
    <3>2. h[i] # turn
      <4>1. h[i].id < turn.id /\ h[i].id \in Int
        BY <3>1, Deques DEF n
      <4>. QED
        BY <4>1
    <3>3. h[i] \in S
      BY <2>2, <3>1, <3>2
    <3>4. CASE j \in 1..n
      BY <1>1, <1>2, <2>2, <3>1, <3>3, <3>4 DEF Ends
    <3>5. CASE j = n + 1
      BY <1>2, <3>5
    <3>. QED
      BY <3>1, <3>4, <3>5
  <2>3. all[Len(all)] \in S \cup {turn}
    BY <1>2
  <2>. QED
    BY <2>1, <2>2, <2>3 DEF Ends
<1>. QED
  BY <1>4, <1>5 DEF all

\* The deque drops its first turn when the table drops the one with the
\* number above max_turns.
LEMMA TrimEnds ==
  ASSUME NEW h \in Seq(Turns), Chronological(h), NEW S, S \subseteq Turns, Ends(S, h),
         Len(h) \in 1..(MaxTurns + 1),
         NEW d \in Seq(Turns), Len(h) - Len(d) = (IF Len(h) > MaxTurns THEN 1 ELSE 0),
         \A i \in 1..Len(d) : d[i] = h[(Len(h) - Len(d)) + i]
  PROVE  Chronological(d) /\ Ends({t \in S : RowNumber(t, S) <= MaxTurns}, d)
<1>. DEFINE K == {t \in S : RowNumber(t, S) <= MaxTurns}
            n == Len(h)
            m == Len(d)
            k == n - m
<1>1. n \in Nat /\ m \in Nat /\ DOMAIN h = 1..n /\ DOMAIN d = 1..m /\ MaxTurns \in Nat /\ MaxTurns > 0
  BY Deques, MemoryAssumption
<1>2. k \in {0, 1} /\ n = m + k /\ n >= 1 /\ (k = 0 => n <= MaxTurns) /\ (k = 1 => n = MaxTurns + 1)
  <2>. HIDE DEF n, m
  <2>1. n \in 1..(MaxTurns + 1) /\ k = (IF n > MaxTurns THEN 1 ELSE 0)
    BY DEF n, m
  <2>. QED
    BY <1>1, <2>1
<1>3. \A i \in 1..m : k + i \in 1..n /\ d[i] = h[k + i]
  <2>1. \A i \in 1..m : d[i] = h[k + i]
    OBVIOUS
  <2>. HIDE DEF n, m, k
  <2>. QED
    BY <1>1, <1>2, <2>1
<1>. HIDE DEF k
<1>4. Chronological(d)
  <2>. HIDE DEF n, m
  <2>1. \A i, j \in 1..m : i < j => k + i < k + j
    BY <1>1, <1>2
  <2>2. \A i, j \in 1..n : i < j => h[i].id < h[j].id /\ h[i].time <= h[j].time
    BY <1>1 DEF Chronological
  <2>3. \A i, j \in 1..m : i < j => d[i].id < d[j].id /\ d[i].time <= d[j].time
    BY <1>3, <2>1, <2>2
  <2>. QED
    BY <1>1, <2>3 DEF Chronological
<1>5. \A i \in 1..n : h[i] \in S => RowNumber(h[i], S) = n - i + 1
  BY NumberInDeque
<1>. HIDE DEF n, m
<1>6. \A i \in 1..n : h[i] \in K <=> h[i] \in S /\ i > k
  <2>1. \A i \in 1..n : n - i + 1 <= MaxTurns <=> i > k
    BY <1>1, <1>2
  <2>. QED
    BY <1>5, <2>1
<1>7. K \subseteq {d[i] : i \in DOMAIN d}
  <2>. SUFFICES ASSUME NEW t \in K PROVE \E i \in 1..m : t = d[i]
    BY <1>1
  <2>1. PICK i \in 1..n : t = h[i]
    BY <1>1 DEF Ends
  <2>2. i > k
    BY <1>6, <2>1
  <2>3. i - k \in 1..m /\ k + (i - k) = i
    BY <1>1, <1>2, <2>2
  <2>. QED
    BY <1>3, <2>1, <2>3
<1>8. ASSUME NEW i \in DOMAIN d, NEW j \in DOMAIN d, i < j, d[i] \in K PROVE d[j] \in K
  <2>1. /\ k + i \in 1..n /\ k + j \in 1..n /\ k + i < k + j /\ k + j > k
        /\ d[i] = h[k + i] /\ d[j] = h[k + j]
    <3>1. i \in 1..m /\ j \in 1..m
      BY <1>1, <1>8
    <3>2. k + i < k + j /\ k + j > k
      BY <1>1, <1>2, <1>8, <3>1
    <3>. QED
      BY <1>3, <3>1, <3>2
  <2>2. h[k + i] \in S
    BY <1>8, <2>1
  <2>3. h[k + j] \in S
    BY <1>1, <2>1, <2>2 DEF Ends
  <2>. QED
    BY <1>6, <2>1, <2>3
<1>9. d # <<>> => d[Len(d)] \in K
  <2>. SUFFICES ASSUME d # <<>> PROVE d[m] \in K
    BY DEF m
  <2>1. Len(d) # 0
    BY Deques
  <2>2. m # 0
    BY <2>1 DEF m
  <2>3. m \in 1..m /\ k + m = n
    BY <1>1, <1>2, <2>2
  <2>4. h # <<>> /\ h[n] \in S /\ n > k /\ n \in 1..n
    <3>1. h # <<>>
      BY <1>1, <1>2, Deques DEF n
    <3>. QED
      BY <1>1, <1>2, <2>3, <3>1 DEF Ends, n
  <2>5. d[m] = h[n]
    BY <1>3, <2>3
  <2>. QED
    BY <1>6, <2>4, <2>5
<1>. QED
  BY <1>4, <1>7, <1>8, <1>9 DEF Ends

LEMMA NothingEnds == Chronological(<<>>) /\ Past(<<>>) /\ Ends({}, <<>>)
<1>1. DOMAIN <<>> = {}
  OBVIOUS
<1>. QED
  BY <1>1 DEF Chronological, Past, Ends

LEMMA SteadyInit == MemoryInit => SteadyInv
<1>. SUFFICES ASSUME MemoryInit, NEW s \in Sessions PROVE deques[s] = <<>> /\ OfSession(s) = {}
  BY NothingEnds DEF SteadyInv
<1>. QED
  BY DEF MemoryInit, OfSession, TurnsOf

LEMMA AddTurnSteady ==
  ASSUME TypeInv, SteadyInv, steady, NEW s \in Sessions, AddTurn(s)
  PROVE  /\ SteadyInv' /\ deques[s]' # <<>>
         /\ Last(deques[s]') = [id |-> last_id + 1, time |-> now]
<1>. DEFINE turn == [id |-> last_id + 1, time |-> now]
            S == OfSession(s) \cup {turn}
            h == deques[s]
            d == Appended(s, turn)
            all == Append(h, turn)
<1>1. /\ turn \in Turns /\ S \subseteq Turns /\ IsFiniteSet(S)
      /\ OfSession(s)' = {t \in S : RowNumber(t, S) <= MaxTurns}
      /\ \A r \in Sessions \ {s} : OfSession(r)' = OfSession(r)
  BY AddTurnTable
<1>2. deques' = [deques EXCEPT ![s] = d] /\ last_id' = last_id + 1 /\ now' = now /\ steady' = steady
  BY DEF AddTurn
<1>3. /\ deques \in [Sessions -> Seq(Turns)] /\ Len(h) <= MaxTurns
      /\ last_id \in Int /\ now \in Int /\ MaxTurns \in Nat /\ MaxTurns > 0
  BY MemoryAssumption DEF TypeInv, MemoryTypeOK
<1>4. turn.id = last_id + 1 /\ turn.time = now
  OBVIOUS
<1>. HIDE DEF turn, S, d
<1>5. h \in Seq(Turns) /\ Chronological(h) /\ Past(h) /\ Ends(OfSession(s), h)
  BY <1>3 DEF SteadyInv
<1>6. \A i \in 1..Len(h) : h[i].id < turn.id /\ h[i].time <= turn.time
  <2>1. \A i \in 1..Len(h) : h[i].id \in Int /\ h[i].id <= last_id /\ h[i].time <= now
    BY <1>5, Deques DEF Past
  <2>. QED
    BY <1>3, <1>4, <2>1
<1>7. Chronological(all) /\ Ends(S, all) /\ all \in Seq(Turns) /\ Len(all) = Len(h) + 1
      /\ all[Len(all)] = turn /\ \A i \in 1..Len(all) : all[i].id <= last_id + 1 /\ all[i].time <= now
  <2>1. Chronological(all) /\ Ends(S, all)
    BY <1>1, <1>5, <1>6, AppendEnds DEF S
  <2>2. /\ all \in Seq(Turns) /\ Len(all) = Len(h) + 1 /\ all[Len(h) + 1] = turn
        /\ \A i \in 1..Len(h) : all[i] = h[i]
    BY <1>1, <1>5, AppendProperties
  <2>3. Len(h) \in Nat /\ \A i \in 1..Len(h) : h[i].id \in Int /\ h[i].id <= last_id /\ h[i].time <= now
    BY <1>5, Deques DEF Past
  <2>. HIDE DEF h, all
  <2>4. ASSUME NEW i \in 1..(Len(h) + 1) PROVE all[i].id <= last_id + 1 /\ all[i].time <= now
    <3>1. CASE i = Len(h) + 1
      BY <1>3, <1>4, <2>2, <3>1
    <3>2. CASE i # Len(h) + 1
      <4>1. i \in 1..Len(h)
        BY <2>3, <3>2
      <4>. QED
        BY <1>3, <2>2, <2>3, <4>1
    <3>. QED
      BY <3>1, <3>2
  <2>. QED
    BY <2>1, <2>2, <2>4
<1>8. /\ d \in Seq(Turns) /\ Len(d) \in 1..MaxTurns
      /\ Len(all) - Len(d) = (IF Len(all) > MaxTurns THEN 1 ELSE 0)
      /\ \A i \in 1..Len(d) : d[i] = all[(Len(all) - Len(d)) + i]
  BY <1>1, <1>3, AppendedKeeps DEF d
<1>9. Len(h) \in Nat
  BY <1>5
<1>. HIDE DEF h, all
<1>10. Len(all) \in 1..(MaxTurns + 1)
  BY <1>3, <1>7, <1>9
<1>11. Chronological(d) /\ Ends(OfSession(s)', d)
  <2>1. Chronological(d) /\ Ends({t \in S : RowNumber(t, S) <= MaxTurns}, d)
    BY <1>1, <1>7, <1>8, <1>10, TrimEnds
  <2>. QED
    BY <1>1, <2>1
<1>12. /\ \A i \in 1..Len(d) : (Len(all) - Len(d)) + i \in 1..Len(all)
       /\ (Len(all) - Len(d)) + Len(d) = Len(all)
  BY <1>3, <1>8, <1>10
<1>13. d[Len(d)] = turn /\ d # <<>>
  <2>1. Len(d) \in 1..Len(d)
    BY <1>8
  <2>2. d[Len(d)] = all[Len(all)]
    BY <1>8, <1>12, <2>1
  <2>. QED
    BY <1>7, <1>8, <2>2
<1>14. \A i \in DOMAIN d : d[i].id <= last_id' /\ d[i].time <= now'
  <2>1. \A i \in 1..Len(d) : d[i].id <= last_id + 1 /\ d[i].time <= now
    BY <1>7, <1>8, <1>12
  <2>2. DOMAIN d = 1..Len(d)
    BY <1>8
  <2>. QED
    BY <1>2, <2>1, <2>2
<1>15. deques'[s] = d
  BY <1>2, <1>3
<1>16. ASSUME NEW r \in Sessions
       PROVE  /\ Chronological(deques[r])' /\ Past(deques[r])' /\ Ends(OfSession(r), deques[r])'
  <2>1. CASE r = s
    BY <1>11, <1>14, <1>15, <2>1 DEF Chronological, Past, Ends
  <2>2. CASE r # s
    <3>1. deques'[r] = deques[r] /\ OfSession(r)' = OfSession(r) /\ deques[r] \in Seq(Turns)
      BY <1>1, <1>2, <1>3, <2>2
    <3>2. Chronological(deques[r]) /\ Past(deques[r]) /\ Ends(OfSession(r), deques[r])
      BY DEF SteadyInv
    <3>3. \A i \in DOMAIN deques[r] : deques[r][i].id \in Int
      BY <3>1, Deques
    <3>4. \A i \in DOMAIN deques[r] : deques[r][i].id <= last_id + 1 /\ deques[r][i].time <= now
      BY <1>3, <3>2, <3>3 DEF Past
    <3>. QED
      BY <1>2, <3>1, <3>2, <3>4 DEF Chronological, Past, Ends
  <2>. QED
    BY <2>1, <2>2
<1>17. SteadyInv'
  BY <1>16 DEF SteadyInv
<1>. QED
  BY <1>13, <1>15, <1>17 DEF Last, turn

\* A session is dropped when its last turn is too old, and with it all its
\* turns are; else the table keeps the last one.
LEMMA CleanupEnds ==
  ASSUME NEW h \in Seq(Turns), Chronological(h), NEW S, S \subseteq Turns, Ends(S, h), h # <<>>,
         NEW cutoff \in Int
  PROVE  LET K == {t \in S : t.time >= cutoff}
         IN IF h[Len(h)].time < cutoff THEN K = {} ELSE Ends(K, h)
<1>. DEFINE K == {t \in S : t.time >= cutoff}
            n == Len(h)
<1>1. n \in Nat /\ n # 0 /\ DOMAIN h = 1..n /\ \A i \in 1..n : h[i].time \in Int
  BY Deques
<1>. HIDE DEF n
<1>2. n \in 1..n
  BY <1>1
<1>3. \A i, j \in 1..n : i < j => h[i].time <= h[j].time
  BY <1>1 DEF Chronological
<1>4. \A i \in 1..n : i < n \/ i = n
  BY <1>1
<1>5. ASSUME h[n].time < cutoff PROVE K = {}
  <2>. SUFFICES ASSUME NEW t \in S, t.time >= cutoff PROVE FALSE
    OBVIOUS
  <2>1. PICK i \in 1..n : t = h[i]
    BY <1>1 DEF Ends
  <2>2. h[i].time <= h[n].time
    BY <1>1, <1>2, <1>3, <1>4
  <2>. QED
    BY <1>1, <1>2, <1>5, <2>1, <2>2
<1>6. ASSUME ~(h[n].time < cutoff) PROVE Ends(K, h)
  <2>1. h[n] \in S /\ h[n].time >= cutoff
    BY <1>1, <1>2, <1>6 DEF Ends, n
  <2>2. ASSUME NEW i \in 1..n, NEW j \in 1..n, i < j, h[i] \in K PROVE h[j] \in K
    <3>1. h[j] \in S
      BY <1>1, <2>2 DEF Ends
    <3>2. h[j].time >= cutoff
      BY <1>1, <1>3, <2>2
    <3>. QED
      BY <3>1, <3>2
  <2>. QED
    BY <1>1, <2>1, <2>2 DEF Ends, n
<1>. QED
  BY <1>5, <1>6 DEF n

LEMMA SteadyStep == TypeInv /\ SteadyInv /\ [MemoryNext]_memory => SteadyInv'
<1>. SUFFICES ASSUME TypeInv, SteadyInv, [MemoryNext]_memory, steady' PROVE SteadyInv'
  BY DEF SteadyInv
<1>1. /\ deques \in [Sessions -> Seq(Turns)] /\ rows \subseteq Sessions \X Turns
      /\ last_id \in Int /\ now \in Int /\ TTL \in Nat
  BY MemoryAssumption DEF TypeInv, MemoryTypeOK
<1>2. ASSUME steady, rows' = rows, deques' = deques, last_id' = last_id, now' \in Int, now' >= now
      PROVE  SteadyInv'
  <2>. SUFFICES ASSUME NEW s \in Sessions
                PROVE  (Chronological(deques[s]) /\ Past(deques[s]) /\ Ends(OfSession(s), deques[s]))'
    BY DEF SteadyInv
  <2>1. Chronological(deques[s]) /\ Past(deques[s]) /\ Ends(OfSession(s), deques[s]) /\ deques[s] \in Seq(Turns)
    BY <1>1, <1>2 DEF SteadyInv
  <2>2. OfSession(s)' = OfSession(s)
    BY <1>2 DEF OfSession
  <2>3. \A i \in DOMAIN deques[s] : deques[s][i].time <= now'
    <3>1. \A i \in DOMAIN deques[s] : deques[s][i].time <= now /\ deques[s][i].time \in Int
      BY <2>1, Deques DEF Past
    <3>. QED
      BY <1>1, <1>2, <3>1
  <2>. QED
    BY <1>2, <2>1, <2>2, <2>3 DEF Chronological, Past, Ends
<1>3. ASSUME NEW s \in Sessions, AddTurn(s) PROVE SteadyInv'
  <2>1. steady
    BY <1>3 DEF AddTurn
  <2>. QED
    BY <1>3, <2>1, AddTurnSteady
<1>4. ASSUME steady, last_id' = last_id, now' = now,
             \A s \in Sessions :
               \/ deques'[s] = deques[s] /\ Ends(OfSession(s)', deques[s])
               \/ deques'[s] = <<>> /\ OfSession(s)' = {}
      PROVE  SteadyInv'
  <2>. SUFFICES ASSUME NEW s \in Sessions
                PROVE  (Chronological(deques[s]) /\ Past(deques[s]) /\ Ends(OfSession(s), deques[s]))'
    BY DEF SteadyInv
  <2>1. Chronological(deques[s]) /\ Past(deques[s])
    BY <1>4 DEF SteadyInv
  <2>2. CASE deques'[s] = deques[s] /\ Ends(OfSession(s)', deques[s])
    BY <1>4, <2>1, <2>2 DEF Chronological, Past, Ends
  <2>3. CASE deques'[s] = <<>> /\ OfSession(s)' = {}
    BY <1>4, <2>3, NothingEnds DEF Chronological, Past, Ends
  <2>. QED
    BY <1>4, <2>2, <2>3
<1>5. ASSUME NEW s \in Sessions, ClearSession(s) PROVE SteadyInv'
  <2>1. steady /\ last_id' = last_id /\ now' = now
    BY <1>5 DEF ClearSession
  <2>2. \A r \in Sessions : OfSession(r)' = IF r = s THEN {} ELSE OfSession(r)
    BY <1>5 DEF ClearSession, OfSession, TurnsOf
  <2>3. \A r \in Sessions : deques'[r] = IF r = s THEN <<>> ELSE deques[r]
    BY <1>1, <1>5 DEF ClearSession
  <2>4. \A r \in Sessions : Ends(OfSession(r), deques[r])
    BY <2>1 DEF SteadyInv
  <2>. QED
    BY <1>4, <2>1, <2>2, <2>3, <2>4
<1>6. CASE CleanupExpired
  <2>1. steady /\ last_id' = last_id /\ now' = now
    BY <1>6 DEF CleanupExpired
  <2>. DEFINE cutoff == now - TTL
              K(s) == {t \in OfSession(s) : t.time >= cutoff}
  <2>2. ASSUME NEW s \in Sessions PROVE OfSession(s)' = K(s)
    <3>1. rows' = {row \in rows : row[2].time >= cutoff}
      BY <1>6 DEF CleanupExpired, UnexpiredRows
    <3>. QED
      BY <3>1 DEF OfSession, TurnsOf
  <2>3. ASSUME NEW s \in Sessions
        PROVE  \/ deques'[s] = deques[s] /\ Ends(OfSession(s)', deques[s])
               \/ deques'[s] = <<>> /\ OfSession(s)' = {}
    <3>1. /\ deques[s] \in Seq(Turns) /\ Chronological(deques[s]) /\ Ends(OfSession(s), deques[s])
          /\ OfSession(s) \subseteq Turns
      BY <1>1, <2>1, TurnsAre DEF SteadyInv, OfSession
    <3>2. deques'[s] = IF Expired(s) THEN <<>> ELSE deques[s]
      BY <1>6 DEF CleanupExpired
    <3>3. CASE deques[s] = <<>>
      <4>1. OfSession(s) = {}
        BY <3>1, <3>3 DEF Ends
      <4>. QED
        BY <2>2, <3>2, <3>3, <4>1
    <3>4. CASE deques[s] # <<>>
      <4>. DEFINE time == deques[s][Len(deques[s])].time
      <4>1. time \in Int
        <5>1. Len(deques[s]) \in 1..Len(deques[s])
          BY <3>1, <3>4
        <5>. QED
          BY <3>1, <5>1, Deques
      <4>2. Expired(s) <=> time < cutoff
        <5>. HIDE DEF time
        <5>1. now - time > TTL <=> time < cutoff
          BY <1>1, <4>1
        <5>. QED
          BY <3>4, <5>1 DEF Expired, Last, time
      <4>3. cutoff \in Int
        BY <1>1
      <4>. HIDE DEF cutoff
      <4>4. IF time < cutoff THEN K(s) = {} ELSE Ends(K(s), deques[s])
        BY <3>1, <3>4, <4>3, CleanupEnds
      <4>. QED
        BY <2>2, <3>2, <4>2, <4>4
    <3>. QED
      BY <3>3, <3>4
  <2>. QED
    BY <1>4, <2>1, <2>3
<1>7. CASE Tick
  <2>1. rows' = rows /\ deques' = deques /\ last_id' = last_id /\ now' = now + 1 /\ steady
    BY <1>7 DEF Tick
  <2>. QED
    BY <1>1, <1>2, <2>1
<1>8. ~ClockStepsBack
  BY DEF ClockStepsBack
<1>9. CASE UNCHANGED memory
  <2>1. rows' = rows /\ deques' = deques /\ last_id' = last_id /\ now' = now /\ steady
    BY <1>9 DEF memory
  <2>. QED
    BY <1>1, <1>2, <2>1
<1>. QED
  BY <1>3, <1>5, <1>6, <1>7, <1>8, <1>9 DEF MemoryNext

-----------------------------------------------------------------------------
(* Reading both.                                                           *)

LEMMA NewestOf ==
  ASSUME NEW h \in Seq(Turns), NEW n \in Nat \ {0}
  PROVE  LET k == IF Len(h) > n THEN n ELSE Len(h)
         IN /\ Newest(h, n) \in Seq(Turns) /\ Len(Newest(h, n)) = k
            /\ \A i \in 1..k : Newest(h, n)[i] = h[(Len(h) - k) + i]
<1>. DEFINE k == IF Len(h) > n THEN n ELSE Len(h)
            m == (Len(h) - k) + 1
            d == SubSeq(h, m, Len(h))
<1>1. Len(h) \in Nat
  OBVIOUS
<1>2. k \in 0..Len(h) /\ m \in 1..(Len(h) + 1)
  <2>1. k \in 0..Len(h)
    BY <1>1
  <2>. HIDE DEF k
  <2>. QED
    BY <1>1, <2>1
<1>3. m = IF Len(h) > n THEN Len(h) - n + 1 ELSE 1
  BY <1>1
<1>4. Newest(h, n) = d
  BY <1>3 DEF Newest
<1>. HIDE DEF k
<1>5. \A i \in m..Len(h) : h[i] \in Turns
  BY <1>1, <1>2
<1>6. /\ d \in Seq(Turns) /\ Len(d) = IF m <= Len(h) THEN Len(h) - m + 1 ELSE 0
      /\ \A i \in 1..(Len(h) - m + 1) : d[i] = h[m + i - 1]
  <2>. HIDE DEF m
  <2>. QED
    BY <1>1, <1>2, <1>5, SubSeqProperties
<1>. HIDE DEF d
<1>7. Len(h) - m + 1 = k /\ Len(d) = k
  BY <1>1, <1>2, <1>6
<1>8. ASSUME NEW i \in 1..k PROVE d[i] = h[(Len(h) - k) + i]
  <2>1. d[i] = h[m + i - 1]
    <3>. HIDE DEF m
    <3>. QED
      BY <1>6, <1>7
  <2>2. m + i - 1 = (Len(h) - k) + i
    BY <1>1, <1>2
  <2>. QED
    BY <2>1, <2>2
<1>. QED
  BY <1>4, <1>6, <1>7, <1>8 DEF k

LEMMA SuffixOf ==
  ASSUME NEW g \in Seq(Turns), NEW h \in Seq(Turns), Len(g) <= Len(h),
         \A i \in 1..Len(g) : g[i] = h[(Len(h) - Len(g)) + i]
  PROVE  IsSuffix(g, h)
<1>. DEFINE m == Len(g)
            n == Len(h)
            rg == Reverse(g)
            rh == Reverse(h)
<1>1. m \in Nat /\ n \in Nat
  OBVIOUS
<1>2. rg \in [1..m -> Turns] /\ \A i \in 1..m : rg[i] = g[(m - i) + 1]
  <2>1. \A i \in 1..m : (m - i) + 1 \in 1..m
    BY <1>1
  <2>. QED
    BY <2>1 DEF Reverse
<1>3. rh \in [1..n -> Turns] /\ \A i \in 1..n : rh[i] = h[(n - i) + 1]
  <2>1. \A i \in 1..n : (n - i) + 1 \in 1..n
    BY <1>1
  <2>. QED
    BY <2>1 DEF Reverse
<1>4. \A i \in 1..m : g[i] = h[(n - m) + i]
  OBVIOUS
<1>5. m <= n
  OBVIOUS
<1>. HIDE DEF m, n, rg, rh
<1>6. rg \in Seq(Turns) /\ Len(rg) = m /\ rh \in Seq(Turns) /\ Len(rh) = n
  BY <1>1, <1>2, <1>3
<1>7. ASSUME NEW i \in 1..m PROVE rg[i] = rh[i]
  <2>1. (m - i) + 1 \in 1..m /\ i \in 1..n /\ (n - m) + ((m - i) + 1) = (n - i) + 1
    BY <1>1, <1>5
  <2>2. g[(m - i) + 1] = h[(n - m) + ((m - i) + 1)]
    BY <1>4, <2>1
  <2>. QED
    BY <1>2, <1>3, <2>1, <2>2
<1>8. SubSeq(rg, 1, m) = SubSeq(rh, 1, m)
  <2>1. \A i \in 1..m : rg[i] \in Turns /\ rh[i] \in Turns
    BY <1>2, <1>7
  <2>2. /\ SubSeq(rg, 1, m) \in Seq(Turns) /\ SubSeq(rh, 1, m) \in Seq(Turns)
        /\ Len(SubSeq(rg, 1, m)) = Len(SubSeq(rh, 1, m))
        /\ \A i \in 1..Len(SubSeq(rg, 1, m)) : SubSeq(rg, 1, m)[i] = SubSeq(rh, 1, m)[i]
    BY <1>1, <1>5, <1>6, <1>7, <2>1
  <2>. QED
    BY <2>2, SeqEqual
<1>9. IsPrefix(rg, rh)
  <2>1. Len(rg) <= Len(rh)
    BY <1>5, <1>6
  <2>2. SubSeq(rg, 1, Len(rg)) = SubSeq(rh, 1, Len(rg))
    BY <1>6, <1>8, Zenon
  <2>. QED
    BY <2>1, <2>2, Zenon DEF IsPrefix
<1>. QED
  BY <1>9 DEF IsSuffix, rg, rh

\* What the table lists of a session is the end of its deque, in order.
LEMMA TableIsEnd ==
  ASSUME NEW h \in Seq(Turns), Chronological(h),
         NEW S, S \subseteq Turns, IsFiniteSet(S), Ends(S, h)
  PROVE  LET m == Cardinality(S)
         IN /\ m \in 0..Len(h) /\ (h # <<>> => m > 0)
            /\ InOrder(S) \in Seq(Turns) /\ Len(InOrder(S)) = m
            /\ \A i \in 1..m : InOrder(S)[i] = h[(Len(h) - m) + i]
<1>. DEFINE m == Cardinality(S)
            n == Len(h)
            k == (n - m) + 1
            B == {h[i] : i \in k..n}
            g == [i \in 1..m |-> h[(n - m) + i]]
<1>1. n \in Nat /\ DOMAIN h = 1..n /\ h \in [1..n -> Turns] /\ Ascending(h) /\ m \in Nat
  BY Deques, FS_CardinalityType
<1>2. m <= n
  <2>. DEFINE A == {h[i] : i \in 1..n}
  <2>1. IsFiniteSet(A) /\ Cardinality(A) = n - 1 + 1
    <3>1. 1 \in 1..(n + 1)
      BY <1>1
    <3>. HIDE DEF n
    <3>. QED
      BY <1>1, <3>1, TurnsBehind
  <2>2. S \in SUBSET A
    BY <1>1 DEF Ends
  <2>. HIDE DEF A, n
  <2>3. Cardinality(S) <= Cardinality(A)
    BY <2>1, <2>2, FS_Subset
  <2>. QED
    BY <1>1, <2>1, <2>3
<1>. HIDE DEF n, m
<1>3. k \in 1..(n + 1) /\ n - k + 1 = m
  BY <1>1, <1>2
<1>4. IsFiniteSet(B) /\ Cardinality(B) = m
  <2>. HIDE DEF k
  <2>. QED
    BY <1>1, <1>3, TurnsBehind
<1>5. S \subseteq B
  <2>. SUFFICES ASSUME NEW t \in S PROVE \E i \in k..n : t = h[i]
    OBVIOUS
  <2>1. PICK i \in 1..n : t = h[i]
    BY <1>1 DEF Ends
  <2>2. RowNumber(t, S) = n - i + 1
    BY <2>1, NumberInDeque DEF n
  <2>3. n - i + 1 <= m
    BY <2>2, RowNumberType DEF m
  <2>4. i \in k..n
    BY <1>1, <1>2, <2>3
  <2>. QED
    BY <2>1, <2>4
<1>6. S = B
  <2>. HIDE DEF B
  <2>. QED
    BY <1>4, <1>5, FS_Subset DEF m
<1>7. \A i \in 1..m : (n - m) + i \in k..n
  BY <1>1, <1>2
<1>8. g \in [1..m -> S] /\ Ascending(g)
  <2>1. \A i \in 1..m : h[(n - m) + i] \in S
    BY <1>6, <1>7
  <2>2. g \in [1..m -> S] /\ DOMAIN g = 1..m /\ \A i \in 1..m : g[i] = h[(n - m) + i]
    BY <2>1
  <2>. HIDE DEF g
  <2>3. \A i, j \in 1..m : i < j => /\ (n - m) + i \in 1..n /\ (n - m) + j \in 1..n
                                    /\ (n - m) + i < (n - m) + j
    BY <1>1, <1>2
  <2>4. \A i, j \in 1..m : i < j => Newer(h[(n - m) + j], h[(n - m) + i])
    BY <1>1, <2>3 DEF Ascending
  <2>. QED
    BY <2>2, <2>4 DEF Ascending
<1>9. InOrder(S) = g
  <2>. HIDE DEF g
  <2>. QED
    BY <1>8, InOrderIs DEF m
<1>10. g \in Seq(Turns) /\ Len(g) = m /\ \A i \in 1..m : g[i] = h[(n - m) + i]
  <2>1. \A i \in 1..m : g[i] = h[(n - m) + i]
    OBVIOUS
  <2>. HIDE DEF g
  <2>2. g \in [1..m -> Turns]
    BY <1>8
  <2>. QED
    BY <1>1, <2>1, <2>2
<1>11. h # <<>> => m > 0
  <2>. SUFFICES ASSUME h # <<>> PROVE m > 0
    OBVIOUS
  <2>1. S # {}
    BY DEF Ends
  <2>. QED
    BY <1>1, <2>1, FS_EmptySet DEF m
<1>. HIDE DEF g
<1>. QED
  BY <1>1, <1>2, <1>9, <1>10, <1>11 DEF m, n

LEMMA SteadySession ==
  ASSUME TypeInv, SteadyInv, steady, NEW s \in Sessions
  PROVE  /\ deques[s] \in Seq(Turns) /\ Len(deques[s]) <= MaxTurns /\ Chronological(deques[s])
         /\ OfSession(s) \subseteq Turns /\ IsFiniteSet(OfSession(s)) /\ Ends(OfSession(s), deques[s])
BY TurnsAre, TurnsAreFinite DEF TypeInv, MemoryTypeOK, SteadyInv, OfSession

\* The history the table returns is the end of the deque, whole.
LEMMA TableHistoryIs ==
  ASSUME TypeInv, SteadyInv, steady, NEW s \in Sessions, NEW n \in 0..MaxTurns
  PROVE  LET h == deques[s]
             g == TableHistoryOf(s, n)
             m == Cardinality(OfSession(s))
             k == IF n > 0 /\ m > n THEN n ELSE m
         IN /\ g \in Seq(Turns) /\ Len(g) = k /\ k <= Len(h) /\ m \in 0..Len(h)
            /\ (h # <<>> => m > 0)
            /\ \A i \in 1..k : g[i] = h[(Len(h) - k) + i]
<1>. DEFINE h == deques[s]
            l == IF n = 0 THEN MaxTurns ELSE n
            O == InOrder(OfSession(s))
            m == Cardinality(OfSession(s))
            k == IF m > l THEN l ELSE m
            g == Newest(O, l)
<1>1. MaxTurns \in Nat \ {0} /\ l \in Nat \ {0} /\ n \in Nat
  BY MemoryAssumption
<1>2. /\ h \in Seq(Turns) /\ Len(h) \in Nat /\ Len(h) <= MaxTurns
      /\ m \in 0..Len(h) /\ (h # <<>> => m > 0)
      /\ O \in Seq(Turns) /\ Len(O) = m
      /\ \A i \in 1..m : O[i] = h[(Len(h) - m) + i]
  <2>1. h \in Seq(Turns) /\ Len(h) <= MaxTurns
    BY SteadySession
  <2>2. /\ m \in 0..Len(h) /\ (h # <<>> => m > 0)
        /\ O \in Seq(Turns) /\ Len(O) = m
        /\ \A i \in 1..m : O[i] = h[(Len(h) - m) + i]
    BY SteadySession, TableIsEnd
  <2>. QED
    BY <2>1, <2>2
<1>3. TableHistoryOf(s, n) = g
  BY DEF TableHistoryOf
<1>4. k = (IF n > 0 /\ m > n THEN n ELSE m)
  <2>. HIDE DEF m, h
  <2>. QED
    BY <1>1, <1>2
<1>. HIDE DEF h, l, O, m
<1>5. k \in 0..m
  BY <1>1, <1>2
<1>6. g \in Seq(Turns) /\ Len(g) = k /\ \A i \in 1..k : g[i] = O[(m - k) + i]
  BY <1>1, <1>2, NewestOf
<1>. HIDE DEF k, g
<1>7. \A i \in 1..k : (m - k) + i \in 1..m /\ (Len(h) - m) + ((m - k) + i) = (Len(h) - k) + i
  BY <1>2, <1>5
<1>8. \A i \in 1..k : g[i] = h[(Len(h) - k) + i]
  BY <1>2, <1>6, <1>7
<1>9. k <= Len(h)
  BY <1>2, <1>5
<1>. QED
  BY <1>2, <1>3, <1>4, <1>6, <1>8, <1>9 DEF h, m, g

LEMMA TailHolds ==
  ASSUME TypeInv, SteadyInv, steady, NEW s \in Sessions
  PROVE  TableIsTail(s)
<1>. SUFFICES ASSUME NEW n \in 0..MaxTurns PROVE IsSuffix(TableHistoryOf(s, n), HistoryOf(s, n))
  BY DEF TableIsTail
<1>. DEFINE h == deques[s]
            g == TableHistoryOf(s, n)
            m == Cardinality(OfSession(s))
            k == IF n > 0 /\ m > n THEN n ELSE m
<1>1. /\ g \in Seq(Turns) /\ Len(g) = k /\ k <= Len(h) /\ m \in 0..Len(h)
      /\ \A i \in 1..k : g[i] = h[(Len(h) - k) + i]
  BY TableHistoryIs
<1>2. h \in Seq(Turns) /\ Len(h) \in Nat /\ n \in Nat /\ MaxTurns \in Nat
  <2>1. h \in Seq(Turns)
    BY SteadySession
  <2>. QED
    BY <2>1, MemoryAssumption
<1>3. k \in 0..Len(h)
  BY <1>1, <1>2
<1>. HIDE DEF g, h, m
<1>4. CASE n = 0
  <2>1. HistoryOf(s, n) = h
    BY <1>4 DEF HistoryOf, History, h
  <2>. HIDE DEF k
  <2>2. IsSuffix(g, h)
    BY <1>1, <1>2, SuffixOf
  <2>. QED
    BY <2>1, <2>2 DEF g
<1>5. CASE n # 0
  <2>. DEFINE H == Newest(h, n)
              q == IF Len(h) > n THEN n ELSE Len(h)
  <2>1. HistoryOf(s, n) = H
    BY <1>5 DEF HistoryOf, History, h
  <2>2. H \in Seq(Turns) /\ Len(H) = q /\ \A i \in 1..q : H[i] = h[(Len(h) - q) + i]
    BY <1>2, <1>5, NewestOf
  <2>3. q \in 0..Len(h) /\ k <= q
    <3>1. q \in 0..Len(h)
      BY <1>2
    <3>2. k <= q
      BY <1>1, <1>2, <1>5
    <3>. QED
      BY <3>1, <3>2
  <2>. HIDE DEF k, q, H
  <2>4. \A i \in 1..k : (q - k) + i \in 1..q /\ (Len(h) - q) + ((q - k) + i) = (Len(h) - k) + i
    BY <1>2, <1>3, <2>3
  <2>5. \A i \in 1..k : g[i] = H[(q - k) + i]
    BY <1>1, <2>2, <2>4
  <2>6. IsSuffix(g, H)
    BY <1>1, <2>2, <2>3, <2>5, SuffixOf
  <2>. QED
    BY <2>1, <2>6 DEF g
<1>. QED
  BY <1>4, <1>5

LEMMA ContextHolds ==
  ASSUME TypeInv, SteadyInv, steady, NEW s \in Sessions
  PROVE  SameContext(s)
<1>. DEFINE h == deques[s]
            g == TableHistory(s)
            m == Cardinality(OfSession(s))
            G == Newest(g, Recent)
            H == Newest(h, Recent)
<1>1. /\ g \in Seq(Turns) /\ Len(g) = m /\ m \in 0..Len(h)
      /\ \A i \in 1..m : g[i] = h[(Len(h) - m) + i]
  <2>1. 0 \in 0..MaxTurns /\ MaxTurns \in Nat
    BY MemoryAssumption
  <2>2. m = IF 0 > 0 /\ m > 0 THEN 0 ELSE m
    OBVIOUS
  <2>. QED
    BY <2>1, <2>2, TableHistoryIs DEF TableHistory
<1>2. h \in Seq(Turns) /\ Len(h) \in Nat /\ Recent \in Nat \ {0}
  BY SteadySession, MemoryAssumption
<1>. HIDE DEF g, h, m
<1>3. ASSUME m >= Recent PROVE G = H
  <2>1. G \in Seq(Turns) /\ Len(G) = Recent /\ \A i \in 1..Recent : G[i] = g[(m - Recent) + i]
    <3>. DEFINE k == IF Len(g) > Recent THEN Recent ELSE Len(g)
    <3>1. k = Recent /\ Len(g) = m
      BY <1>1, <1>2, <1>3
    <3>2. G \in Seq(Turns) /\ Len(G) = k /\ \A i \in 1..k : G[i] = g[(Len(g) - k) + i]
      BY <1>1, <1>2, NewestOf
    <3>. HIDE DEF k, G
    <3>. QED
      BY <3>1, <3>2
  <2>2. H \in Seq(Turns) /\ Len(H) = Recent /\ \A i \in 1..Recent : H[i] = h[(Len(h) - Recent) + i]
    <3>1. (IF Len(h) > Recent THEN Recent ELSE Len(h)) = Recent
      BY <1>1, <1>2, <1>3
    <3>. QED
      BY <1>2, <3>1, NewestOf
  <2>3. \A i \in 1..Recent : /\ (m - Recent) + i \in 1..m
                             /\ (Len(h) - m) + ((m - Recent) + i) = (Len(h) - Recent) + i
    BY <1>1, <1>2, <1>3
  <2>. HIDE DEF G, H
  <2>4. \A i \in 1..Recent : G[i] = H[i]
    BY <1>1, <2>1, <2>2, <2>3
  <2>. QED
    BY <2>1, <2>2, <2>4, SeqEqual
<1>4. SameContext(s) <=> (Len(g) >= Recent => G = H)
  BY DEF SameContext, Context, History, g, h
<1>. QED
  BY <1>1, <1>3, <1>4

\* The newest turn of a session has the highest id in the table.
LEMMA LastQuestion ==
  ASSUME NEW h \in Seq(Turns), Chronological(h), NEW S, Ends(S, h), h # <<>>
  PROVE  (CHOOSE i \in {t.id : t \in S} : \A t \in S : t.id <= i) = Last(h).id
<1>. DEFINE n == Len(h)
            Ids == {t.id : t \in S}
<1>1. n \in Nat /\ n # 0 /\ DOMAIN h = 1..n /\ \A i \in 1..n : h[i].id \in Int
  BY Deques
<1>. HIDE DEF n
<1>2. h[n] \in S /\ n \in 1..n
  BY <1>1 DEF Ends, n
<1>3. \A i \in 1..n : h[i].id <= h[n].id
  <2>1. \A i \in 1..n : i < n \/ i = n
    BY <1>1
  <2>2. \A i \in 1..n : i < n => h[i].id < h[n].id
    BY <1>1, <1>2 DEF Chronological
  <2>. QED
    BY <1>1, <2>1, <2>2
<1>4. \A t \in S : t.id <= h[n].id /\ t.id \in Int
  BY <1>1, <1>3 DEF Ends
<1>5. h[n].id \in Ids
  BY <1>2
<1>6. ASSUME NEW i \in Ids, \A t \in S : t.id <= i PROVE i = h[n].id
  <2>1. h[n].id <= i
    BY <1>2, <1>6
  <2>2. i <= h[n].id /\ i \in Int
    BY <1>4
  <2>. QED
    BY <1>4, <1>2, <2>1, <2>2
<1>7. (CHOOSE i \in Ids : \A t \in S : t.id <= i) = h[n].id
  <2>. HIDE DEF Ids
  <2>. QED
    BY <1>4, <1>5, <1>6
<1>. QED
  BY <1>7 DEF Last, n

LEMMA SessionsHold ==
  ASSUME TypeInv, SteadyInv, steady
  PROVE  SameSessions
<1>. DEFINE D == {s \in Sessions : deques[s] # <<>>}
            R == {row[1] : row \in rows}
            question(s) == CHOOSE i \in {t.id : t \in OfSession(s)} : \A t \in OfSession(s) : t.id <= i
<1>1. \A s \in Sessions : s \in D <=> OfSession(s) # {}
  BY SteadySession DEF Ends
<1>2. D = R
  <2>1. rows \subseteq Sessions \X Turns
    BY DEF TypeInv, MemoryTypeOK
  <2>2. \A s : s \in R <=> s \in Sessions /\ OfSession(s) # {}
    BY <2>1 DEF OfSession, TurnsOf
  <2>. HIDE DEF R
  <2>3. \A s : s \in D => s \in Sessions
    OBVIOUS
  <2>. HIDE DEF D
  <2>. QED
    BY <1>1, <2>2, <2>3
<1>3. \A s \in D : question(s) = Last(deques[s]).id
  BY SteadySession, LastQuestion
<1>4. SessionCount = TableSessionCount
  <2>1. SessionCount = Cardinality(D) /\ TableSessionCount = Cardinality(R)
    BY DEF SessionCount, TableSessionCount
  <2>. QED
    BY <1>2, <2>1
<1>5. Listed = {<<s, Last(deques[s]).id, Len(deques[s])>> : s \in D}
  BY DEF Listed
<1>6. TableListed = {<<s, question(s), Cardinality(OfSession(s))>> : s \in R}
  BY DEF TableListed
<1>. HIDE DEF D, R, question
<1>7. \A y : y \in {<<x[1], x[2]>> : x \in Listed} <=> \E s \in D : y = <<s, Last(deques[s]).id>>
  <2>1. \A x \in Listed : \E s \in D : x[1] = s /\ x[2] = Last(deques[s]).id
    BY <1>5
  <2>2. ASSUME NEW s \in D PROVE \E x \in Listed : x[1] = s /\ x[2] = Last(deques[s]).id
    <3>1. <<s, Last(deques[s]).id, Len(deques[s])>> \in Listed
      BY <1>5
    <3>. QED
      BY <3>1
  <2>. QED
    BY <2>1, <2>2
<1>8. \A y : y \in {<<x[1], x[2]>> : x \in TableListed} <=> \E s \in R : y = <<s, question(s)>>
  <2>1. \A x \in TableListed : \E s \in R : x[1] = s /\ x[2] = question(s)
    BY <1>6
  <2>2. ASSUME NEW s \in R PROVE \E x \in TableListed : x[1] = s /\ x[2] = question(s)
    <3>1. <<s, question(s), Cardinality(OfSession(s))>> \in TableListed
      BY <1>6
    <3>. QED
      BY <3>1
  <2>. QED
    BY <2>1, <2>2
<1>9. {<<x[1], x[2]>> : x \in Listed} = {<<x[1], x[2]>> : x \in TableListed}
  <2>. DEFINE A == {<<x[1], x[2]>> : x \in Listed}
              B == {<<x[1], x[2]>> : x \in TableListed}
  <2>1. \A y : y \in A <=> y \in B
    BY <1>2, <1>3, <1>7, <1>8
  <2>. HIDE DEF A, B
  <2>2. A = B
    BY <2>1
  <2>. QED
    BY <2>2 DEF A, B
<1>. QED
  BY <1>4, <1>9 DEF SameSessions

\* For any number of sessions, turns and limits, as long as the clock is
\* steady the table stands in for the dictionary (memory.py 135-136, 227-234,
\* 363-364).
THEOREM DropInCorrect == MemorySpec => []DropInReplacement
<1>1. TypeInv /\ SteadyInv => DropInReplacement
  BY SessionsHold, TailHolds, ContextHolds DEF DropInReplacement
<1>. QED
  BY <1>1, TypeInit, TypeStep, SteadyInit, SteadyStep, PTL DEF MemorySpec

SameLast == \A s \in Sessions : deques[s] # <<>> => Last(TableHistory(s)) = Last(History(s))

LEMMA LastOfTable == TypeInv /\ SteadyInv /\ steady => SameLast
<1>. SUFFICES ASSUME TypeInv, SteadyInv, steady, NEW s \in Sessions, deques[s] # <<>>
              PROVE  Last(TableHistory(s)) = Last(deques[s])
  BY DEF SameLast, History
<1>. DEFINE h == deques[s]
            g == TableHistory(s)
            m == Cardinality(OfSession(s))
<1>1. 0 \in 0..MaxTurns /\ m = IF 0 > 0 /\ m > 0 THEN 0 ELSE m
  BY MemoryAssumption
<1>2. /\ Len(g) = m /\ m \in 0..Len(h) /\ m > 0
      /\ \A i \in 1..m : g[i] = h[(Len(h) - m) + i]
  BY <1>1, TableHistoryIs DEF TableHistory
<1>3. Len(h) \in Nat
  BY SteadySession
<1>. HIDE DEF g, h, m
<1>4. m \in 1..m /\ (Len(h) - m) + m = Len(h)
  BY <1>2, <1>3
<1>5. Last(g) = Last(h)
  BY <1>2, <1>4 DEF Last
<1>. QED
  BY <1>5 DEF g, h

\* With a steady clock the turn just added is the last one both remember: the
\* trimming never takes it (memory.py 225-237).
THEOREM NewestIsKeptCorrect == MemorySpec => NewestIsKept
<1>1. ASSUME TypeInv, TypeInv', SteadyInv, NEW s \in Sessions, AddTurn(s), steady
      PROVE  Last(TableHistory(s)').id = last_id' /\ Last(History(s)').id = last_id'
  <2>1. /\ SteadyInv' /\ steady' /\ deques[s]' # <<>> /\ last_id' = last_id + 1
        /\ Last(deques[s]') = [id |-> last_id + 1, time |-> now]
    BY <1>1, AddTurnSteady DEF AddTurn
  <2>2. SameLast'
    BY <1>1, <2>1, LastOfTable, PTL
  <2>3. Last(TableHistory(s)') = Last(History(s)')
    BY <2>1, <2>2 DEF SameLast, Last
  <2>. QED
    BY <2>1, <2>3 DEF History
<1>2. TypeInv /\ TypeInv' /\ SteadyInv /\ [MemoryNext]_memory =>
        [\A s \in Sessions : AddTurn(s) /\ steady =>
           Last(TableHistory(s)').id = last_id' /\ Last(History(s)').id = last_id']_memory
  BY <1>1
<1>. QED
  BY <1>2, TypeInit, TypeStep, SteadyInit, SteadyStep, PTL DEF MemorySpec, NewestIsKept
=============================================================================

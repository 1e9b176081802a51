-------------------------- MODULE OrderBookProofs --------------------------
(***************************************************************************)
(* Proofs about OrderBook: under the hypothesis that a Replace never names  *)
(* the id of another resting order (FreshIds), the index and the queues     *)
(* describe the same orders, a rejected event changes no order, and the     *)
(* book implements the price-time rules of PriceTimeBook.                   *)
(*                                                                          *)
(* The inductive invariant adds to IndexMatchesQueues that a list node is   *)
(* in one place only: without it the removal of one order could take        *)
(* another one's node along.                                                *)
(***************************************************************************)
EXTENDS OrderBook, SequenceTheorems, TLAPS

Books == [Levels -> Seq(RestingOrder)]
Indices == [Ids -> IndexEntry \cup {NoEntry}]

\* The index entry of the order of rank i on level l.
EntryOf(qs, l, i) == [level |-> l, node |-> qs[l][i].node]

\* Every resting order is filed under its id.
Filed(qs, idx) ==
  \A l \in Levels : \A i \in 1 .. Len(qs[l]) : idx[qs[l][i].id] = EntryOf(qs, l, i)

\* Every entry of the index designates an order with the id it is filed under.
Designates(qs, idx) ==
  \A id \in Ids : idx[id] # NoEntry =>
    \E l \in Levels : \E i \in 1 .. Len(qs[l]) : idx[id] = EntryOf(qs, l, i) /\ qs[l][i].id = id

\* A list node is in one place.
OnePlace(qs) ==
  \A l, m \in Levels : \A i \in 1 .. Len(qs[l]), j \in 1 .. Len(qs[m]) :
    qs[l][i].node = qs[m][j].node => l = m /\ i = j

Consistent(qs, idx) ==
  /\ qs \in Books /\ idx \in Indices
  /\ Filed(qs, idx) /\ Designates(qs, idx) /\ OnePlace(qs)

BookInv ==
  /\ sequence \in Nat /\ outcome \in {"none", "ok", "thrown"}
  /\ Consistent(queues, index)

-----------------------------------------------------------------------------
\* Sequences

\* RemoveAt closes the gap: what was behind rank r moves up by one.
LEMMA RemoveAtProperties ==
  ASSUME NEW S, NEW s \in Seq(S), NEW r \in 1 .. Len(s)
  PROVE  /\ RemoveAt(s, r) \in Seq(S)
         /\ Len(RemoveAt(s, r)) = Len(s) - 1
         /\ \A i \in 1 .. Len(s) - 1 : RemoveAt(s, r)[i] = IF i < r THEN s[i] ELSE s[i + 1]
<1> DEFINE left == SubSeq(s, 1, r - 1)
           right == SubSeq(s, r + 1, Len(s))
<1>1. left \in Seq(S) /\ Len(left) = r - 1 /\ \A i \in 1 .. r - 1 : left[i] = s[i]
  OBVIOUS
<1>2. /\ right \in Seq(S) /\ Len(right) = Len(s) - r
      /\ \A i \in 1 .. Len(s) - r : right[i] = s[r + i]
  OBVIOUS
<1>3. RemoveAt(s, r) = left \o right
  BY DEF RemoveAt
<1> HIDE DEF left, right
<1>4. left \o right \in Seq(S) /\ Len(left \o right) = Len(s) - 1
  <2>1. left \o right \in Seq(S) /\ Len(left \o right) = Len(left) + Len(right)
    BY <1>1, <1>2, ConcatProperties
  <2>2. Len(s) \in Nat /\ r \in Int
    BY LenProperties
  <2> QED
    BY <1>1, <1>2, <2>1, <2>2
<1>5. ASSUME NEW i \in 1 .. Len(s) - 1
      PROVE  (left \o right)[i] = IF i < r THEN s[i] ELSE s[i + 1]
  <2>1. CASE i < r
    BY <1>1, <1>2, <2>1
  <2>2. CASE ~(i < r)
    <3>1. (left \o right)[i] = right[i - (r - 1)]
      BY <1>1, <1>2, <2>2
    <3>2. right[i - (r - 1)] = s[r + (i - (r - 1))] /\ r + (i - (r - 1)) = i + 1
      BY <1>2, <2>2
    <3> QED
      BY <2>2, <3>1, <3>2
  <2> QED
    BY <2>1, <2>2
<1> QED
  BY <1>3, <1>4, <1>5
-----------------------------------------------------------------------------
\* The three changes of a book and its index

\* An order taken from its level, and its id from the index, leave a consistent book.
LEMMA RemoveKeeps ==
  ASSUME NEW qs, NEW idx, Consistent(qs, idx),
         NEW level \in Levels, NEW r \in 1 .. Len(qs[level])
  PROVE  Consistent([qs EXCEPT ![level] = RemoveAt(@, r)],
                    [idx EXCEPT ![qs[level][r].id] = NoEntry])
<1> DEFINE gone == qs[level][r].id
           qs2 == [qs EXCEPT ![level] = RemoveAt(@, r)]
           idx2 == [idx EXCEPT ![gone] = NoEntry]
           Before(l, i) == IF l = level /\ i >= r THEN i + 1 ELSE i
<1>1. /\ qs \in Books /\ idx \in Indices /\ \A l \in Levels : qs[l] \in Seq(RestingOrder)
      /\ Filed(qs, idx) /\ Designates(qs, idx) /\ OnePlace(qs)
  BY DEF Consistent, Books
<1>2. \A l \in Levels : \A i \in 1 .. Len(qs[l]) : qs[l][i] \in RestingOrder
  BY <1>1, ElementOfSeq
<1>3. gone \in Ids
  BY <1>2 DEF RestingOrder
<1>4. /\ RemoveAt(qs[level], r) \in Seq(RestingOrder)
      /\ Len(RemoveAt(qs[level], r)) = Len(qs[level]) - 1
      /\ \A i \in 1 .. Len(qs[level]) - 1 :
            RemoveAt(qs[level], r)[i] = IF i < r THEN qs[level][i] ELSE qs[level][i + 1]
  BY <1>1, RemoveAtProperties
<1>5. qs2 \in Books /\ idx2 \in Indices
  BY <1>1, <1>3, <1>4 DEF Books, Indices
<1>6. ASSUME NEW l \in Levels, NEW i \in 1 .. Len(qs2[l])
      PROVE  /\ Before(l, i) \in 1 .. Len(qs[l]) /\ qs2[l][i] = qs[l][Before(l, i)]
             /\ l = level => Before(l, i) # r
  <2>1. CASE l = level
    BY <1>1, <1>4, <2>1 DEF Books
  <2>2. CASE l # level
    BY <1>1, <2>2 DEF Books
  <2> QED
    BY <2>1, <2>2
<1>7. ASSUME NEW l \in Levels, NEW i \in 1 .. Len(qs[l]), ~(l = level /\ i = r)
      PROVE  \E j \in 1 .. Len(qs2[l]) : Before(l, j) = i
  <2>1. Len(qs[l]) \in Nat
    BY <1>1, LenProperties
  <2>2. CASE l = level /\ i > r
    <3>1. i - 1 \in 1 .. Len(qs2[l]) /\ Before(l, i - 1) = i
      BY <1>1, <1>4, <2>1, <2>2 DEF Books
    <3> QED
      BY <3>1
  <2>3. CASE ~(l = level /\ i > r)
    <3>1. i \in 1 .. Len(qs2[l]) /\ Before(l, i) = i
      BY <1>1, <1>4, <1>7, <2>1, <2>3 DEF Books
    <3> QED
      BY <3>1
  <2> QED
    BY <2>2, <2>3
<1>8. \A l \in Levels : \A i \in 1 .. Len(qs[l]) : qs[l][i].id = gone => l = level /\ i = r
  <2> SUFFICES ASSUME NEW l \in Levels, NEW i \in 1 .. Len(qs[l]), qs[l][i].id = gone
               PROVE  l = level /\ i = r
    OBVIOUS
  <2>1. EntryOf(qs, l, i) = EntryOf(qs, level, r)
    BY <1>1 DEF Filed
  <2> QED
    BY <1>1, <2>1 DEF EntryOf, OnePlace
<1> HIDE DEF gone, qs2, idx2, Before
<1>9. Filed(qs2, idx2)
  <2> SUFFICES ASSUME NEW l \in Levels, NEW i \in 1 .. Len(qs2[l])
               PROVE  idx2[qs2[l][i].id] = EntryOf(qs2, l, i)
    BY DEF Filed
  <2>1. Before(l, i) \in 1 .. Len(qs[l]) /\ qs2[l][i] = qs[l][Before(l, i)]
    BY <1>6
  <2>2. qs2[l][i].id # gone /\ qs2[l][i].id \in Ids
    BY <1>2, <1>6, <1>8, <2>1 DEF RestingOrder
  <2>3. idx2[qs2[l][i].id] = idx[qs2[l][i].id]
    BY <1>1, <2>2 DEF idx2, Indices
  <2> QED
    BY <1>1, <2>1, <2>3 DEF Filed, EntryOf
<1>10. Designates(qs2, idx2)
  <2> SUFFICES ASSUME NEW id \in Ids, idx2[id] # NoEntry
               PROVE  \E l \in Levels : \E i \in 1 .. Len(qs2[l]) :
                        idx2[id] = EntryOf(qs2, l, i) /\ qs2[l][i].id = id
    BY DEF Designates
  <2>1. id # gone /\ idx2[id] = idx[id]
    BY <1>1 DEF idx2, Indices
  <2>2. PICK l \in Levels : \E i \in 1 .. Len(qs[l]) : idx[id] = EntryOf(qs, l, i) /\ qs[l][i].id = id
    BY <1>1, <2>1 DEF Designates
  <2>3. PICK i \in 1 .. Len(qs[l]) : idx[id] = EntryOf(qs, l, i) /\ qs[l][i].id = id
    BY <2>2
  <2>4. ~(l = level /\ i = r)
    BY <2>1, <2>3 DEF gone
  <2>5. PICK j \in 1 .. Len(qs2[l]) : Before(l, j) = i
    BY <1>7, <2>4
  <2>6. qs2[l][j] = qs[l][i]
    BY <1>6, <2>5
  <2> QED
    BY <2>1, <2>3, <2>6 DEF EntryOf
<1>11. OnePlace(qs2)
  <2> SUFFICES ASSUME NEW l \in Levels, NEW m \in Levels,
                      NEW i \in 1 .. Len(qs2[l]), NEW j \in 1 .. Len(qs2[m]),
                      qs2[l][i].node = qs2[m][j].node
               PROVE  l = m /\ i = j
    BY DEF OnePlace
  <2>1. l = m /\ Before(l, i) = Before(m, j)
    <3>1. /\ Before(l, i) \in 1 .. Len(qs[l]) /\ qs2[l][i] = qs[l][Before(l, i)]
          /\ Before(m, j) \in 1 .. Len(qs[m]) /\ qs2[m][j] = qs[m][Before(m, j)]
      BY <1>6
    <3>2. qs[l][Before(l, i)].node = qs[m][Before(m, j)].node
      BY <3>1
    <3> HIDE DEF Before
    <3> QED
      BY <1>1, <3>1, <3>2 DEF OnePlace
  <2>2. i \in Int /\ j \in Int /\ r \in Int
    OBVIOUS
  <2> QED
    BY <1>6, <2>1, <2>2 DEF Before
<1> QED
  BY <1>5, <1>9, <1>10, <1>11 DEF Consistent, gone, qs2, idx2

\* A node that is not in the book, appended under an id that is not in the index.
LEMMA AppendKeeps ==
  ASSUME NEW qs, NEW idx, Consistent(qs, idx), NEW level \in Levels, NEW order \in RestingOrder,
         idx[order.id] = NoEntry,
         \A l \in Levels : \A i \in 1 .. Len(qs[l]) : qs[l][i].node # order.node
  PROVE  Consistent(PushBack(qs, level, order),
                    [idx EXCEPT ![order.id] = [level |-> level, node |-> order.node]])
<1> DEFINE qs2 == PushBack(qs, level, order)
           entry == [level |-> level, node |-> order.node]
           idx2 == [idx EXCEPT ![order.id] = entry]
<1>1. /\ qs \in Books /\ idx \in Indices /\ \A l \in Levels : qs[l] \in Seq(RestingOrder)
      /\ Filed(qs, idx) /\ Designates(qs, idx) /\ OnePlace(qs)
  BY DEF Consistent, Books
<1>2. order.id \in Ids /\ order.node \in Nodes /\ entry \in IndexEntry
  BY DEF RestingOrder, IndexEntry
<1>3. qs2 \in Books /\ idx2 \in Indices
  BY <1>1, <1>2 DEF Books, Indices, PushBack
<1>4. /\ \A l \in Levels : l # level => qs2[l] = qs[l]
      /\ qs2[level] = Append(qs[level], order)
  BY <1>1 DEF Books, PushBack
<1>5. ASSUME NEW l \in Levels, NEW i \in 1 .. Len(qs2[l])
      PROVE  \/ i \in 1 .. Len(qs[l]) /\ qs2[l][i] = qs[l][i]
             \/ l = level /\ i = Len(qs[l]) + 1 /\ qs2[l][i] = order
  BY SMTT(30), <1>1, <1>4
<1>6. ASSUME NEW l \in Levels, NEW i \in 1 .. Len(qs[l])
      PROVE  i \in 1 .. Len(qs2[l]) /\ qs2[l][i] = qs[l][i]
  BY SMTT(30), <1>1, <1>4
<1>7. Len(qs[level]) + 1 \in 1 .. Len(qs2[level]) /\ qs2[level][Len(qs[level]) + 1] = order
  BY <1>1, <1>4
<1>8. \A l \in Levels : \A i \in 1 .. Len(qs[l]) :
         /\ qs[l][i].id \in Ids /\ qs[l][i].node \in Nodes
         /\ EntryOf(qs, l, i) \in IndexEntry /\ qs[l][i].id # order.id
  <2> SUFFICES ASSUME NEW l \in Levels, NEW i \in 1 .. Len(qs[l])
               PROVE  /\ qs[l][i].id \in Ids /\ qs[l][i].node \in Nodes
                      /\ EntryOf(qs, l, i) \in IndexEntry /\ qs[l][i].id # order.id
    OBVIOUS
  <2>1. qs[l][i] \in RestingOrder
    BY <1>1, ElementOfSeq
  <2>2. qs[l][i].id \in Ids /\ qs[l][i].node \in Nodes /\ EntryOf(qs, l, i) \in IndexEntry
    BY <2>1 DEF RestingOrder, IndexEntry, EntryOf
  <2>3. idx[qs[l][i].id] # NoEntry
    BY <1>1, <2>2, NoEntryAssumption DEF Filed
  <2> QED
    BY <2>2, <2>3
<1>9. \A id \in Ids : idx2[id] = IF id = order.id THEN entry ELSE idx[id]
  BY <1>1 DEF Indices
<1> HIDE DEF qs2, idx2
<1>10. Filed(qs2, idx2)
  <2> SUFFICES ASSUME NEW l \in Levels, NEW i \in 1 .. Len(qs2[l])
               PROVE  idx2[qs2[l][i].id] = EntryOf(qs2, l, i)
    BY DEF Filed
  <2>1. CASE i \in 1 .. Len(qs[l]) /\ qs2[l][i] = qs[l][i]
    BY <1>1, <1>8, <1>9, <2>1 DEF Filed, EntryOf
  <2>2. CASE l = level /\ qs2[l][i] = order
    BY <1>2, <1>9, <2>2 DEF EntryOf
  <2> QED
    BY <1>5, <2>1, <2>2
<1>11. Designates(qs2, idx2)
  <2> SUFFICES ASSUME NEW id \in Ids, idx2[id] # NoEntry
               PROVE  \E l \in Levels : \E i \in 1 .. Len(qs2[l]) :
                        idx2[id] = EntryOf(qs2, l, i) /\ qs2[l][i].id = id
    BY DEF Designates
  <2>1. CASE id = order.id
    BY <1>7, <1>9, <2>1 DEF EntryOf
  <2>2. CASE id # order.id
    <3>1. PICK l \in Levels : \E i \in 1 .. Len(qs[l]) : idx[id] = EntryOf(qs, l, i) /\ qs[l][i].id = id
      BY <1>1, <1>9, <2>2 DEF Designates
    <3>2. PICK i \in 1 .. Len(qs[l]) : idx[id] = EntryOf(qs, l, i) /\ qs[l][i].id = id
      BY <3>1
    <3> QED
      BY <1>6, <1>9, <2>2, <3>2 DEF EntryOf
  <2> QED
    BY <2>1, <2>2
<1>12. OnePlace(qs2)
  <2> SUFFICES ASSUME NEW l \in Levels, NEW m \in Levels,
                      NEW i \in 1 .. Len(qs2[l]), NEW j \in 1 .. Len(qs2[m]),
                      qs2[l][i].node = qs2[m][j].node
               PROVE  l = m /\ i = j
    BY DEF OnePlace
  <2>1. CASE i \in 1 .. Len(qs[l]) /\ qs2[l][i] = qs[l][i]
    BY SMTT(30), <1>1, <1>5, <2>1 DEF OnePlace
  <2>2. CASE l = level /\ i = Len(qs[l]) + 1 /\ qs2[l][i] = order
    BY <1>1, <1>5, <2>2 DEF OnePlace
  <2> QED
    BY <1>5, <2>1, <2>2
<1> QED
  BY <1>3, <1>10, <1>11, <1>12 DEF Consistent, qs2, idx2

\* An order that keeps its node and its place, under an id that was its own or not in
\* the index, with the entry moved to that id.
LEMMA AmendKeeps ==
  ASSUME NEW qs, NEW idx, Consistent(qs, idx),
         NEW level \in Levels, NEW r \in 1 .. Len(qs[level]),
         NEW id \in Ids, NEW qty \in Nat, id = qs[level][r].id \/ idx[id] = NoEntry
  PROVE  Consistent([qs EXCEPT ![level][r] = [@ EXCEPT !.id = id, !.qty = qty]],
                    [[idx EXCEPT ![qs[level][r].id] = NoEntry] EXCEPT ![id] = EntryOf(qs, level, r)])
<1> DEFINE old == qs[level][r].id
           order == [qs[level][r] EXCEPT !.id = id, !.qty = qty]
           qs2 == [qs EXCEPT ![level][r] = [@ EXCEPT !.id = id, !.qty = qty]]
           idx2 == [[idx EXCEPT ![old] = NoEntry] EXCEPT ![id] = EntryOf(qs, level, r)]
<1>1. /\ qs \in Books /\ idx \in Indices /\ \A l \in Levels : qs[l] \in Seq(RestingOrder)
      /\ Filed(qs, idx) /\ Designates(qs, idx) /\ OnePlace(qs)
  BY DEF Consistent, Books
<1>2. \A l \in Levels : \A i \in 1 .. Len(qs[l]) : qs[l][i] \in RestingOrder
  BY <1>1, ElementOfSeq
<1>3. qs[level][r] \in RestingOrder
  BY <1>2
<1>4. /\ old \in Ids /\ order \in RestingOrder /\ EntryOf(qs, level, r) \in IndexEntry
      /\ order.id = id /\ order.node = qs[level][r].node
  BY <1>3 DEF RestingOrder, IndexEntry, EntryOf
<1>5. /\ \A l \in Levels : l # level => qs2[l] = qs[l]
      /\ qs2[level] = [qs[level] EXCEPT ![r] = order]
  BY <1>1 DEF Books
<1> HIDE DEF order
<1>6. qs2[level] \in Seq(RestingOrder) /\ Len(qs2[level]) = Len(qs[level])
  BY <1>1, <1>4, <1>5
<1>7. ASSUME NEW l \in Levels, NEW i \in 1 .. Len(qs[l])
      PROVE  qs2[l][i] = IF l = level /\ i = r THEN order ELSE qs[l][i]
  <2> HIDE DEF qs2
  <2>1. CASE l = level
    BY <1>1, <1>5, <2>1
  <2>2. CASE l # level
    BY <1>5, <2>2
  <2> QED
    BY <2>1, <2>2
<1>8. \A l \in Levels : Len(qs2[l]) = Len(qs[l])
  BY <1>5, <1>6
<1>9. idx2 \in Indices
  BY <1>1, <1>4 DEF Indices
<1>10. qs2 \in Books
  <2>1. \A l \in Levels : qs2[l] \in Seq(RestingOrder)
    BY <1>1, <1>5, <1>6
  <2>2. qs2 = [l \in Levels |-> qs2[l]]
    BY <1>1 DEF Books
  <2> HIDE DEF qs2
  <2> QED
    BY <2>1, <2>2 DEF Books
<1>11. \A x \in Ids : idx2[x] = IF x = id THEN EntryOf(qs, level, r)
                               ELSE IF x = old THEN NoEntry ELSE idx[x]
  BY <1>1, <1>4 DEF Indices
<1>12. \A l \in Levels : \A i \in 1 .. Len(qs[l]) :
          qs[l][i].id \in {old, id} => l = level /\ i = r
  <2> SUFFICES ASSUME NEW l \in Levels, NEW i \in 1 .. Len(qs[l]), qs[l][i].id \in {old, id}
               PROVE  l = level /\ i = r
    OBVIOUS
  <2>1. EntryOf(qs, l, i) \in IndexEntry
    BY <1>2 DEF RestingOrder, IndexEntry, EntryOf
  <2>2. idx[qs[l][i].id] = EntryOf(qs, l, i) /\ EntryOf(qs, l, i) # NoEntry
    BY <1>1, <2>1, NoEntryAssumption DEF Filed
  <2>3. qs[l][i].id = old
    BY <2>2
  <2>4. EntryOf(qs, l, i) = EntryOf(qs, level, r)
    BY <1>1, <2>2, <2>3 DEF Filed
  <2> QED
    BY <1>1, <2>4 DEF EntryOf, OnePlace
<1> HIDE DEF qs2, idx2
<1>13. \A l \in Levels : \A i \in 1 .. Len(qs[l]) : EntryOf(qs2, l, i) = EntryOf(qs, l, i)
  BY <1>4, <1>7 DEF EntryOf
<1>14. Filed(qs2, idx2)
  <2> SUFFICES ASSUME NEW l \in Levels, NEW i \in 1 .. Len(qs[l])
               PROVE  idx2[qs2[l][i].id] = EntryOf(qs, l, i)
    BY <1>8, <1>13 DEF Filed
  <2>1. CASE l = level /\ i = r
    BY <1>4, <1>7, <1>11, <2>1
  <2>2. CASE ~(l = level /\ i = r)
    <3>1. qs2[l][i] = qs[l][i] /\ qs[l][i].id \in Ids
      BY <1>2, <1>7, <2>2 DEF RestingOrder
    <3>2. qs[l][i].id \notin {old, id}
      BY <1>12, <2>2
    <3>3. idx2[qs2[l][i].id] = idx[qs[l][i].id]
      BY <1>11, <3>1, <3>2
    <3> QED
      BY <1>1, <3>3 DEF Filed
  <2> QED
    BY <2>1, <2>2
<1>15. Designates(qs2, idx2)
  <2> SUFFICES ASSUME NEW x \in Ids, idx2[x] # NoEntry
               PROVE  \E l \in Levels : \E i \in 1 .. Len(qs[l]) :
                        idx2[x] = EntryOf(qs, l, i) /\ qs2[l][i].id = x
    BY <1>8, <1>13 DEF Designates
  <2>1. CASE x = id
    BY <1>4, <1>7, <1>11, <2>1
  <2>2. CASE x # id
    <3>1. x # old /\ idx2[x] = idx[x]
      BY <1>11, <2>2
    <3>2. PICK l \in Levels : \E i \in 1 .. Len(qs[l]) : idx[x] = EntryOf(qs, l, i) /\ qs[l][i].id = x
      BY <1>1, <3>1 DEF Designates
    <3>3. PICK i \in 1 .. Len(qs[l]) : idx[x] = EntryOf(qs, l, i) /\ qs[l][i].id = x
      BY <3>2
    <3>4. ~(l = level /\ i = r)
      BY <3>1, <3>3
    <3>5. qs2[l][i] = qs[l][i]
      BY <1>7, <3>4
    <3> QED
      BY <3>1, <3>3, <3>5
  <2> QED
    BY <2>1, <2>2
<1>16. OnePlace(qs2)
  <2>1. \A l \in Levels : \A i \in 1 .. Len(qs[l]) : qs2[l][i].node = qs[l][i].node
    BY <1>4, <1>7
  <2> QED
    BY <1>1, <1>8, <2>1 DEF OnePlace
<1> QED
  BY <1>9, <1>10, <1>14, <1>15, <1>16 DEF Consistent, qs2, idx2
-----------------------------------------------------------------------------
\* The inductive invariant

\* An id of the index leads to the order of that id.
LEMMA EntryIsOfTheOrder ==
  ASSUME Consistent(queues, index), NEW id \in Ids, Indexed(id)
  PROVE  /\ index[id].level \in Levels
         /\ Rank(queues[index[id].level], index[id].node) \in 1 .. Len(queues[index[id].level])
         /\ Deref(index[id]) \in RestingOrder /\ Deref(index[id]).id = id
         /\ index[id] = EntryOf(queues, index[id].level, Rank(queues[index[id].level], index[id].node))
<1> DEFINE level == index[id].level
           queue == queues[level]
           r == Rank(queue, index[id].node)
<1>1. PICK l \in Levels : \E i \in 1 .. Len(queues[l]) : index[id] = EntryOf(queues, l, i) /\ queues[l][i].id = id
  BY DEF Consistent, Designates, Indexed
<1>2. PICK i \in 1 .. Len(queues[l]) : index[id] = EntryOf(queues, l, i) /\ queues[l][i].id = id
  BY <1>1
<1>3. level = l /\ index[id].node = queue[i].node /\ queue \in Seq(RestingOrder)
  BY <1>2 DEF EntryOf, Consistent, Books
<1>4. i \in DOMAIN queue /\ DOMAIN queue = 1 .. Len(queue)
  BY <1>2, <1>3
<1>5. r \in DOMAIN queue /\ queue[r].node = index[id].node
  BY <1>3, <1>4 DEF Rank
<1>6. r = i
  BY <1>3, <1>4, <1>5 DEF Consistent, OnePlace
<1>7. queue[r] \in RestingOrder
  BY <1>3, <1>4, <1>5, ElementOfSeq
<1> HIDE DEF r
<1>8. Deref(index[id]) = queue[r]
  BY DEF Deref, r
<1> QED
  BY <1>2, <1>3, <1>4, <1>6, <1>7, <1>8 DEF r

\* A removed order leaves a consistent book without its node.
LEMMA WithoutKeeps ==
  ASSUME Consistent(queues, index), NEW id \in Ids, Indexed(id)
  PROVE  Consistent(Without(index[id]), Unfiled(id))
<1> DEFINE level == index[id].level
           r == Rank(queues[level], index[id].node)
<1>1. /\ level \in Levels /\ r \in 1 .. Len(queues[level])
      /\ queues[level][r].id = id
  BY EntryIsOfTheOrder DEF Deref
<1>2. Without(index[id]) = [queues EXCEPT ![level] = RemoveAt(@, r)]
  BY DEF Without
<1>3. Unfiled(id) = [index EXCEPT ![queues[level][r].id] = NoEntry]
  BY <1>1 DEF Unfiled
<1> HIDE DEF level, r
<1>4. Consistent([queues EXCEPT ![level] = RemoveAt(@, r)],
                 [index EXCEPT ![queues[level][r].id] = NoEntry])
  BY <1>1, RemoveKeeps
<1> QED
  BY <1>2, <1>3, <1>4

\* The nodes of what is left are nodes of the book.
LEMMA WithoutTakesNoNode ==
  ASSUME Consistent(queues, index), NEW id \in Ids, Indexed(id),
         NEW l \in Levels, NEW i \in 1 .. Len(Without(index[id])[l])
  PROVE  \E j \in 1 .. Len(queues[l]) : Without(index[id])[l][i] = queues[l][j]
<1> DEFINE level == index[id].level
           r == Rank(queues[level], index[id].node)
           queue == queues[level]
<1>1. /\ level \in Levels /\ r \in 1 .. Len(queue)
  BY EntryIsOfTheOrder
<1>2. queues \in Books /\ queue \in Seq(RestingOrder)
  BY <1>1 DEF Consistent, Books
<1>3. Without(index[id]) = [queues EXCEPT ![level] = RemoveAt(queue, r)]
  BY DEF Without
<1> HIDE DEF level, r, queue
<1>4. CASE l = level
  <2>1. Without(index[id])[l] = RemoveAt(queue, r)
    BY <1>1, <1>2, <1>3, <1>4 DEF Books
  <2>2. /\ Len(RemoveAt(queue, r)) = Len(queue) - 1 /\ Len(queue) \in Nat
        /\ \A k \in 1 .. Len(queue) - 1 : RemoveAt(queue, r)[k] = IF k < r THEN queue[k] ELSE queue[k + 1]
    BY <1>1, <1>2, RemoveAtProperties, LenProperties
  <2>3. /\ i \in 1 .. Len(queue) /\ i + 1 \in 1 .. Len(queue)
        /\ Without(index[id])[l][i] = queue[i] \/ Without(index[id])[l][i] = queue[i + 1]
    BY <2>1, <2>2
  <2> QED
    BY <1>4, <2>3 DEF queue
<1>5. CASE l # level
  BY <1>1, <1>2, <1>3, <1>5 DEF Books
<1> QED
  BY <1>4, <1>5

\* The node FreshNode chooses is in no queue.
LEMMA FreshNodeIsFresh ==
  ASSUME Consistent(queues, index), Used # Nodes
  PROVE  /\ FreshNode \in Nodes
         /\ \A l \in Levels : \A i \in 1 .. Len(queues[l]) : queues[l][i].node # FreshNode
<1>1. \A l \in Levels : DOMAIN queues[l] = 1 .. Len(queues[l])
  BY DEF Consistent, Books
<1>2. ASSUME NEW l \in Levels, NEW i \in 1 .. Len(queues[l])
      PROVE  queues[l][i].node \in Used /\ queues[l][i].node \in Nodes
  <2>1. queues[l] \in Seq(RestingOrder)
    BY DEF Consistent, Books
  <2>2. queues[l][i] \in RestingOrder
    BY <2>1, ElementOfSeq
  <2>3. i \in DOMAIN queues[l]
    BY <1>1
  <2> QED
    BY <2>2, <2>3 DEF RestingOrder, Used, NodesOf
<1>3. Used \subseteq Nodes
  BY <1>1, <1>2 DEF Used, NodesOf
<1>4. \E n \in Nodes : n \notin Used
  BY <1>3
<1>5. FreshNode \in Nodes /\ FreshNode \notin Used
  BY <1>4 DEF FreshNode
<1> QED
  BY <1>2, <1>5

\* insert_new keeps a consistent book consistent.
LEMMA InsertKeeps ==
  ASSUME NEW qs, NEW idx, Consistent(qs, idx), FreshNode \in Nodes,
         \A l \in Levels : \A i \in 1 .. Len(qs[l]) : qs[l][i].node # FreshNode,
         NEW id \in Ids, NEW level \in Levels, NEW qty \in Qtys, InsertNew(qs, idx, id, level, qty)
  PROVE  Consistent(queues', index') /\ outcome' \in {"ok", "thrown"}
<1>1. CASE idx[id] # NoEntry
  BY <1>1 DEF InsertNew, Throw
<1>2. CASE idx[id] = NoEntry
  <2> DEFINE order == [node |-> FreshNode, id |-> id, qty |-> qty]
  <2>1. order \in RestingOrder /\ order.id = id /\ order.node = FreshNode
    BY QtyAssumption DEF RestingOrder
  <2>2. /\ queues' = PushBack(qs, level, order) /\ outcome' = "ok"
        /\ index' = [idx EXCEPT ![order.id] = [level |-> level, node |-> order.node]]
    BY <1>2, <2>1 DEF InsertNew
  <2> HIDE DEF order
  <2>3. Consistent(PushBack(qs, level, order), [idx EXCEPT ![order.id] = [level |-> level, node |-> order.node]])
    BY <1>2, <2>1, AppendKeeps
  <2> QED
    BY <2>2, <2>3
<1> QED
  BY <1>1, <1>2

\* An amend in place keeps the book consistent if its id is the order's or free.
LEMMA AmendedKeeps ==
  ASSUME Consistent(queues, index), NEW orig \in Ids, Indexed(orig),
         NEW id \in Ids, id = orig \/ ~Indexed(id), NEW qty \in Nat
  PROVE  Consistent(Amended(index[orig], id, qty), Refiled(orig, id))
<1> DEFINE level == index[orig].level
           r == Rank(queues[level], index[orig].node)
<1>1. /\ level \in Levels /\ r \in 1 .. Len(queues[level])
      /\ queues[level][r].id = orig /\ index[orig] = EntryOf(queues, level, r)
  BY EntryIsOfTheOrder DEF Deref
<1>2. Amended(index[orig], id, qty) = [queues EXCEPT ![level][r] = [@ EXCEPT !.id = id, !.qty = qty]]
  BY DEF Amended
<1>3. Refiled(orig, id) = [[index EXCEPT ![queues[level][r].id] = NoEntry] EXCEPT ![id] = EntryOf(queues, level, r)]
  BY <1>1 DEF Refiled, Unfiled
<1> HIDE DEF level, r
<1>4. id = queues[level][r].id \/ index[id] = NoEntry
  BY <1>1 DEF Indexed
<1>5. Consistent([queues EXCEPT ![level][r] = [@ EXCEPT !.id = id, !.qty = qty]],
                 [[index EXCEPT ![queues[level][r].id] = NoEntry] EXCEPT ![id] = EntryOf(queues, level, r)])
  BY <1>1, <1>4, AmendKeeps
<1> QED
  BY <1>2, <1>3, <1>5

\* The empty book satisfies the invariant.
LEMMA BookInit == Init => BookInv
<1> SUFFICES ASSUME Init PROVE BookInv
  OBVIOUS
<1>1. \A l \in Levels : queues[l] = <<>> /\ Len(queues[l]) = 0
  BY DEF Init
<1>2. queues \in Books /\ index \in Indices
  BY DEF Init, Books, Indices
<1>3. Filed(queues, index) /\ Designates(queues, index) /\ OnePlace(queues)
  BY <1>1 DEF Init, Filed, Designates, OnePlace
<1> QED
  BY <1>2, <1>3 DEF Init, BookInv, Consistent

\* A step of the book, where a Replace names no other resting order.
LEMMA BookStep == FreshIds /\ BookInv /\ [Next]_vars => BookInv'
<1> SUFFICES ASSUME FreshIds, BookInv, [Next]_vars PROVE BookInv'
  OBVIOUS
<1>1. Consistent(queues, index) /\ sequence \in Nat /\ outcome \in {"none", "ok", "thrown"}
  BY DEF BookInv
<1>2. CountEvent => sequence' \in Nat
  BY <1>1 DEF CountEvent
<1>3. ASSUME NEW id \in Ids, NEW level \in Levels, NEW qty \in Qtys, ApplyNew(id, level, qty)
      PROVE  BookInv'
  <2>1. Consistent(queues', index') /\ outcome' \in {"ok", "thrown"}
    BY <1>1, <1>3, FreshNodeIsFresh, InsertKeeps DEF ApplyNew
  <2> QED
    BY <1>2, <1>3, <2>1 DEF ApplyNew, BookInv
<1>4. ASSUME NEW orig \in Ids, ApplyCancel(orig) PROVE BookInv'
  <2>1. Consistent(queues', index')
    BY <1>1, <1>4, WithoutKeeps DEF ApplyCancel
  <2> QED
    BY <1>2, <1>4, <2>1 DEF ApplyCancel, BookInv
<1>5. ASSUME NEW id \in Ids, NEW orig \in Ids, NEW level \in Levels, NEW qty \in Qtys,
             ApplyReplace(id, orig, level, qty)
      PROVE  BookInv'
  <2>1. FreshNode \in Nodes /\ \A l \in Levels : \A i \in 1 .. Len(queues[l]) : queues[l][i].node # FreshNode
    BY <1>1, <1>5, FreshNodeIsFresh DEF ApplyReplace
  <2>2. CASE Indexed(orig) /\ InsertNew(Without(index[orig]), Unfiled(orig), id, level, qty)
    <3>1. Consistent(Without(index[orig]), Unfiled(orig))
      BY <1>1, <2>2, WithoutKeeps
    <3>2. \A l \in Levels : \A i \in 1 .. Len(Without(index[orig])[l]) :
             Without(index[orig])[l][i].node # FreshNode
      BY <1>1, <2>1, <2>2, WithoutTakesNoNode
    <3>3. Consistent(queues', index') /\ outcome' \in {"ok", "thrown"}
      BY <2>1, <2>2, <3>1, <3>2, InsertKeeps
    <3> QED
      BY <1>2, <1>5, <3>3 DEF ApplyReplace, BookInv
  <2>3. CASE /\ Indexed(orig) /\ outcome' = "ok"
             /\ queues' = Amended(index[orig], id, qty) /\ index' = Refiled(orig, id)
    <3>1. Consistent(queues', index')
      BY <1>1, <1>5, <2>3, AmendedKeeps, QtyAssumption DEF ApplyReplace
    <3> QED
      BY <1>2, <1>5, <2>3, <3>1 DEF ApplyReplace, BookInv
  <2>4. CASE Reject
    BY <1>1, <1>2, <1>5, <2>4 DEF ApplyReplace, Reject, Throw, BookInv
  <2> QED
    BY <1>5, <2>2, <2>3, <2>4 DEF ApplyReplace
<1>6. ASSUME NEW id \in Ids, NEW qty \in Qtys, ApplyExecution(id, qty) PROVE BookInv'
  <2>1. CASE Reject
    BY <1>1, <1>2, <1>6, <2>1 DEF ApplyExecution, Reject, Throw, BookInv
  <2>2. CASE Indexed(id) /\ queues' = Without(index[id]) /\ index' = Unfiled(id) /\ outcome' = "ok"
    <3>1. Consistent(queues', index')
      BY <1>1, <2>2, WithoutKeeps
    <3> QED
      BY <1>2, <1>6, <2>2, <3>1 DEF ApplyExecution, BookInv
  <2>3. CASE /\ Indexed(id) /\ ~Overfills(id, qty) /\ outcome' = "ok" /\ index' = index
             /\ queues' = Amended(index[id], id, Deref(index[id]).qty - qty)
    <3>1. Deref(index[id]).qty - qty \in Nat
      <4>1. Deref(index[id]).qty \in Nat /\ qty \in Nat
        BY <1>1, <2>3, EntryIsOfTheOrder, QtyAssumption DEF RestingOrder
      <4> QED
        BY <2>3, <4>1 DEF Overfills
    <3>2. Refiled(id, id) = index
      BY <1>1 DEF Refiled, Unfiled, Consistent, Indices
    <3>3. Consistent(queues', index')
      BY <1>1, <2>3, <3>1, <3>2, AmendedKeeps
    <3> QED
      BY <1>2, <1>6, <2>3, <3>3 DEF ApplyExecution, BookInv
  <2> QED
    BY <1>6, <2>1, <2>2, <2>3 DEF ApplyExecution
<1>7. CASE MismatchedInstrument \/ UNCHANGED vars
  BY <1>1, <1>7 DEF MismatchedInstrument, Throw, vars, BookInv
<1> QED
  BY <1>3, <1>4, <1>5, <1>6, <1>7 DEF Next

\* Under FreshIds the book stays consistent.
LEMMA BookInvariant == FreshIds => (Spec => []BookInv)
<1> SUFFICES ASSUME FreshIds PROVE Spec => []BookInv
  OBVIOUS
<1>1. BookInv /\ [Next]_vars => BookInv'
  BY BookStep
<1> QED
  BY <1>1, BookInit, PTL DEF Spec

\* What IndexMatchesQueues says of the iterators of order_index_ (order_book.hpp) holds
\* for any number of orders, levels and events, as long as no Replace names another
\* resting order.
THEOREM OrderBookConsistent == FreshIds => (Spec => []IndexMatchesQueues)
<1>1. BookInv => IndexMatchesQueues
  <2> SUFFICES ASSUME BookInv PROVE IndexMatchesQueues
    OBVIOUS
  <2>1. Consistent(queues, index)
    BY DEF BookInv
  <2>2. \A l \in Levels : queues[l] \in Seq(RestingOrder) /\ DOMAIN queues[l] = 1 .. Len(queues[l])
    BY <2>1 DEF Consistent, Books
  <2>3. TypeOK
    BY DEF BookInv, TypeOK, Consistent, Books, Indices
  <2>4. ASSUME NEW id \in Ids, Indexed(id)
        PROVE  \E i \in DOMAIN queues[index[id].level] :
                 /\ queues[index[id].level][i].node = index[id].node
                 /\ queues[index[id].level][i].id = id
    <3> DEFINE r == Rank(queues[index[id].level], index[id].node)
    <3>1. /\ index[id].level \in Levels /\ r \in 1 .. Len(queues[index[id].level])
          /\ queues[index[id].level][r].id = id
          /\ index[id] = EntryOf(queues, index[id].level, r)
      BY <2>1, <2>4, EntryIsOfTheOrder DEF Deref
    <3> HIDE DEF r
    <3>2. queues[index[id].level][r].node = index[id].node
      BY <3>1 DEF EntryOf
    <3> QED
      BY <2>2, <3>1, <3>2
  <2>5. \A l \in Levels : \A i \in DOMAIN queues[l] :
           index[queues[l][i].id] = [level |-> l, node |-> queues[l][i].node]
    BY <2>1, <2>2 DEF Consistent, Filed, EntryOf
  <2> QED
    BY <2>3, <2>4, <2>5 DEF IndexMatchesQueues
<1> QED
  BY <1>1, BookInvariant, PTL

\* An event that apply() rejects changes no resting order and no entry.
THEOREM OrderBookRejectsWhole == FreshIds => (Spec => RejectedEventChangesNothing)
<1> SUFFICES ASSUME FreshIds PROVE Spec => RejectedEventChangesNothing
  OBVIOUS
<1>1. BookInv /\ [Next]_vars => [outcome' = "thrown" => UNCHANGED <<queues, index>>]_vars
  <2> SUFFICES ASSUME BookInv, Next, outcome' = "thrown" PROVE UNCHANGED <<queues, index>>
    OBVIOUS
  <2>1. ASSUME NEW id \in Ids, NEW level \in Levels, NEW qty \in Qtys, ApplyNew(id, level, qty)
        PROVE  UNCHANGED <<queues, index>>
    BY <2>1 DEF ApplyNew, InsertNew
  <2>2. ASSUME NEW orig \in Ids, ApplyCancel(orig) PROVE UNCHANGED <<queues, index>>
    BY <2>2 DEF ApplyCancel
  <2>3. ASSUME NEW id \in Ids, NEW orig \in Ids, NEW level \in Levels, NEW qty \in Qtys,
               ApplyReplace(id, orig, level, qty)
        PROVE  UNCHANGED <<queues, index>>
    <3>1. Unfiled(orig)[id] = NoEntry
      BY <2>3 DEF ApplyReplace, Indexed, Unfiled, BookInv, Consistent, Indices
    <3> QED
      BY <2>3, <3>1 DEF ApplyReplace, InsertNew, Reject
  <2>4. ASSUME NEW id \in Ids, NEW qty \in Qtys, ApplyExecution(id, qty) PROVE UNCHANGED <<queues, index>>
    BY <2>4 DEF ApplyExecution, Reject
  <2>5. CASE MismatchedInstrument
    BY <2>5 DEF MismatchedInstrument
  <2> QED
    BY <2>1, <2>2, <2>3, <2>4, <2>5 DEF Next
<1> QED
  BY <1>1, BookInvariant, PTL DEF Spec, RejectedEventChangesNothing
-----------------------------------------------------------------------------
\* The refinement of PriceTimeBook

\* What the snapshot shows of an order and of a queue.
ShownOrder(order) == [id |-> order.id, qty |-> order.qty]
Shown(queue) == [i \in DOMAIN queue |-> ShownOrder(queue[i])]
SnapshotOf(qs) == [l \in Levels |-> Shown(qs[l])]
BookOrder == [id : Ids, qty : Nat]

\* The snapshot shows the orders of a queue in their order.
LEMMA ShownProperties ==
  ASSUME NEW queue \in Seq(RestingOrder)
  PROVE  /\ Shown(queue) \in Seq(BookOrder) /\ Len(Shown(queue)) = Len(queue)
         /\ \A i \in 1 .. Len(queue) : Shown(queue)[i] = ShownOrder(queue[i])
<1>1. DOMAIN queue = 1 .. Len(queue) /\ Len(queue) \in Nat
  OBVIOUS
<1>2. \A i \in 1 .. Len(queue) : ShownOrder(queue[i]) \in BookOrder
  <2> SUFFICES ASSUME NEW i \in 1 .. Len(queue) PROVE ShownOrder(queue[i]) \in BookOrder
    OBVIOUS
  <2>1. queue[i] \in RestingOrder
    BY ElementOfSeq
  <2> QED
    BY <2>1 DEF RestingOrder, BookOrder, ShownOrder
<1> DEFINE shown == [i \in 1 .. Len(queue) |-> ShownOrder(queue[i])]
<1>3. shown \in Seq(BookOrder)
  BY <1>1, <1>2, IsASeq
<1>4. Shown(queue) = shown
  BY <1>1 DEF Shown
<1>5. DOMAIN shown = 1 .. Len(queue)
  OBVIOUS
<1>6. \A i \in 1 .. Len(queue) : shown[i] = ShownOrder(queue[i])
  OBVIOUS
<1> HIDE DEF shown
<1>7. Len(shown) = Len(queue)
  BY <1>1, <1>3, <1>5, LenProperties
<1> QED
  BY <1>3, <1>4, <1>6, <1>7

\* The three changes of a queue, in the snapshot.
LEMMA ShownRemove ==
  ASSUME NEW queue \in Seq(RestingOrder), NEW r \in 1 .. Len(queue)
  PROVE  Shown(RemoveAt(queue, r)) = RemoveAt(Shown(queue), r)
<1>1. /\ RemoveAt(queue, r) \in Seq(RestingOrder) /\ Len(RemoveAt(queue, r)) = Len(queue) - 1
      /\ \A i \in 1 .. Len(queue) - 1 : RemoveAt(queue, r)[i] = IF i < r THEN queue[i] ELSE queue[i + 1]
  BY RemoveAtProperties
<1>2. /\ Shown(queue) \in Seq(BookOrder) /\ Len(Shown(queue)) = Len(queue)
      /\ \A i \in 1 .. Len(queue) : Shown(queue)[i] = ShownOrder(queue[i])
  BY ShownProperties
<1>3. /\ RemoveAt(Shown(queue), r) \in Seq(BookOrder)
      /\ Len(RemoveAt(Shown(queue), r)) = Len(queue) - 1
      /\ \A i \in 1 .. Len(queue) - 1 :
           RemoveAt(Shown(queue), r)[i] = IF i < r THEN Shown(queue)[i] ELSE Shown(queue)[i + 1]
  BY <1>2, RemoveAtProperties
<1>4. /\ Shown(RemoveAt(queue, r)) \in Seq(BookOrder)
      /\ Len(Shown(RemoveAt(queue, r))) = Len(queue) - 1
      /\ \A i \in 1 .. Len(queue) - 1 : Shown(RemoveAt(queue, r))[i] = ShownOrder(RemoveAt(queue, r)[i])
  BY <1>1, ShownProperties
<1>5. Len(queue) \in Nat
  OBVIOUS
<1>6. \A i \in 1 .. Len(queue) - 1 : Shown(RemoveAt(queue, r))[i] = RemoveAt(Shown(queue), r)[i]
  BY <1>1, <1>2, <1>3, <1>4, <1>5
<1> QED
  BY <1>3, <1>4, <1>6, SeqEqual

\* What the snapshot shows of a queue an order joins.
LEMMA ShownAppend ==
  ASSUME NEW queue \in Seq(RestingOrder), NEW order \in RestingOrder
  PROVE  Shown(Append(queue, order)) = Append(Shown(queue), ShownOrder(order))
<1>1. /\ Append(queue, order) \in Seq(RestingOrder) /\ Len(Append(queue, order)) = Len(queue) + 1
      /\ Len(queue) \in Nat
  OBVIOUS
<1>2. /\ Shown(queue) \in Seq(BookOrder) /\ Len(Shown(queue)) = Len(queue)
      /\ \A i \in 1 .. Len(queue) : Shown(queue)[i] = ShownOrder(queue[i])
  BY ShownProperties
<1>3. /\ Shown(Append(queue, order)) \in Seq(BookOrder)
      /\ Len(Shown(Append(queue, order))) = Len(queue) + 1
      /\ \A i \in 1 .. Len(queue) + 1 : Shown(Append(queue, order))[i] = ShownOrder(Append(queue, order)[i])
  BY <1>1, ShownProperties
<1>4. ShownOrder(order) \in BookOrder
  BY DEF RestingOrder, BookOrder, ShownOrder
<1>5. /\ Append(Shown(queue), ShownOrder(order)) \in Seq(BookOrder)
      /\ Len(Append(Shown(queue), ShownOrder(order))) = Len(queue) + 1
  BY <1>2, <1>4
<1>6. ASSUME NEW i \in 1 .. Len(queue) + 1
      PROVE  Shown(Append(queue, order))[i] = Append(Shown(queue), ShownOrder(order))[i]
  <2>1. CASE i \in 1 .. Len(queue)
    BY <1>2, <1>3, <1>4, <2>1
  <2>2. CASE i = Len(queue) + 1
    BY <1>1, <1>2, <1>3, <1>4, <2>2
  <2>3. i \in 1 .. Len(queue) \/ i = Len(queue) + 1
    BY <1>1
  <2> QED
    BY <2>1, <2>2, <2>3
<1> QED
  BY <1>3, <1>5, <1>6, SeqEqual

\* What the snapshot shows of a queue one order of which is amended in place.
LEMMA ShownAmend ==
  ASSUME NEW queue \in Seq(RestingOrder), NEW r \in 1 .. Len(queue), NEW order \in RestingOrder
  PROVE  Shown([queue EXCEPT ![r] = order]) = [Shown(queue) EXCEPT ![r] = ShownOrder(order)]
<1>1. DOMAIN [queue EXCEPT ![r] = order] = DOMAIN queue /\ r \in DOMAIN queue
  OBVIOUS
<1> QED
  BY <1>1 DEF Shown

\* The changes of the book, in the snapshot.
LEMMA SnapshotChanges ==
  ASSUME NEW qs \in Books, NEW level \in Levels
  PROVE  /\ SnapshotOf(qs)[level] = Shown(qs[level])
         /\ \A queue : SnapshotOf([qs EXCEPT ![level] = queue])
                         = [SnapshotOf(qs) EXCEPT ![level] = Shown(queue)]
  BY DEF SnapshotOf, Books

\* An order erased from a level leaves the snapshot of that level.
LEMMA SnapshotRemoves ==
  ASSUME NEW qs \in Books, NEW level \in Levels, NEW r \in 1 .. Len(qs[level])
  PROVE  SnapshotOf([qs EXCEPT ![level] = RemoveAt(@, r)])
           = [SnapshotOf(qs) EXCEPT ![level] = RemoveAt(@, r)]
<1> DEFINE queue == RemoveAt(qs[level], r)
<1>1. Shown(queue) = RemoveAt(SnapshotOf(qs)[level], r)
  BY SnapshotChanges, ShownRemove DEF Books
<1>2. SnapshotOf([qs EXCEPT ![level] = queue]) = [SnapshotOf(qs) EXCEPT ![level] = Shown(queue)]
  BY SnapshotChanges
<1> QED
  BY <1>1, <1>2

\* An order pushed to the back of a level joins the back of its snapshot.
LEMMA SnapshotAppends ==
  ASSUME NEW qs \in Books, NEW level \in Levels, NEW order \in RestingOrder
  PROVE  SnapshotOf(PushBack(qs, level, order))
           = [SnapshotOf(qs) EXCEPT ![level] = Append(@, ShownOrder(order))]
<1> DEFINE queue == Append(qs[level], order)
<1>1. Shown(queue) = Append(SnapshotOf(qs)[level], ShownOrder(order))
  BY SnapshotChanges, ShownAppend DEF Books
<1>2. SnapshotOf([qs EXCEPT ![level] = queue]) = [SnapshotOf(qs) EXCEPT ![level] = Shown(queue)]
  BY SnapshotChanges
<1>3. PushBack(qs, level, order) = [qs EXCEPT ![level] = queue]
  BY DEF PushBack
<1> QED
  BY <1>1, <1>2, <1>3

\* An order amended in place is amended in the snapshot of its level.
LEMMA SnapshotAmends ==
  ASSUME NEW qs \in Books, NEW level \in Levels, NEW r \in 1 .. Len(qs[level]), NEW order \in RestingOrder,
         NEW qs2, qs2 = [qs EXCEPT ![level][r] = order]
  PROVE  SnapshotOf(qs2) = [SnapshotOf(qs) EXCEPT ![level][r] = ShownOrder(order)]
<1> DEFINE queue == [qs[level] EXCEPT ![r] = order]
<1>1. Shown(queue) = [SnapshotOf(qs)[level] EXCEPT ![r] = ShownOrder(order)]
  <2>1. qs[level] \in Seq(RestingOrder)
    BY DEF Books
  <2>2. Shown([qs[level] EXCEPT ![r] = order]) = [Shown(qs[level]) EXCEPT ![r] = ShownOrder(order)]
    BY <2>1, ShownAmend
  <2> QED
    BY <2>2, SnapshotChanges
<1>2. SnapshotOf([qs EXCEPT ![level] = queue]) = [SnapshotOf(qs) EXCEPT ![level] = Shown(queue)]
  <2> HIDE DEF queue
  <2> QED
    BY SnapshotChanges
<1> QED
  BY <1>1, <1>2

\* In a consistent book an id is resting exactly if the index holds it.
LEMMA RestingIsIndexed ==
  ASSUME Consistent(queues, index), NEW id \in Ids
  PROVE  Rules!Resting(id) <=> Indexed(id)
<1>1. /\ queues \in Books /\ Filed(queues, index) /\ Designates(queues, index)
      /\ \A l \in Levels : queues[l] \in Seq(RestingOrder)
  BY DEF Consistent, Books
<1>2. \A l \in Levels : /\ DOMAIN Snapshot[l] = 1 .. Len(queues[l])
                        /\ \A i \in 1 .. Len(queues[l]) : Snapshot[l][i].id = queues[l][i].id
  BY <1>1 DEF Snapshot
<1>3. Rules!Resting(id) <=> \E l \in Levels : \E i \in 1 .. Len(queues[l]) : queues[l][i].id = id
  BY <1>2 DEF Rules!Resting, Rules!Levels, Levels
<1>4. ASSUME NEW l \in Levels, NEW i \in 1 .. Len(queues[l]), queues[l][i].id = id
      PROVE  Indexed(id)
  <2>1. queues[l][i] \in RestingOrder
    BY <1>1, ElementOfSeq
  <2>2. EntryOf(queues, l, i) \in IndexEntry
    BY <2>1 DEF EntryOf, RestingOrder, IndexEntry
  <2> QED
    BY <1>1, <1>4, <2>2, NoEntryAssumption DEF Filed, Indexed
<1>5. Indexed(id) => \E l \in Levels : \E i \in 1 .. Len(queues[l]) : queues[l][i].id = id
  BY <1>1 DEF Designates, Indexed
<1> QED
  BY <1>3, <1>4, <1>5

\* What an indexed id is to the rules: an order of the snapshot, at its level and rank.
LEMMA SnapshotOfIndexed ==
  ASSUME Consistent(queues, index), NEW id \in Ids, Indexed(id)
  PROVE  LET level == index[id].level
             r == Rank(queues[level], index[id].node)
         IN /\ level \in Levels /\ r \in DOMAIN Snapshot[level]
            /\ Snapshot[level][r] = ShownOrder(Deref(index[id]))
            /\ Deref(index[id]) \in RestingOrder /\ Deref(index[id]).id = id
            /\ SnapshotOf(Without(index[id])) = Rules!Without(level, r)
            /\ \A new \in Ids, qty \in Nat : SnapshotOf(Amended(index[id], new, qty))
                 = [Snapshot EXCEPT ![level][r] = [id |-> new, qty |-> qty]]
<1> DEFINE level == index[id].level
           r == Rank(queues[level], index[id].node)
<1>1. /\ level \in Levels /\ r \in 1 .. Len(queues[level])
      /\ Deref(index[id]) \in RestingOrder /\ Deref(index[id]).id = id
  BY EntryIsOfTheOrder
<1>2. queues \in Books /\ queues[level] \in Seq(RestingOrder)
  BY <1>1 DEF Consistent, Books
<1>3. Snapshot = SnapshotOf(queues)
  BY DEF Snapshot, SnapshotOf, Shown, ShownOrder
<1>4. Deref(index[id]) = queues[level][r]
  BY DEF Deref
<1>5. Without(index[id]) = [queues EXCEPT ![level] = RemoveAt(@, r)]
  BY DEF Without
<1>6. ASSUME NEW new \in Ids, NEW qty \in Nat
      PROVE  Amended(index[id], new, qty) = [queues EXCEPT ![level][r] = [queues[level][r] EXCEPT !.id = new, !.qty = qty]]
  BY DEF Amended
<1> HIDE DEF level, r
<1>7. r \in DOMAIN Snapshot[level] /\ Snapshot[level][r] = ShownOrder(queues[level][r])
  <2>1. Snapshot[level] = Shown(queues[level])
    BY <1>1, <1>2, <1>3, SnapshotChanges
  <2>2. /\ Shown(queues[level]) \in Seq(BookOrder) /\ Len(Shown(queues[level])) = Len(queues[level])
        /\ Shown(queues[level])[r] = ShownOrder(queues[level][r])
    BY <1>1, <1>2, ShownProperties
  <2> QED
    BY <1>1, <2>1, <2>2
<1>8. SnapshotOf(Without(index[id])) = Rules!Without(level, r)
  <2>1. SnapshotOf([queues EXCEPT ![level] = RemoveAt(@, r)]) = [Snapshot EXCEPT ![level] = RemoveAt(@, r)]
    BY <1>1, <1>2, <1>3, SnapshotRemoves
  <2>2. Rules!Without(level, r) = [Snapshot EXCEPT ![level] = RemoveAt(@, r)]
    BY DEF Rules!Without, Rules!RemoveAt, RemoveAt
  <2> QED
    BY <1>5, <2>1, <2>2
<1>9. ASSUME NEW new \in Ids, NEW qty \in Nat
      PROVE  SnapshotOf(Amended(index[id], new, qty)) = [Snapshot EXCEPT ![level][r] = [id |-> new, qty |-> qty]]
  <2> DEFINE order == [queues[level][r] EXCEPT !.id = new, !.qty = qty]
  <2>1. order \in RestingOrder /\ ShownOrder(order) = [id |-> new, qty |-> qty]
    BY <1>1, <1>4 DEF RestingOrder, ShownOrder
  <2>2. Amended(index[id], new, qty) = [queues EXCEPT ![level][r] = order]
    BY <1>6
  <2> HIDE DEF order
  <2>3. SnapshotOf(Amended(index[id], new, qty)) = [SnapshotOf(queues) EXCEPT ![level][r] = ShownOrder(order)]
    BY <1>1, <1>2, <2>1, <2>2, SnapshotAmends
  <2> QED
    BY <1>3, <2>1, <2>2, <2>3
<1> QED
  BY <1>1, <1>4, <1>7, <1>8, <1>9 DEF level, r

\* insert_new is a new order of the snapshot it is called with, or throws.
LEMMA InsertInSnapshot ==
  ASSUME NEW qs \in Books, NEW idx, FreshNode \in Nodes,
         NEW id \in Ids, NEW level \in Levels, NEW qty \in Qtys,
         InsertNew(qs, idx, id, level, qty), idx[id] = NoEntry
  PROVE  Snapshot' = Rules!Joined(SnapshotOf(qs), level, id, qty)
<1> DEFINE order == [node |-> FreshNode, id |-> id, qty |-> qty]
<1>1. queues' = PushBack(qs, level, order)
  BY DEF InsertNew
<1>2. order \in RestingOrder /\ ShownOrder(order) = [id |-> id, qty |-> qty]
  BY QtyAssumption DEF RestingOrder, ShownOrder
<1>3. Snapshot' = SnapshotOf(queues')
  BY DEF Snapshot, SnapshotOf, Shown, ShownOrder
<1> HIDE DEF order
<1>4. SnapshotOf(PushBack(qs, level, order)) = [SnapshotOf(qs) EXCEPT ![level] = Append(@, ShownOrder(order))]
  BY <1>2, SnapshotAppends
<1> QED
  BY <1>1, <1>2, <1>3, <1>4 DEF Rules!Joined

\* Every apply() is an event of the price-time book or leaves the snapshot as it is.
LEMMA BookStepRefines == FreshIds /\ BookInv /\ [Next]_vars => [Rules!Next]_Snapshot
<1> SUFFICES ASSUME FreshIds, BookInv, [Next]_vars PROVE [Rules!Next]_Snapshot
  OBVIOUS
<1>1. Consistent(queues, index) /\ queues \in Books /\ index \in Indices
  BY DEF BookInv, Consistent
<1>2. Snapshot = SnapshotOf(queues) /\ Snapshot' = SnapshotOf(queues')
  BY DEF Snapshot, SnapshotOf, Shown, ShownOrder
<1>3. UNCHANGED queues => UNCHANGED Snapshot
  BY <1>2
<1>4. Rules!Levels = Levels
  BY DEF Rules!Levels, Levels
<1>5. ASSUME NEW id \in Ids, NEW level \in Levels, NEW qty \in Qtys, ApplyNew(id, level, qty)
      PROVE  [Rules!Next]_Snapshot
  <2>1. CASE index[id] # NoEntry
    BY <1>3, <1>5, <2>1 DEF ApplyNew, InsertNew
  <2>2. CASE index[id] = NoEntry
    <3>1. ~Rules!Resting(id)
      BY <1>1, <2>2, RestingIsIndexed DEF Indexed
    <3>2. FreshNode \in Nodes
      BY <1>1, <1>5, FreshNodeIsFresh DEF ApplyNew
    <3>3. Snapshot' = Rules!Joined(Snapshot, level, id, qty)
      BY <1>1, <1>2, <1>5, <2>2, <3>2, InsertInSnapshot DEF ApplyNew
    <3>4. Rules!New(id, level, qty)
      BY <3>1, <3>3 DEF Rules!New
    <3> QED
      BY <1>4, <3>4 DEF Rules!Next
  <2> QED
    BY <2>1, <2>2
<1>6. ASSUME NEW orig \in Ids, ApplyCancel(orig) PROVE [Rules!Next]_Snapshot
  <2>1. CASE ~Indexed(orig)
    BY <1>3, <1>6, <2>1 DEF ApplyCancel
  <2>2. CASE Indexed(orig)
    <3> DEFINE l == index[orig].level
               i == Rank(queues[l], index[orig].node)
    <3>1. /\ l \in Levels /\ i \in DOMAIN Snapshot[l]
          /\ SnapshotOf(Without(index[orig])) = Rules!Without(l, i)
      BY <1>1, <2>2, SnapshotOfIndexed
    <3> HIDE DEF l, i
    <3>2. Rules!Cancel(l, i)
      BY <1>2, <1>6, <2>2, <3>1 DEF ApplyCancel, Rules!Cancel
    <3> QED
      BY <1>4, <3>1, <3>2 DEF Rules!Next
  <2> QED
    BY <2>1, <2>2
<1>7. ASSUME NEW id \in Ids, NEW orig \in Ids, NEW level \in Levels, NEW qty \in Qtys,
             ApplyReplace(id, orig, level, qty)
      PROVE  [Rules!Next]_Snapshot
  <2>1. CASE ~Indexed(orig)
    BY <1>3, <1>7, <2>1 DEF ApplyReplace, Reject
  <2>2. CASE Indexed(orig)
    <3> DEFINE l == index[orig].level
               i == Rank(queues[l], index[orig].node)
               rest == Deref(index[orig])
    <3>1. /\ l \in Levels /\ i \in DOMAIN Snapshot[l]
          /\ Snapshot[l][i] = ShownOrder(rest) /\ rest \in RestingOrder /\ rest.id = orig
          /\ SnapshotOf(Without(index[orig])) = Rules!Without(l, i)
          /\ SnapshotOf(Amended(index[orig], id, qty)) = [Snapshot EXCEPT ![l][i] = [id |-> id, qty |-> qty]]
      BY <1>1, <2>2, SnapshotOfIndexed, QtyAssumption
    <3> HIDE DEF i, rest
    <3>2. Snapshot[l][i].id = orig /\ Snapshot[l][i].qty = rest.qty /\ rest.qty \in Nat /\ qty \in Nat
      BY <3>1, QtyAssumption DEF ShownOrder, RestingOrder
    <3>3. Rules!MayName(Snapshot[l][i].id, id)
      BY <1>1, <1>7, <3>2, RestingIsIndexed DEF ApplyReplace, Rules!MayName
    <3>4. CASE /\ LosesPriority(orig, level, qty)
               /\ InsertNew(Without(index[orig]), Unfiled(orig), id, level, qty)
      <4>1. FreshNode \in Nodes
        BY <1>1, <1>7, FreshNodeIsFresh DEF ApplyReplace
      <4>2. Unfiled(orig)[id] = NoEntry
        BY <1>1, <1>7 DEF ApplyReplace, Indexed, Unfiled, Indices
      <4>3. Without(index[orig]) \in Books
        BY <1>1, <2>2, WithoutKeeps DEF Consistent
      <4>4. Snapshot' = Rules!Joined(Rules!Without(l, i), level, id, qty)
        BY <3>1, <3>4, <4>1, <4>2, <4>3, InsertInSnapshot
      <4>5. level[2] # l[2] \/ qty > Snapshot[l][i].qty
        BY <3>2, <3>4 DEF LosesPriority, l, rest
      <4>6. Rules!AmendToBack(l, i, id, level, qty)
        BY <3>3, <4>4, <4>5 DEF Rules!AmendToBack
      <4> HIDE DEF l
      <4> QED
        BY <1>4, <3>1, <4>6 DEF Rules!Next
    <3>5. CASE ~LosesPriority(orig, level, qty) /\ queues' = Amended(index[orig], id, qty)
      <4>1. qty <= Snapshot[l][i].qty
        BY <3>2, <3>5 DEF LosesPriority, rest
      <4>2. Rules!AmendInPlace(l, i, id, qty)
        BY <1>2, <3>1, <3>3, <3>5, <4>1 DEF Rules!AmendInPlace
      <4> HIDE DEF l
      <4> QED
        BY <1>4, <3>1, <4>2 DEF Rules!Next
    <3> QED
      BY <1>7, <2>2, <3>4, <3>5 DEF ApplyReplace
  <2> QED
    BY <2>1, <2>2
<1>8. ASSUME NEW id \in Ids, NEW qty \in Qtys, ApplyExecution(id, qty) PROVE [Rules!Next]_Snapshot
  <2>1. CASE Reject
    BY <1>3, <2>1 DEF Reject
  <2>2. CASE Indexed(id) /\ ~Overfills(id, qty)
    <3> DEFINE l == index[id].level
               i == Rank(queues[l], index[id].node)
               rest == Deref(index[id])
               left == rest.qty - qty
    <3>1. /\ l \in Levels /\ i \in DOMAIN Snapshot[l]
          /\ Snapshot[l][i] = ShownOrder(rest) /\ rest \in RestingOrder /\ rest.id = id
          /\ SnapshotOf(Without(index[id])) = Rules!Without(l, i)
          /\ \A n \in Nat : SnapshotOf(Amended(index[id], id, n)) = [Snapshot EXCEPT ![l][i] = [id |-> id, qty |-> n]]
      BY <1>1, <2>2, SnapshotOfIndexed
    <3>2. /\ \/ left = 0 /\ queues' = Without(index[id])
             \/ left # 0 /\ queues' = Amended(index[id], id, left)
          /\ ~(qty > rest.qty)
      BY <1>8, <2>2 DEF ApplyExecution, Overfills, Reject
    <3> HIDE DEF l, i, rest
    <3>3. /\ Snapshot[l][i] = [id |-> id, qty |-> rest.qty] /\ rest.qty \in Nat /\ qty \in Nat
      BY <3>1, QtyAssumption DEF ShownOrder, RestingOrder
    <3>4. CASE left = 0 /\ queues' = Without(index[id])
      <4>1. qty = Snapshot[l][i].qty
        BY <3>3, <3>4
      <4> QED
        BY <1>2, <1>4, <3>1, <3>4, <4>1 DEF Rules!Fill, Rules!Next
    <3>5. CASE left # 0 /\ queues' = Amended(index[id], id, left)
      <4>1. qty < Snapshot[l][i].qty /\ left \in Nat
        BY <3>2, <3>3, <3>5
      <4>2. [Snapshot[l][i] EXCEPT !.qty = @ - qty] = [id |-> id, qty |-> left]
        BY <3>3
      <4>3. Snapshot' = [Snapshot EXCEPT ![l][i] = [id |-> id, qty |-> left]]
        BY <1>2, <3>1, <3>5, <4>1
      <4> HIDE DEF left
      <4>4. Snapshot' = [Snapshot EXCEPT ![l][i].qty = @ - qty]
        BY <4>2, <4>3
      <4>5. Rules!Fill(l, i, qty)
        BY <4>1, <4>4 DEF Rules!Fill
      <4> QED
        BY <1>4, <3>1, <4>5 DEF Rules!Next
    <3> QED
      BY <3>2, <3>4, <3>5
  <2> QED
    BY <1>8, <2>1, <2>2 DEF ApplyExecution
<1>9. CASE MismatchedInstrument \/ UNCHANGED vars
  BY <1>3, <1>9 DEF MismatchedInstrument, vars
<1> QED
  BY <1>5, <1>6, <1>7, <1>8, <1>9 DEF Next

\* Every behaviour of the book of list nodes and iterators is, seen through its
\* snapshot, one of the price-time rules.
THEOREM OrderBookImplementsRules == FreshIds => (Spec => ImplementsPriceTimeBook)
<1> SUFFICES ASSUME FreshIds PROVE Spec => Rules!Spec
  BY DEF ImplementsPriceTimeBook
<1>1. Init => Rules!Init
  <2> SUFFICES ASSUME Init PROVE Snapshot = [l \in Levels |-> <<>>]
    BY DEF Rules!Init, Rules!Levels, Levels
  <2>1. \A l \in Levels : DOMAIN queues[l] = {}
    BY DEF Init
  <2>2. \A l \in Levels : [i \in DOMAIN queues[l] |-> [id |-> queues[l][i].id, qty |-> queues[l][i].qty]] = <<>>
    BY <2>1
  <2> QED
    BY <2>2 DEF Snapshot
<1>2. BookInv /\ [Next]_vars => [Rules!Next]_Snapshot
  BY BookStepRefines
<1> QED
  BY <1>1, <1>2, BookInvariant, PTL DEF Spec, Rules!Spec
=============================================================================

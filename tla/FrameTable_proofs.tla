-------------------------- MODULE FrameTable_proofs --------------------------
(***************************************************************************)
(* Proofs about FrameTable, for every number of frames: its two lists stay *)
(* whole, a frame has one holder, and the table implements FramePool.      *)
(***************************************************************************)
EXTENDS FrameTable, FiniteSetTheorems, WellFoundedInduction, TLAPS

(* The least-number principle.                                             *)
LEMMA LeastNumber ==
  ASSUME NEW S, S \subseteq Nat, S # {}
  PROVE  \E m \in S : \A k \in S : m <= k
<1>1. \E m \in S : \A k \in S : ~(<<k, m>> \in OpToRel(<, Nat))
  BY WFMin, NatLessThanWellFounded, Zenon
<1>2. PICK m \in S : \A k \in S : ~(k < m)
  BY <1>1, Zenon DEF OpToRel
<1> QED
  BY <1>2

(* No chain of `next` closes on itself: along it some rank goes up.        *)
Rank == [Ref -> Nat]
Ascends(t, rank) ==
  \A f \in Ref : t.next[f] # None => rank[f] < rank[t.next[f]]
Acyclic(t) == \E rank \in Rank : Ascends(t, rank)

(* The shape an entry has between being taken off one list and put on      *)
(* another: what push_front and push_back assert.                          *)
Detached(t, f) ==
  /\ t.id[f] = "NoList"
  /\ t.prev[f] = None
  /\ t.next[f] = None

WellLinked(t) ==
  /\ t \in Table
  /\ LinksMutual(t)
  /\ HeadersAgree(t)
  /\ Acyclic(t)

(* What the proofs need of the constants and of the types of a table.      *)
LEMMA Names == /\ None \notin Ref /\ OptRef = Ref \cup {None}
               /\ "NoList" \notin Lists /\ ListID = Lists \cup {"NoList"}
BY FrameTableAssumption DEF Ref, OptRef, Lists, ListID

LEMMA TableTypes ==
  ASSUME NEW t \in Table
  PROVE  /\ \A f \in Ref : /\ t.prev[f] \in OptRef /\ t.next[f] \in OptRef
                           /\ t.id[f] \in ListID
         /\ \A l \in Lists : t.first[l] \in OptRef /\ t.last[l] \in OptRef
BY DEF Table

(* pop_front leaves a well-linked table, the old first entry detached and  *)
(* every other entry on the list it was on.                                *)
LEMMA PopFrontLinked ==
  ASSUME NEW t, WellLinked(t), NEW l \in Lists, t.first[l] # None
  PROVE  LET u == PopFront(t, l)
             h == t.first[l]
         IN /\ h \in Ref
            /\ WellLinked(u)
            /\ Detached(u, h)
            /\ PopAsserts(t, l)
            /\ u.id = [t.id EXCEPT ![h] = "NoList"]
            /\ u.length = [t.length EXCEPT ![l] = @ - 1]
            /\ t.id[h] = l
<1> DEFINE u == PopFront(t, l)
           h == t.first[l]
           n == t.next[h]
<1> USE FrameTableAssumption DEF Ref, OptRef, Lists, ListID
<1>1. t \in Table /\ LinksMutual(t) /\ HeadersAgree(t) /\ Acyclic(t)
  BY DEF WellLinked
<1>2. h \in Ref /\ t.id[h] = l /\ t.prev[h] = None
  BY <1>1 DEF Table, HeadersAgree
<1>3. n \in OptRef
  BY <1>1, <1>2 DEF Table
<1>4. /\ u.first = [t.first EXCEPT ![l] = n]
      /\ u.last = [t.last EXCEPT ![l] = IF @ = h THEN None ELSE @]
      /\ u.prev = [f \in Ref |-> IF f \in {h, n} THEN None ELSE t.prev[f]]
      /\ u.next = [t.next EXCEPT ![h] = None]
      /\ u.id = [t.id EXCEPT ![h] = "NoList"]
      /\ u.length = [t.length EXCEPT ![l] = @ - 1]
  BY <1>1 DEF PopFront, Table
<1>5. u \in Table
  BY <1>1, <1>2, <1>3 DEF PopFront, Table
<1>6. PopAsserts(t, l)
  BY <1>1, <1>2, <1>3 DEF PopAsserts, HeadersAgree, Table
<1>7. LinksMutual(u)
  BY <1>1, <1>2, <1>3, <1>4 DEF LinksMutual, Table
<1>8. HeadersAgree(u)
  <2>1. n # h /\ (n # None => n \in Ref /\ t.prev[n] = h /\ t.id[n] = l)
    BY <1>1, <1>2, <1>3 DEF LinksMutual
  <2>2. n = None <=> t.last[l] = h
    BY <1>1, <1>2 DEF HeadersAgree
  <2>3. \A m \in Lists : (u.first[m] = None <=> u.last[m] = None)
    BY <1>1, <1>2, <1>3, <1>4, <2>2 DEF HeadersAgree, Table
  <2>4. ASSUME NEW m \in Lists, NEW f \in Ref
        PROVE  u.first[m] = f <=> u.id[f] = m /\ u.prev[f] = None
    <3>1. CASE m = l
      BY <1>1, <1>2, <1>3, <1>4, <2>1, <3>1 DEF HeadersAgree, LinksMutual, Table
    <3>2. CASE m # l
      BY <1>1, <1>2, <1>3, <1>4, <2>1, <3>2 DEF HeadersAgree, Table
    <3>3. QED
      BY <3>1, <3>2
  <2>5. ASSUME NEW m \in Lists, NEW f \in Ref
        PROVE  u.last[m] = f <=> u.id[f] = m /\ u.next[f] = None
    BY <1>1, <1>2, <1>4, <2>2 DEF HeadersAgree, Table
  <2>6. QED
    BY <2>3, <2>4, <2>5 DEF HeadersAgree
<1>9. Detached(u, h)
  BY <1>1, <1>2, <1>4 DEF Detached, Table
<1>10. Acyclic(u)
  <2>1. PICK rank \in Rank : Ascends(t, rank)
    BY <1>1 DEF Acyclic
  <2>2. \A f \in Ref : u.next[f] = IF f = h THEN None ELSE t.next[f]
    BY <1>1, <1>4 DEF Table
  <2> HIDE DEF u, h
  <2>3. Ascends(u, rank)
    BY <2>1, <2>2 DEF Ascends
  <2> QED
    BY <2>1, <2>3 DEF Acyclic
<1>11. QED
  BY <1>1, <1>2, <1>4, <1>5, <1>6, <1>7, <1>8, <1>9, <1>10 DEF WellLinked

(* push_front links a detached entry at the head of a list.                *)
LEMMA PushFrontLinked ==
  ASSUME NEW t, WellLinked(t), NEW l \in Lists, NEW f \in Ref, Detached(t, f)
  PROVE  LET u == PushFront(t, l, f)
         IN /\ WellLinked(u)
            /\ u.id = [t.id EXCEPT ![f] = l]
            /\ u.length = [t.length EXCEPT ![l] = @ + 1]
<1> DEFINE u == PushFront(t, l, f)
           h == t.first[l]
<1> USE FrameTableAssumption DEF Ref, OptRef, Lists, ListID
<1>1. t \in Table /\ LinksMutual(t) /\ HeadersAgree(t) /\ Acyclic(t)
  BY DEF WellLinked
<1>2. /\ u.first = [t.first EXCEPT ![l] = f]
      /\ u.last = [t.last EXCEPT ![l] = IF @ = None THEN f ELSE @]
      /\ u.prev = [g \in Ref |-> IF g = h THEN f ELSE t.prev[g]]
      /\ u.next = [t.next EXCEPT ![f] = h]
      /\ u.id = [t.id EXCEPT ![f] = l]
      /\ u.length = [t.length EXCEPT ![l] = @ + 1]
  BY DEF PushFront
<1>3. h \in OptRef
  BY <1>1 DEF Table
<1>4. u \in Table
  BY <1>1, <1>3 DEF PushFront, Table
<1>5. /\ \A m \in Lists :
           /\ u.first[m] = IF m = l THEN f ELSE t.first[m]
           /\ u.last[m] = IF m = l /\ t.last[m] = None THEN f ELSE t.last[m]
      /\ \A g \in Ref :
           /\ u.prev[g] = IF g = h THEN f ELSE t.prev[g]
           /\ u.next[g] = IF g = f THEN h ELSE t.next[g]
           /\ u.id[g] = IF g = f THEN l ELSE t.id[g]
  BY <1>1, <1>2 DEF Table
<1>6. LinksMutual(u) /\ HeadersAgree(u)
  <2> HIDE FrameTableAssumption DEF u, h, Ref, OptRef, Lists, ListID
  <2>1. h # None => h \in Ref /\ h # f /\ t.id[h] = l /\ t.prev[h] = None
    BY <1>1, <1>3, Names DEF h, HeadersAgree, Detached
  <2>2. \A g \in Ref : t.next[g] # f /\ t.prev[g] # f
    BY <1>1, Names DEF LinksMutual, Detached
  <2>3. h = None <=> t.last[l] = None
    BY <1>1 DEF h, HeadersAgree
  <2>4. LinksMutual(u)
    <3> SUFFICES ASSUME NEW g \in Ref
                 PROVE  /\ u.id[g] = "NoList" =>
                             u.prev[g] = None /\ u.next[g] = None
                        /\ u.next[g] # None => /\ u.prev[u.next[g]] = g
                                               /\ u.id[u.next[g]] = u.id[g]
                        /\ u.prev[g] # None => /\ u.next[u.prev[g]] = g
                                               /\ u.id[u.prev[g]] = u.id[g]
      BY DEF LinksMutual
    <3>1. t.prev[g] \in OptRef /\ t.next[g] \in OptRef
      BY <1>1, TableTypes
    <3> QED
      BY <1>1, <1>5, <2>1, <2>2, <3>1, Names DEF LinksMutual, Detached
  <2>5. \A m \in Lists : u.first[m] = None <=> u.last[m] = None
    BY <1>1, <1>5, Names DEF HeadersAgree
  <2>6. \A m \in Lists, g \in Ref :
          u.first[m] = g <=> u.id[g] = m /\ u.prev[g] = None
    BY <1>1, <1>5, <2>1, Names DEF h, HeadersAgree, Detached
  <2>7. \A m \in Lists, g \in Ref :
          u.last[m] = g <=> u.id[g] = m /\ u.next[g] = None
    BY <1>1, <1>5, <2>1, <2>3, Names DEF HeadersAgree, Detached
  <2> QED
    BY <2>4, <2>5, <2>6, <2>7 DEF HeadersAgree
<1>7. Acyclic(u)
  <2>1. PICK rank \in Rank : Ascends(t, rank)
    BY <1>1 DEF Acyclic
  <2> DEFINE up == [g \in Ref |-> IF g = f THEN 0 ELSE rank[g] + 1]
  <2>2. up \in Rank
    BY DEF Rank
  <2>3. \A g \in Ref : t.next[g] # f
    BY <1>1 DEF LinksMutual, Detached
  <2>4. h # f
    BY <1>1 DEF HeadersAgree, Detached
  <2>5. ASSUME NEW g \in Ref, u.next[g] # None
        PROVE  up[g] < up[u.next[g]]
    <3>1. CASE g = f
      BY <1>1, <1>2, <1>3, <2>1, <2>4, <2>5, <3>1 DEF Table, Rank
    <3>2. CASE g # f
      <4>1. u.next[g] = t.next[g] /\ t.next[g] \in Ref \ {f}
        BY <1>1, <1>2, <2>3, <2>5, <3>2 DEF Table
      <4> QED
        BY <2>1, <2>5, <3>2, <4>1 DEF Ascends, Rank
    <3> QED
      BY <3>1, <3>2
  <2>6. Ascends(u, up)
    BY <2>5 DEF Ascends
  <2> QED
    BY <2>2, <2>6 DEF Acyclic
<1>8. QED
  BY <1>2, <1>4, <1>6, <1>7 DEF WellLinked

(* push_back links a detached entry at the tail.                           *)
LEMMA PushBackLinked ==
  ASSUME NEW t, WellLinked(t), NEW l \in Lists, NEW f \in Ref, Detached(t, f)
  PROVE  LET u == PushBack(t, l, f)
         IN /\ WellLinked(u)
            /\ u.id = [t.id EXCEPT ![f] = l]
            /\ u.length = [t.length EXCEPT ![l] = @ + 1]
<1> DEFINE u == PushBack(t, l, f)
           b == t.last[l]
<1>1. CASE b = None
  BY <1>1, PushFrontLinked DEF PushBack
<1>2. CASE b # None
  <2> USE FrameTableAssumption DEF Ref, OptRef, Lists, ListID
  <2>1. t \in Table /\ LinksMutual(t) /\ HeadersAgree(t) /\ Acyclic(t)
    BY DEF WellLinked
  <2>2. /\ u.first = t.first
        /\ u.last = [t.last EXCEPT ![l] = f]
        /\ u.prev = [t.prev EXCEPT ![f] = b]
        /\ u.next = [t.next EXCEPT ![b] = f]
        /\ u.id = [t.id EXCEPT ![f] = l]
        /\ u.length = [t.length EXCEPT ![l] = @ + 1]
    BY <1>2 DEF PushBack
  <2>3. b \in Ref /\ t.id[b] = l /\ t.next[b] = None
    BY <1>2, <2>1 DEF Table, HeadersAgree
  <2>4. u \in Table
    BY <1>2, <2>1, <2>3 DEF PushBack, Table
  <2>5. /\ \A m \in Lists :
             /\ u.first[m] = t.first[m]
             /\ u.last[m] = IF m = l THEN f ELSE t.last[m]
        /\ \A g \in Ref :
             /\ u.prev[g] = IF g = f THEN b ELSE t.prev[g]
             /\ u.next[g] = IF g = b THEN f ELSE t.next[g]
             /\ u.id[g] = IF g = f THEN l ELSE t.id[g]
    BY <2>1, <2>2 DEF Table
  <2> HIDE FrameTableAssumption DEF u, b, Ref, OptRef, Lists, ListID
  <2>6. /\ b # f
        /\ \A g \in Ref : t.next[g] # f /\ t.prev[g] # f
        /\ t.first[l] # None /\ t.first[l] # f
    BY <1>2, <2>1, <2>3, Names DEF b, HeadersAgree, LinksMutual, Detached
  <2>7. LinksMutual(u) /\ HeadersAgree(u) /\ Acyclic(u)
    <3>1. LinksMutual(u)
      <4> SUFFICES ASSUME NEW g \in Ref
                   PROVE  /\ u.id[g] = "NoList" =>
                               u.prev[g] = None /\ u.next[g] = None
                          /\ u.next[g] # None => /\ u.prev[u.next[g]] = g
                                                 /\ u.id[u.next[g]] = u.id[g]
                          /\ u.prev[g] # None => /\ u.next[u.prev[g]] = g
                                                 /\ u.id[u.prev[g]] = u.id[g]
        BY DEF LinksMutual
      <4>1. t.prev[g] \in OptRef /\ t.next[g] \in OptRef
        BY <2>1, TableTypes
      <4> QED
        BY <2>1, <2>3, <2>5, <2>6, <4>1, Names DEF LinksMutual, Detached
    <3>2. \A m \in Lists : u.first[m] = None <=> u.last[m] = None
      BY <2>1, <2>5, <2>6, Names DEF HeadersAgree
    <3>3. \A m \in Lists, g \in Ref :
            u.first[m] = g <=> u.id[g] = m /\ u.prev[g] = None
      BY <2>1, <2>3, <2>5, <2>6, Names DEF HeadersAgree, Detached
    <3>4. \A m \in Lists, g \in Ref :
            u.last[m] = g <=> u.id[g] = m /\ u.next[g] = None
      BY <2>1, <2>3, <2>5, <2>6, Names DEF b, HeadersAgree, Detached
    <3>5. HeadersAgree(u)
      BY <3>2, <3>3, <3>4 DEF HeadersAgree
    <3>6. PICK rank \in Rank : Ascends(t, rank)
      BY <2>1 DEF Acyclic
    <3> DEFINE up == [rank EXCEPT ![f] = rank[b] + 1]
    <3>7. up \in Rank /\ \A g \in Ref : up[g] = IF g = f THEN rank[b] + 1
                                                       ELSE rank[g]
      BY <2>3, <3>6 DEF Rank
    <3> HIDE DEF up
    <3>8. ASSUME NEW g \in Ref, u.next[g] # None
          PROVE  up[g] < up[u.next[g]]
      <4>1. CASE g = b
        BY <2>3, <2>5, <2>6, <3>6, <3>7, <4>1 DEF Rank
      <4>2. CASE g # b
        <5>1. /\ u.next[g] = t.next[g] /\ t.next[g] \in Ref /\ g # f
              /\ t.next[g] # f
          BY <2>1, <2>5, <2>6, <3>8, <4>2, TableTypes, Names DEF Detached
        <5> QED
          BY <3>6, <3>7, <5>1, Names DEF Ascends
      <4> QED
        BY <4>1, <4>2
    <3> QED
      BY <3>1, <3>5, <3>7, <3>8 DEF Acyclic, Ascends
  <2>8. QED
    BY <2>2, <2>4, <2>7 DEF WellLinked, u
<1>3. QED
  BY <1>1, <1>2

(* remove_frame unlinks an entry from anywhere in its list.                *)
LEMMA RemoveFrameLinked ==
  ASSUME NEW t, WellLinked(t), NEW l \in Lists, NEW f \in Ref, t.id[f] = l
  PROVE  LET u == RemoveFrame(t, l, f)
         IN /\ WellLinked(u)
            /\ Detached(u, f)
            /\ u.id = [t.id EXCEPT ![f] = "NoList"]
            /\ u.length = [t.length EXCEPT ![l] = @ - 1]
<1> DEFINE u == RemoveFrame(t, l, f)
           p == t.prev[f]
           n == t.next[f]
<1> USE FrameTableAssumption DEF Ref, OptRef, Lists, ListID
<1>1. t \in Table /\ LinksMutual(t) /\ HeadersAgree(t) /\ Acyclic(t)
  BY DEF WellLinked
<1>2. /\ u.first = [t.first EXCEPT ![l] = IF p = None THEN n ELSE @]
      /\ u.last = [t.last EXCEPT ![l] = IF n = None THEN p ELSE @]
      /\ u.prev = [g \in Ref |-> IF g = f THEN None
                                 ELSE IF g = n THEN p ELSE t.prev[g]]
      /\ u.next = [g \in Ref |-> IF g = f THEN None
                                 ELSE IF g = p THEN n ELSE t.next[g]]
      /\ u.id = [t.id EXCEPT ![f] = "NoList"]
      /\ u.length = [t.length EXCEPT ![l] = @ - 1]
  BY DEF RemoveFrame
<1>3. p \in OptRef /\ n \in OptRef
  BY <1>1 DEF Table
<1>4. u \in Table
  BY <1>1, <1>3 DEF RemoveFrame, Table
<1>5. Detached(u, f)
  BY <1>1, <1>2 DEF Detached, Table
<1>6. /\ \A m \in Lists :
           /\ u.first[m] = IF m = l /\ p = None THEN n ELSE t.first[m]
           /\ u.last[m] = IF m = l /\ n = None THEN p ELSE t.last[m]
      /\ \A g \in Ref :
           /\ u.prev[g] = IF g = f THEN None
                          ELSE IF g = n THEN p ELSE t.prev[g]
           /\ u.next[g] = IF g = f THEN None
                          ELSE IF g = p THEN n ELSE t.next[g]
           /\ u.id[g] = IF g = f THEN "NoList" ELSE t.id[g]
  BY <1>1, <1>2 DEF Table
<1> HIDE FrameTableAssumption DEF u, p, n, Ref, OptRef, Lists, ListID
<1>7. /\ \A g \in Ref : /\ t.next[g] = f <=> g = p
                        /\ t.prev[g] = f <=> g = n
      /\ p \in Ref => t.id[p] = l /\ t.next[p] = f /\ p # n
      /\ n \in Ref => t.id[n] = l /\ t.prev[n] = f
  <2>1. p = t.prev[f] /\ n = t.next[f]
    BY DEF p, n
  <2>2. \A g \in Ref : /\ t.next[g] = f => t.prev[f] = g
                       /\ t.prev[g] = f => t.next[f] = g
    BY <1>1, Names DEF LinksMutual
  <2>3. /\ p \in Ref => t.next[p] = f /\ t.id[p] = l
        /\ n \in Ref => t.prev[n] = f /\ t.id[n] = l
    BY <1>1, <2>1, Names DEF LinksMutual
  <2>4. PICK rank \in Rank : Ascends(t, rank)
    BY <1>1 DEF Acyclic
  <2>5. p \in Ref => p # n
    <3> SUFFICES ASSUME p \in Ref, p = n PROVE FALSE
      OBVIOUS
    <3>1. rank[p] < rank[f] /\ rank[f] < rank[p]
      BY <2>1, <2>3, <2>4, Names DEF Ascends
    <3> QED
      BY <2>4, <3>1 DEF Rank
  <2> QED
    BY <2>1, <2>2, <2>3, <2>5
<1>8. LinksMutual(u) /\ HeadersAgree(u) /\ Acyclic(u)
  <2>1. LinksMutual(u)
    <3> SUFFICES ASSUME NEW g \in Ref
                 PROVE  /\ u.id[g] = "NoList" =>
                             u.prev[g] = None /\ u.next[g] = None
                        /\ u.next[g] # None => /\ u.prev[u.next[g]] = g
                                               /\ u.id[u.next[g]] = u.id[g]
                        /\ u.prev[g] # None => /\ u.next[u.prev[g]] = g
                                               /\ u.id[u.prev[g]] = u.id[g]
      BY DEF LinksMutual
    <3>1. t.prev[g] \in OptRef /\ t.next[g] \in OptRef
      BY <1>1, TableTypes
    <3>2. CASE g = f
      BY <1>6, <3>2
    <3>3. CASE g # f
      <4>1. u.id[g] = t.id[g]
        BY <1>6, <3>3
      <4>2. u.id[g] = "NoList" => u.prev[g] = None /\ u.next[g] = None
        BY <1>1, <1>6, <1>7, <3>3, <4>1, Names DEF LinksMutual
      <4>3. u.next[g] # None => /\ u.prev[u.next[g]] = g
                                /\ u.id[u.next[g]] = u.id[g]
        BY <1>1, <1>3, <1>6, <1>7, <3>1, <3>3, <4>1, Names DEF LinksMutual
      <4>4. u.prev[g] # None => /\ u.next[u.prev[g]] = g
                                /\ u.id[u.prev[g]] = u.id[g]
        BY <1>1, <1>3, <1>6, <1>7, <3>1, <3>3, <4>1, Names DEF LinksMutual
      <4> QED
        BY <4>2, <4>3, <4>4
    <3> QED
      BY <3>2, <3>3
  <2>2. \A m \in Lists : u.first[m] = None <=> u.last[m] = None
    BY <1>1, <1>3, <1>6, <1>7, Names DEF p, n, HeadersAgree
  <2>3. \A m \in Lists, g \in Ref :
          u.first[m] = g <=> u.id[g] = m /\ u.prev[g] = None
    BY <1>1, <1>3, <1>6, <1>7, Names DEF p, n, HeadersAgree
  <2>4. \A m \in Lists, g \in Ref :
          u.last[m] = g <=> u.id[g] = m /\ u.next[g] = None
    BY <1>1, <1>3, <1>6, <1>7, Names DEF p, n, HeadersAgree
  <2>5. HeadersAgree(u)
    BY <2>2, <2>3, <2>4 DEF HeadersAgree
  <2>6. PICK rank \in Rank : Ascends(t, rank)
    BY <1>1 DEF Acyclic
  <2>7. ASSUME NEW g \in Ref, u.next[g] # None
        PROVE  rank[g] < rank[u.next[g]]
    <3>1. CASE u.next[g] = t.next[g]
      BY <2>6, <2>7, <3>1 DEF Ascends
    <3>2. CASE g = p /\ u.next[g] = n /\ n # None
      <4>1. t.next[p] = f /\ t.next[f] = n /\ p \in Ref /\ n \in Ref
        BY <1>3, <1>7, <3>2, Names DEF n
      <4>2. rank[p] < rank[f] /\ rank[f] < rank[n]
        BY <2>6, <3>2, <4>1, Names DEF Ascends
      <4>3. rank[p] \in Nat /\ rank[f] \in Nat /\ rank[n] \in Nat
        BY <2>6, <4>1 DEF Rank
      <4> QED
        BY <3>2, <4>2, <4>3
    <3> QED
      BY <1>6, <2>7, <3>1, <3>2
  <2> QED
    BY <2>1, <2>5, <2>6, <2>7 DEF Acyclic, Ascends
<1>9. QED
  BY <1>2, <1>4, <1>5, <1>8 DEF WellLinked, u

-----------------------------------------------------------------------------
LEMMA OnFinite ==
  ASSUME NEW t, NEW l
  PROVE  IsFiniteSet(On(t, l))
<1>1. IsFiniteSet(Ref)
  BY FS_Interval, FrameTableAssumption DEF Ref
<1>2. QED
  BY <1>1, FS_Subset DEF On

(* Taking one entry off a list and counting one less keeps the lengths.    *)
LEMMA LengthAfterUnlink ==
  ASSUME NEW t \in Table, LengthsAgree(t), NEW u \in Table,
         NEW l \in Lists, NEW f \in Ref, t.id[f] = l,
         u.id = [t.id EXCEPT ![f] = "NoList"],
         u.length = [t.length EXCEPT ![l] = @ - 1]
  PROVE  LengthsAgree(u)
<1>1. On(u, l) = On(t, l) \ {f}
  BY DEF On, Table, Lists, ListID
<1>2. Cardinality(On(u, l)) = Cardinality(On(t, l)) - 1
  BY <1>1, OnFinite, FS_RemoveElement DEF On
<1>3. ASSUME NEW m \in Lists, m # l
      PROVE  On(u, m) = On(t, m)
  BY <1>3 DEF On, Table, Lists, ListID
<1>4. QED
  BY <1>2, <1>3 DEF LengthsAgree, Table

(* Linking one detached entry and counting one more keeps the lengths.     *)
LEMMA LengthAfterLink ==
  ASSUME NEW t \in Table, LengthsAgree(t), NEW u \in Table,
         NEW l \in Lists, NEW f \in Ref, t.id[f] = "NoList",
         u.id = [t.id EXCEPT ![f] = l],
         u.length = [t.length EXCEPT ![l] = @ + 1]
  PROVE  LengthsAgree(u)
<1>1. On(u, l) = On(t, l) \cup {f} /\ f \notin On(t, l)
  BY DEF On, Table, Lists, ListID
<1>2. Cardinality(On(u, l)) = Cardinality(On(t, l)) + 1
  BY <1>1, OnFinite, FS_AddElement
<1>3. ASSUME NEW m \in Lists, m # l
      PROVE  On(u, m) = On(t, m)
  BY <1>3 DEF On, Table, Lists, ListID
<1>4. QED
  BY <1>2, <1>3 DEF LengthsAgree, Table

-----------------------------------------------------------------------------
(* What pop_front followed by push_back, a fresh push_back, and            *)
(* remove_frame followed by push_front do to a sound table.                *)
Sound(t) == WellLinked(t) /\ LengthsAgree(t)

LEMMA ReuseSound ==
  ASSUME NEW t, Sound(t), t.first["FreeList"] # None
  PROVE  LET h == t.first["FreeList"]
             u == PushBack(PopFront(t, "FreeList"), "AllocatedList", h)
         IN /\ h \in Ref
            /\ t.id[h] = "FreeList"
            /\ PopAsserts(t, "FreeList")
            /\ Sound(u)
            /\ u.id = [t.id EXCEPT ![h] = "AllocatedList"]
<1> DEFINE h == t.first["FreeList"]
           s == PopFront(t, "FreeList")
           u == PushBack(s, "AllocatedList", h)
<1>1. /\ h \in Ref /\ t.id[h] = "FreeList" /\ PopAsserts(t, "FreeList")
      /\ WellLinked(s) /\ Detached(s, h)
      /\ s.id = [t.id EXCEPT ![h] = "NoList"]
      /\ s.length = [t.length EXCEPT !["FreeList"] = @ - 1]
  BY PopFrontLinked DEF Sound, Lists
<1>2. LengthsAgree(s)
  BY <1>1, LengthAfterUnlink DEF Sound, WellLinked, Lists
<1>3. /\ WellLinked(u)
      /\ u.id = [s.id EXCEPT ![h] = "AllocatedList"]
      /\ u.length = [s.length EXCEPT !["AllocatedList"] = @ + 1]
  BY <1>1, PushBackLinked DEF Lists
<1>4. LengthsAgree(u)
  BY <1>1, <1>2, <1>3, LengthAfterLink DEF WellLinked, Detached, Lists
<1>5. u.id = [t.id EXCEPT ![h] = "AllocatedList"]
  BY <1>1, <1>3 DEF Sound, WellLinked, Table
<1>6. QED
  BY <1>1, <1>3, <1>4, <1>5 DEF Sound

LEMMA FreshSound ==
  ASSUME NEW t, Sound(t), NEW f \in Ref, t.id[f] = "NoList"
  PROVE  LET u == PushBack(Reset(t, f), "AllocatedList", f)
         IN /\ Sound(u)
            /\ u.id = [t.id EXCEPT ![f] = "AllocatedList"]
<1> DEFINE s == Reset(t, f)
           u == PushBack(s, "AllocatedList", f)
<1>1. t \in Table /\ Detached(t, f)
  BY DEF Sound, WellLinked, LinksMutual, Detached
<1>2. s.prev = t.prev /\ s.next = t.next /\ s.id = t.id /\ s.first = t.first
      /\ s.last = t.last /\ s.length = t.length
  BY <1>1 DEF Reset, Detached, Table
<1>3. s \in Table
  BY <1>1, <1>2 DEF Reset, Table
<1>4. WellLinked(s) /\ Detached(s, f)
  BY <1>1, <1>2, <1>3
     DEF Sound, WellLinked, Detached, LinksMutual, HeadersAgree, Acyclic,
         Ascends
<1>5. LengthsAgree(s)
  BY <1>2 DEF Sound, LengthsAgree, On
<1>6. /\ WellLinked(u)
      /\ u.id = [s.id EXCEPT ![f] = "AllocatedList"]
      /\ u.length = [s.length EXCEPT !["AllocatedList"] = @ + 1]
  BY <1>4, PushBackLinked DEF Lists
<1>7. LengthsAgree(u)
  BY <1>4, <1>5, <1>6, LengthAfterLink DEF WellLinked, Detached, Lists
<1>8. QED
  BY <1>2, <1>6, <1>7 DEF Sound

LEMMA ReleaseSound ==
  ASSUME NEW t, Sound(t), NEW f \in Ref, t.id[f] = "AllocatedList"
  PROVE  LET u == PushFront(RemoveFrame(t, "AllocatedList", f), "FreeList", f)
         IN /\ Sound(u)
            /\ u.id = [t.id EXCEPT ![f] = "FreeList"]
<1> DEFINE s == RemoveFrame(t, "AllocatedList", f)
           u == PushFront(s, "FreeList", f)
<1>1. /\ WellLinked(s) /\ Detached(s, f)
      /\ s.id = [t.id EXCEPT ![f] = "NoList"]
      /\ s.length = [t.length EXCEPT !["AllocatedList"] = @ - 1]
  BY RemoveFrameLinked DEF Sound, Lists
<1>2. LengthsAgree(s)
  BY <1>1, LengthAfterUnlink DEF Sound, WellLinked, Lists
<1>3. /\ WellLinked(u)
      /\ u.id = [s.id EXCEPT ![f] = "FreeList"]
      /\ u.length = [s.length EXCEPT !["FreeList"] = @ + 1]
  BY <1>1, PushFrontLinked DEF Lists
<1>4. LengthsAgree(u)
  BY <1>1, <1>2, <1>3, LengthAfterLink DEF WellLinked, Detached, Lists
<1>5. u.id = [t.id EXCEPT ![f] = "FreeList"]
  BY <1>1, <1>3 DEF Sound, WellLinked, Table
<1>6. QED
  BY <1>3, <1>4, <1>5 DEF Sound

-----------------------------------------------------------------------------
(* The inductive invariant: the table is sound, its chains do not close on *)
(* themselves, and `used` separates the entries that are on a list from    *)
(* those that are not.  The last part is what makes the entry taken by     *)
(* alloc_fresh_frame a detached one.                                       *)

IInv == TableInv /\ Acyclic(table)

LEMMA IInvSound == IInv => Sound(table)
  BY DEF IInv, TableInv, TypeOK, ListInv, Sound, WellLinked

LEMMA InitIInv == Init => IInv
<1> SUFFICES ASSUME Init PROVE IInv
  OBVIOUS
<1> USE FrameTableAssumption DEF Init
<1>1. table \in Table
  BY DEF EmptyTable, Table, OptRef, ListID
<1>2. LinksMutual(table) /\ HeadersAgree(table)
  BY DEF EmptyTable, LinksMutual, HeadersAgree, Lists, Ref
<1>3. \A l \in Lists : On(table, l) = {}
  BY DEF EmptyTable, On, Lists
<1>4. LengthsAgree(table)
  BY <1>3, FS_EmptySet DEF LengthsAgree, EmptyTable
<1>5. TypeOK
  <2>1. used \in 0 .. MaxFrames /\ capacity \in 0 .. MaxFrames + PerPage
    OBVIOUS
  <2>2. 0 \in 0 .. MaxHolders
    OBVIOUS
  <2>3. holders \in [Ref -> 0 .. MaxHolders]
    BY <2>2
  <2>4. QED
    BY <1>1, <2>1, <2>3 DEF TypeOK
<1>6. NoFrameLost
  BY DEF NoFrameLost, EmptyTable, Ref
<1>7. Acyclic(table)
  <2> DEFINE rank == [f \in Ref |-> 0]
  <2>1. rank \in Rank /\ Ascends(table, rank)
    BY DEF Rank, Ascends, EmptyTable, Ref
  <2> QED
    BY <2>1 DEF Acyclic
<1>8. QED
  BY <1>2, <1>4, <1>5, <1>6, <1>7 DEF IInv, TableInv, ListInv

LEMMA AllocFromFreeListIInv == IInv /\ AllocFromFreeList => IInv'
<1> SUFFICES ASSUME IInv, AllocFromFreeList PROVE IInv'
  OBVIOUS
<1> DEFINE h == table.first["FreeList"]
           u == PushBack(PopFront(table, "FreeList"), "AllocatedList", h)
<1>1. /\ h \in Ref /\ table.id[h] = "FreeList" /\ PopAsserts(table, "FreeList")
      /\ Sound(u) /\ u.id = [table.id EXCEPT ![h] = "AllocatedList"]
  BY IInvSound, ReuseSound DEF AllocFromFreeList
<1>2. /\ table' = u /\ holders' = [holders EXCEPT ![h] = @ + 1]
      /\ holders[h] < MaxHolders
      /\ UNCHANGED <<used, capacity, panicked, strayed>>
  BY <1>1 DEF AllocFromFreeList, HandOut
<1>3. ListInv' /\ Acyclic(table)' /\ table' \in Table
  BY <1>1, <1>2 DEF ListInv, Sound, WellLinked
<1>4. TypeOK'
  BY <1>1, <1>2, <1>3, FrameTableAssumption DEF IInv, TableInv, TypeOK
<1>5. NoFrameLost'
  BY <1>1, <1>2 DEF IInv, TableInv, TypeOK, NoFrameLost, Table, Ref
<1>6. QED
  BY <1>3, <1>4, <1>5 DEF IInv, TableInv

LEMMA AllocFreshIInv == IInv /\ AllocFresh => IInv'
<1> SUFFICES ASSUME IInv, AllocFresh PROVE IInv'
  OBVIOUS
<1> USE FrameTableAssumption
<1> DEFINE u == PushBack(Reset(table, used), "AllocatedList", used)
<1>1. used \in Ref /\ table.id[used] = "NoList"
  BY DEF IInv, TableInv, TypeOK, NoFrameLost, AllocFresh, Ref
<1>2. Sound(u) /\ u.id = [table.id EXCEPT ![used] = "AllocatedList"]
  BY <1>1, IInvSound, FreshSound
<1>3. /\ table' = u /\ holders' = [holders EXCEPT ![used] = @ + 1]
      /\ holders[used] < MaxHolders /\ used < MaxFrames
      /\ used' = used + 1 /\ capacity' = BumpedCapacity
      /\ UNCHANGED <<panicked, strayed>>
  BY DEF AllocFresh, HandOut
<1>4. ListInv' /\ Acyclic(table)' /\ table' \in Table
  BY <1>2, <1>3 DEF ListInv, Sound, WellLinked
<1>5. used' <= capacity' /\ capacity' \in 0 .. MaxFrames + PerPage
  BY <1>3 DEF IInv, TableInv, TypeOK, NoFrameLost, BumpedCapacity
<1>6. TypeOK'
  BY <1>1, <1>3, <1>4, <1>5 DEF IInv, TableInv, TypeOK
<1>7. NoFrameLost'
  BY <1>1, <1>2, <1>3, <1>5 DEF IInv, TableInv, TypeOK, NoFrameLost, Table, Ref
<1>8. QED
  BY <1>4, <1>6, <1>7 DEF IInv, TableInv

LEMMA AllocFailsFreshIInv == IInv /\ AllocFailsFresh => IInv'
<1> SUFFICES ASSUME IInv, AllocFailsFresh PROVE IInv'
  OBVIOUS
<1>1. used <= capacity' /\ capacity' \in 0 .. MaxFrames + PerPage
  BY FrameTableAssumption
     DEF IInv, TableInv, TypeOK, NoFrameLost, BumpedCapacity, AllocFailsFresh
<1>2. QED
  BY <1>1 DEF IInv, TableInv, TypeOK, ListInv, NoFrameLost, AllocFailsFresh

LEMMA ReleaseIInv ==
  ASSUME IInv, NEW f, Release(f), holders' \in [Ref -> 0 .. MaxHolders],
         strayed' \in BOOLEAN
  PROVE  IInv'
<1>1. CASE f < capacity /\ f \in Ref /\ table.id[f] = "AllocatedList"
  <2> DEFINE s == RemoveFrame(table, "AllocatedList", f)
             u == PushFront(s, "FreeList", f)
  <2>1. Sound(u) /\ u.id = [table.id EXCEPT ![f] = "FreeList"]
    BY <1>1, IInvSound, ReleaseSound
  <2>2. table' = u /\ UNCHANGED <<used, capacity, panicked>>
    BY <1>1 DEF Release
  <2>3. ListInv' /\ Acyclic(table)' /\ table' \in Table
    BY <2>1, <2>2 DEF ListInv, Sound, WellLinked
  <2>4. TypeOK'
    BY <2>2, <2>3 DEF IInv, TableInv, TypeOK
  <2>5. NoFrameLost'
    BY <1>1, <2>1, <2>2 DEF IInv, TableInv, TypeOK, NoFrameLost, Table, Ref
  <2>6. QED
    BY <2>3, <2>4, <2>5 DEF IInv, TableInv
<1>2. CASE ~(f < capacity /\ f \in Ref /\ table.id[f] = "AllocatedList")
  BY <1>2 DEF Release, IInv, TableInv, TypeOK, ListInv, NoFrameLost
<1>3. QED
  BY <1>1, <1>2

LEMMA NextIInv == IInv /\ [Next]_vars => IInv'
<1> SUFFICES ASSUME IInv, [Next]_vars PROVE IInv'
  OBVIOUS
<1>1. CASE AllocFromFreeList
  BY <1>1, AllocFromFreeListIInv
<1>2. CASE AllocFresh
  BY <1>2, AllocFreshIInv
<1>3. CASE AllocFailsBumping
  BY <1>3 DEF AllocFailsBumping, vars, IInv, TableInv, TypeOK, ListInv,
              NoFrameLost
<1>4. CASE AllocFailsFresh
  BY <1>4, AllocFailsFreshIInv
<1>5. ASSUME NEW f \in Ref, FreeFrame(f) PROVE IInv'
  <2>1. holders' \in [Ref -> 0 .. MaxHolders] /\ strayed' \in BOOLEAN
    BY <1>5, FrameTableAssumption DEF FreeFrame, IInv, TableInv, TypeOK
  <2>2. QED
    BY <1>5, <2>1, ReleaseIInv DEF FreeFrame
<1>6. CASE FreeDevicePage
  <2>1. /\ Release(0) /\ holders' \in [Ref -> 0 .. MaxHolders]
        /\ strayed' \in BOOLEAN
    BY <1>6 DEF FreeDevicePage, IInv, TableInv, TypeOK
  <2>2. QED
    BY <2>1, ReleaseIInv
<1>7. CASE UNCHANGED vars
  BY <1>7 DEF vars, IInv, TableInv, TypeOK, ListInv, NoFrameLost
<1>8. QED
  BY <1>1, <1>2, <1>3, <1>4, <1>5, <1>6, <1>7 DEF Next

(* The two lists of the frame table stay well linked, their headers and    *)
(* lengths stay right and no entry is lost, for every number of frames,    *)
(* every interleaving of allocations, failures and frees, and even when a  *)
(* DEVICE page frees a reference that is not its own.                      *)
THEOREM FrameTableSound == Spec => []TableInv
<1>1. IInv => TableInv
  BY DEF IInv
<1>2. QED
  BY <1>1, InitIInv, NextIInv, PTL DEF Spec

-----------------------------------------------------------------------------
LEMMA OwnershipStep ==
  IInv /\ ExclusiveOwnership /\ [Next]_vars => ExclusiveOwnership'
<1> SUFFICES ASSUME IInv, ExclusiveOwnership, [Next]_vars, ~strayed'
             PROVE  ExclusiveOwnership'
  BY DEF ExclusiveOwnership
<1> USE DEF ExclusiveOwnership
<1>0. holders \in [Ref -> 0 .. MaxHolders] /\ table \in Table
      /\ used \in 0 .. MaxFrames /\ capacity \in Int
  BY FrameTableAssumption DEF IInv, TableInv, TypeOK
<1>1. CASE AllocFromFreeList
  <2> DEFINE h == table.first["FreeList"]
             u == PushBack(PopFront(table, "FreeList"), "AllocatedList", h)
  <2>1. /\ h \in Ref /\ table.id[h] = "FreeList"
        /\ PopAsserts(table, "FreeList")
        /\ u.id = [table.id EXCEPT ![h] = "AllocatedList"]
    BY <1>1, IInvSound, ReuseSound DEF AllocFromFreeList
  <2>2. /\ table' = u /\ holders' = [holders EXCEPT ![h] = @ + 1]
        /\ panicked' = panicked /\ strayed' = strayed
    BY <1>1, <2>1 DEF AllocFromFreeList, HandOut
  <2>3. QED
    BY <1>0, <2>1, <2>2 DEF Table
<1>2. CASE AllocFresh
  <2> DEFINE u == PushBack(Reset(table, used), "AllocatedList", used)
  <2>1. used \in Ref /\ table.id[used] = "NoList"
    BY <1>2, FrameTableAssumption
       DEF IInv, TableInv, TypeOK, NoFrameLost, AllocFresh, Ref
  <2>2. u.id = [table.id EXCEPT ![used] = "AllocatedList"]
    BY <2>1, IInvSound, FreshSound
  <2>3. /\ table' = u /\ holders' = [holders EXCEPT ![used] = @ + 1]
        /\ panicked' = panicked /\ strayed' = strayed
    BY <1>2 DEF AllocFresh, HandOut
  <2>4. QED
    BY <1>0, <2>1, <2>2, <2>3 DEF Table
<1>3. CASE AllocFailsBumping
  BY <1>3 DEF AllocFailsBumping, vars
<1>4. CASE AllocFailsFresh
  BY <1>4 DEF AllocFailsFresh
<1>5. ASSUME NEW f \in Ref, FreeFrame(f)
      PROVE  ExclusiveOwnership'
  <2> DEFINE s == RemoveFrame(table, "AllocatedList", f)
             u == PushFront(s, "FreeList", f)
  <2>1. /\ table.id[f] = "AllocatedList" /\ Release(f)
        /\ holders' = [holders EXCEPT ![f] = @ - 1] /\ ~strayed
    BY <1>0, <1>5 DEF FreeFrame
  <2>2. f < capacity
    BY <1>0, <2>1, FrameTableAssumption DEF IInv, TableInv, NoFrameLost, Ref
  <2>3. u.id = [table.id EXCEPT ![f] = "FreeList"]
    BY <2>1, IInvSound, ReleaseSound
  <2>4. table' = u /\ panicked' = panicked /\ strayed' = strayed
    BY <1>5, <2>1, <2>2 DEF Release, FreeFrame
  <2>5. QED
    BY <1>0, <2>1, <2>3, <2>4 DEF Table
<1>6. CASE FreeDevicePage
  BY <1>6 DEF FreeDevicePage
<1>7. CASE UNCHANGED vars
  BY <1>7 DEF vars
<1>8. QED
  BY <1>1, <1>2, <1>3, <1>4, <1>5, <1>6, <1>7 DEF Next

(* Until a DEVICE or CONTIGUOUS object is destroyed, a frame is on the     *)
(* allocated list exactly while one caller holds it, and no assertion of   *)
(* the table fails.                                                        *)
THEOREM FramesHaveOneOwner == Spec => []ExclusiveOwnership
<1>1. Init => IInv /\ ExclusiveOwnership
  BY InitIInv DEF Init, EmptyTable, ExclusiveOwnership
<1>2. IInv /\ ExclusiveOwnership /\ [Next]_vars
        => (IInv /\ ExclusiveOwnership)'
  BY NextIInv, OwnershipStep
<1>3. QED
  BY <1>1, <1>2, PTL DEF Spec

-----------------------------------------------------------------------------
(* Among entries that are ranked one ranks least.                          *)
LEMMA LeastOfRank ==
  ASSUME NEW S, S # {}, S \subseteq Ref, NEW rank \in Rank
  PROVE  \E f \in S : \A g \in S : rank[f] <= rank[g]
<1> DEFINE ranks == {rank[f] : f \in S}
<1>1. ranks \subseteq Nat /\ ranks # {}
  BY DEF Rank
<1> HIDE DEF ranks
<1>2. PICK m \in ranks : \A k \in ranks : m <= k
  BY <1>1, LeastNumber
<1> QED
  BY <1>2 DEF ranks

(* A list with a member has a first entry: the member of least rank has no *)
(* predecessor.                                                            *)
LEMMA FirstIsFound ==
  ASSUME NEW t, Sound(t), NEW l \in Lists, On(t, l) # {}
  PROVE  t.first[l] # None
<1> USE FrameTableAssumption
<1>1. t \in Table /\ LinksMutual(t) /\ HeadersAgree(t) /\ Acyclic(t)
  BY DEF Sound, WellLinked
<1>2. PICK rank \in Rank : Ascends(t, rank)
  BY <1>1 DEF Acyclic
<1>3. PICK f \in On(t, l) : \A g \in On(t, l) : rank[f] <= rank[g]
  BY LeastOfRank DEF On
<1>4. f \in Ref /\ t.id[f] = l
  BY DEF On
<1>5. t.prev[f] = None
  <2> SUFFICES ASSUME t.prev[f] # None PROVE FALSE
    OBVIOUS
  <2> DEFINE p == t.prev[f]
  <2>1. p \in Ref /\ t.next[p] = f /\ t.id[p] = l /\ f # None
    BY <1>1, <1>4 DEF LinksMutual, Table, OptRef, Ref
  <2>2. rank[p] < rank[f] /\ p \in On(t, l)
    BY <1>2, <2>1 DEF Ascends, On
  <2> QED
    BY <1>3, <1>4, <2>1, <2>2 DEF Rank
<1> QED
  BY <1>1, <1>4, <1>5 DEF HeadersAgree, Ref

(* While no page has strayed the steps of the table are those of the pool; *)
(* afterwards the pool promises no more than the types.                    *)
LEMMA StepIsPoolStep ==
  IInv /\ IInv' /\ ExclusiveOwnership /\ [Next]_vars
    => [Pool!Next]_<<holders, used, strayed>>
<1> SUFFICES ASSUME IInv, IInv', ExclusiveOwnership, [Next]_vars,
                    <<holders, used, strayed>>' # <<holders, used, strayed>>
             PROVE  Pool!Next
  OBVIOUS
<1> USE FrameTableAssumption
<1>0. /\ holders \in [Ref -> 0 .. MaxHolders] /\ table \in Table
      /\ used \in 0 .. MaxFrames /\ used' \in 0 .. MaxFrames
      /\ holders' \in [Ref -> 0 .. MaxHolders]
      /\ \A f \in Ref : table.id[f] # "NoList" <=> f < used
      /\ Ref = Pool!Frame
  BY DEF IInv, TableInv, TypeOK, NoFrameLost, Ref, Pool!Frame
<1>1. used <= used'
  BY <1>0 DEF Next, AllocFromFreeList, AllocFresh, AllocFailsBumping, vars,
              AllocFailsFresh, FreeFrame, FreeDevicePage, Release, Panic
<1>2. CASE strayed'
  BY <1>0, <1>1, <1>2 DEF Pool!Next, Pool!Spoil
<1>3. CASE ~strayed'
  <2>1. ~strayed
    BY <1>3 DEF Next, AllocFromFreeList, AllocFresh, AllocFailsBumping, vars,
                AllocFailsFresh, FreeFrame, FreeDevicePage
  <2>2. \A f \in Ref :
          holders[f] = (IF table.id[f] = "AllocatedList" THEN 1 ELSE 0)
    BY <2>1 DEF ExclusiveOwnership
  <2>3. CASE AllocFromFreeList
    <3> DEFINE h == table.first["FreeList"]
    <3>1. h \in Ref /\ table.id[h] = "FreeList" /\ PopAsserts(table, "FreeList")
      BY <2>3, IInvSound, ReuseSound DEF AllocFromFreeList
    <3>2. holders' = [holders EXCEPT ![h] = @ + 1]
          /\ UNCHANGED <<used, strayed>>
      BY <2>3, <3>1 DEF AllocFromFreeList, HandOut
    <3>3. holders[h] = 0 /\ h < used
      BY <1>0, <2>2, <3>1
    <3>4. Pool!Take(h)
      BY <1>0, <3>1, <3>2, <3>3 DEF Pool!Take
    <3> QED
      BY <1>0, <2>1, <3>1, <3>4 DEF Pool!Next
  <2>4. CASE AllocFresh
    <3>1. used \in Ref /\ used' = used + 1 /\ strayed' = strayed
          /\ holders' = [holders EXCEPT ![used] = @ + 1]
      BY <1>0, <2>4 DEF AllocFresh, HandOut, Ref
    <3>2. On(table, "FreeList") = {}
      BY <2>4, IInvSound, FirstIsFound DEF AllocFresh, Lists
    <3>3. \A f \in Ref : f < used => holders[f] = 1
      BY <1>0, <2>2, <3>2 DEF On, Table, ListID, Lists
    <3>4. holders[used] = 0
      BY <1>0, <2>2, <3>1
    <3>5. Pool!Make
      BY <1>0, <2>4, <3>1, <3>3, <3>4 DEF Pool!Make, AllocFresh
    <3> QED
      BY <2>1, <3>5 DEF Pool!Next
  <2>5. ASSUME NEW f \in Ref, FreeFrame(f) PROVE Pool!Next
    <3>1. /\ holders[f] = 1 /\ holders' = [holders EXCEPT ![f] = 0]
          /\ UNCHANGED <<used, strayed>>
      <4>1. holders[f] = 1
        BY <2>2, <2>5 DEF FreeFrame
      <4>2. holders' = [holders EXCEPT ![f] = @ - 1] /\ strayed' = strayed
        BY <2>5 DEF FreeFrame
      <4>3. used' = used
        BY <2>5 DEF FreeFrame, Release
      <4> QED
        BY <1>0, <4>1, <4>2, <4>3
    <3>2. Pool!Give(f)
      BY <3>1 DEF Pool!Give
    <3> QED
      BY <1>0, <2>1, <3>2 DEF Pool!Next
  <2>6. ~AllocFailsBumping /\ ~AllocFailsFresh /\ ~FreeDevicePage
        /\ ~UNCHANGED vars
    BY <1>3 DEF AllocFailsBumping, AllocFailsFresh, FreeDevicePage, vars
  <2> QED
    BY <2>3, <2>4, <2>5, <2>6 DEF Next
<1> QED
  BY <1>2, <1>3

(* The table is the pool of frames that its callers take it for:           *)
(* alloc_frame returns a frame that nobody holds, makes one only when all  *)
(* there are are held, and changes nothing they can see when it fails.     *)
THEOREM TableIsAPool == Spec => ImplementsPool
<1>1. Init => Pool!Init
  BY DEF Init, Pool!Init, Ref, Pool!Frame
<1>2. Init => IInv /\ ExclusiveOwnership
  BY InitIInv DEF Init, EmptyTable, ExclusiveOwnership
<1>3. IInv /\ ExclusiveOwnership /\ [Next]_vars
        => (IInv /\ ExclusiveOwnership)'
  BY NextIInv, OwnershipStep
<1>4. QED
  BY <1>1, <1>2, <1>3, StepIsPoolStep, PTL
     DEF Spec, ImplementsPool, Pool!Spec

-----------------------------------------------------------------------------
(* Walking along `next`, for ListsAreChains.  Induction over the steps of  *)
(* a walk is by sets of numbers.                                           *)
LEMMA NumbersAreReached ==
  ASSUME NEW S, 0 \in S, \A n \in S \cap Nat : n + 1 \in S
  PROVE  Nat \subseteq S
<1> SUFFICES ASSUME Nat \ S # {} PROVE FALSE
  OBVIOUS
<1>1. PICK m \in Nat \ S : \A k \in Nat \ S : m <= k
  BY LeastNumber
<1>2. m # 0 /\ m - 1 \in Nat /\ m - 1 < m
  BY <1>1
<1>3. m - 1 \in S
  BY <1>1, <1>2
<1> QED
  BY <1>1, <1>2, <1>3

(* Repeating a function of D from a member of D stays defined.             *)
Repeats(s, N, D, F, x) ==
  /\ s \in [0 .. N -> D]
  /\ s[0] = x
  /\ \A n \in 1 .. N : s[n] = F[s[n - 1]]

LEMMA RepetitionExists ==
  ASSUME NEW D, NEW F \in [D -> D], NEW x \in D, NEW N \in Nat
  PROVE  \E s : Repeats(s, N, D, F, x)
<1> DEFINE S == {n \in Nat : \E s : Repeats(s, n, D, F, x)}
<1>1. 0 \in S
  <2>1. Repeats([n \in 0 .. 0 |-> x], 0, D, F, x)
    BY DEF Repeats
  <2> QED
    BY <2>1
<1>2. ASSUME NEW n \in S PROVE n + 1 \in S
  <2>1. PICK s : Repeats(s, n, D, F, x)
    BY <1>2
  <2> DEFINE longer == [k \in 0 .. n + 1 |-> IF k <= n THEN s[k] ELSE F[s[n]]]
  <2>2. n \in Nat /\ s \in [0 .. n -> D] /\ F[s[n]] \in D
    BY <2>1 DEF Repeats
  <2>3. longer \in [0 .. n + 1 -> D]
    BY <2>2
  <2>4. longer[0] = x
    BY <2>1, <2>2 DEF Repeats
  <2>5. ASSUME NEW k \in 1 .. n + 1 PROVE longer[k] = F[longer[k - 1]]
    <3>1. CASE k = n + 1
      BY <2>2, <3>1
    <3>2. CASE k # n + 1
      BY <2>1, <2>2, <3>2 DEF Repeats
    <3> QED
      BY <3>1, <3>2
  <2>6. Repeats(longer, n + 1, D, F, x)
    BY <2>3, <2>4, <2>5 DEF Repeats
  <2> QED
    BY <2>2, <2>6
<1> HIDE DEF S
<1>3. Nat \subseteq S
  BY <1>1, <1>2, NumbersAreReached
<1> QED
  BY <1>3 DEF S

(* The function that Walk follows.                                         *)
Walked(t, l) ==
  CHOOSE step : step = [n \in 0 .. MaxFrames |->
    IF n = 0 THEN t.first[l]
    ELSE IF step[n - 1] = None THEN None ELSE t.next[step[n - 1]]]

LEMMA WalkIsWalked ==
  ASSUME NEW t, NEW l
  PROVE  Walk(t, l) = {Walked(t, l)[n] : n \in 0 .. MaxFrames} \ {None}
  BY DEF Walk, Walked

LEMMA WalkedSteps ==
  ASSUME NEW t \in Table, NEW l \in Lists
  PROVE  LET step == Walked(t, l)
         IN /\ step[0] = t.first[l]
            /\ \A n \in 1 .. MaxFrames :
                 step[n] = IF step[n - 1] = None THEN None
                           ELSE t.next[step[n - 1]]
<1> DEFINE F == [x \in OptRef |-> IF x = None THEN None ELSE t.next[x]]
           G(s) == [n \in 0 .. MaxFrames |->
                      IF n = 0 THEN t.first[l]
                      ELSE IF s[n - 1] = None THEN None ELSE t.next[s[n - 1]]]
<1>1. MaxFrames \in Nat /\ None \in OptRef /\ Ref \subseteq OptRef
  BY FrameTableAssumption DEF OptRef
<1>2. F \in [OptRef -> OptRef] /\ t.first[l] \in OptRef
  BY <1>1 DEF Table, OptRef
<1>3. PICK s : Repeats(s, MaxFrames, OptRef, F, t.first[l])
  BY <1>1, <1>2, RepetitionExists
<1>4. \A n \in 1 .. MaxFrames : n - 1 \in 0 .. MaxFrames
  BY <1>1
<1>5. \A n \in 1 .. MaxFrames :
        s[n] = IF s[n - 1] = None THEN None ELSE t.next[s[n - 1]]
  BY <1>3, <1>4 DEF Repeats
<1>6. s = G(s)
  <2>1. s = [n \in 0 .. MaxFrames |-> s[n]]
    BY <1>3 DEF Repeats
  <2>2. \A n \in 0 .. MaxFrames : s[n] = G(s)[n]
    BY <1>1, <1>3, <1>5 DEF Repeats
  <2> QED
    BY <2>1, <2>2
<1>7. Walked(t, l) = G(Walked(t, l))
  BY <1>6 DEF Walked
<1> HIDE DEF F
<1> QED
  BY <1>1, <1>4, <1>7

(* A walk stays on its list.                                               *)
LEMMA WalkStaysOn ==
  ASSUME NEW t, Sound(t), NEW l \in Lists, NEW n \in 0 .. MaxFrames
  PROVE  Walked(t, l)[n] \in On(t, l) \cup {None}
<1> DEFINE step == Walked(t, l)
           S == {k \in Nat : k <= MaxFrames => step[k] \in On(t, l) \cup {None}}
<1> USE FrameTableAssumption
<1>1. t \in Table /\ LinksMutual(t) /\ HeadersAgree(t)
  BY DEF Sound, WellLinked
<1>2. /\ step[0] = t.first[l]
      /\ \A k \in 1 .. MaxFrames :
           step[k] = IF step[k - 1] = None THEN None ELSE t.next[step[k - 1]]
  BY <1>1, WalkedSteps
<1> HIDE DEF step
<1>3. 0 \in S
  BY <1>1, <1>2 DEF HeadersAgree, On, Table, OptRef
<1>4. ASSUME NEW k \in S PROVE k + 1 \in S
  <2> SUFFICES ASSUME k + 1 <= MaxFrames
               PROVE  step[k + 1] \in On(t, l) \cup {None}
    OBVIOUS
  <2>1. k \in Nat /\ step[k] \in On(t, l) \cup {None}
    OBVIOUS
  <2>2. step[k + 1] = IF step[k] = None THEN None ELSE t.next[step[k]]
    BY <1>2, <2>1
  <2>3. CASE step[k] = None
    BY <2>2, <2>3
  <2>4. CASE step[k] # None
    <3>1. step[k] \in Ref /\ t.id[step[k]] = l
      BY <2>1, <2>4 DEF On
    <3> QED
      BY <1>1, <2>2, <2>4, <3>1 DEF LinksMutual, On, Table, OptRef
  <2> QED
    BY <2>3, <2>4
<1> HIDE DEF S
<1>5. n \in S
  BY <1>3, <1>4, NumbersAreReached
<1> QED
  BY <1>5 DEF S, step

(* Ranks go up along a walk, so a walk that has not ended after n steps    *)
(* has met n + 1 entries; there are not so many.                           *)
LEMMA WalkEnds ==
  ASSUME NEW t, Sound(t), NEW l \in Lists
  PROVE  Walked(t, l)[MaxFrames] = None
<1> DEFINE step == Walked(t, l)
<1> USE FrameTableAssumption
<1> SUFFICES ASSUME step[MaxFrames] # None PROVE FALSE
  OBVIOUS
<1>1. t \in Table /\ Acyclic(t) /\ MaxFrames \in Nat
  BY DEF Sound, WellLinked
<1>2. \A k \in 1 .. MaxFrames :
        step[k] = IF step[k - 1] = None THEN None ELSE t.next[step[k - 1]]
  BY <1>1, WalkedSteps
<1>3. PICK rank \in Rank : Ascends(t, rank)
  BY <1>1 DEF Acyclic
<1>4. \A n \in 0 .. MaxFrames : step[n] \in Ref \cup {None}
  BY WalkStaysOn DEF On
<1> HIDE DEF step
<1>5. \A n \in 0 .. MaxFrames : step[n] # None
  <2> DEFINE S == {k \in Nat : k <= MaxFrames => step[MaxFrames - k] # None}
  <2>1. 0 \in S
    BY <1>1
  <2>2. ASSUME NEW k \in S PROVE k + 1 \in S
    <3> SUFFICES ASSUME k + 1 <= MaxFrames, step[MaxFrames - (k + 1)] = None
                 PROVE  FALSE
      OBVIOUS
    <3>1. k \in Nat /\ step[MaxFrames - k] # None
      OBVIOUS
    <3>2. MaxFrames - k \in 1 .. MaxFrames
          /\ (MaxFrames - k) - 1 = MaxFrames - (k + 1)
      BY <1>1, <3>1
    <3> QED
      BY <1>2, <3>1, <3>2
  <2> HIDE DEF S
  <2>3. Nat \subseteq S
    BY <2>1, <2>2, NumbersAreReached
  <2>4. ASSUME NEW n \in 0 .. MaxFrames PROVE step[n] # None
    <3>1. MaxFrames - n \in S /\ MaxFrames - n \in Nat
          /\ MaxFrames - (MaxFrames - n) = n /\ MaxFrames - n <= MaxFrames
      BY <1>1, <2>3
    <3> QED
      BY <3>1 DEF S
  <2> QED
    BY <2>4
<1>6. \A n \in 1 .. MaxFrames : rank[step[n - 1]] < rank[step[n]]
  <2> SUFFICES ASSUME NEW n \in 1 .. MaxFrames
               PROVE  rank[step[n - 1]] < rank[step[n]]
    OBVIOUS
  <2>1. n - 1 \in 0 .. MaxFrames /\ n \in 0 .. MaxFrames
    BY <1>1
  <2>2. step[n - 1] \in Ref /\ step[n] \in Ref /\ step[n] # None
        /\ step[n - 1] # None
    BY <1>4, <1>5, <2>1
  <2>3. step[n] = t.next[step[n - 1]]
    BY <1>2, <2>2
  <2> QED
    BY <1>3, <2>2, <2>3 DEF Ascends
<1>7. \A n, m \in 0 .. MaxFrames : m < n => rank[step[m]] < rank[step[n]]
  <2> DEFINE S == {n \in Nat : n <= MaxFrames =>
                     \A m \in 0 .. n - 1 : rank[step[m]] < rank[step[n]]}
  <2>1. 0 \in S
    OBVIOUS
  <2>2. ASSUME NEW n \in S PROVE n + 1 \in S
    <3> SUFFICES ASSUME n + 1 <= MaxFrames, NEW m \in 0 .. n
                 PROVE  rank[step[m]] < rank[step[n + 1]]
      OBVIOUS
    <3>1. n \in Nat /\ n <= MaxFrames
          /\ \A k \in 0 .. n - 1 : rank[step[k]] < rank[step[n]]
      BY <1>1
    <3>2. n + 1 \in 1 .. MaxFrames /\ (n + 1) - 1 = n
      BY <1>1, <3>1
    <3>3. rank[step[n]] < rank[step[n + 1]]
      BY <1>6, <3>2
    <3>4. rank[step[m]] \in Nat /\ rank[step[n]] \in Nat
          /\ rank[step[n + 1]] \in Nat
      <4>1. m \in 0 .. MaxFrames /\ n \in 0 .. MaxFrames
            /\ n + 1 \in 0 .. MaxFrames
        BY <1>1, <3>1
      <4> QED
        BY <1>4, <1>5, <4>1 DEF Rank
    <3>5. CASE m = n
      BY <3>3, <3>5
    <3>6. CASE m # n
      <4>1. m \in 0 .. n - 1
        BY <3>1, <3>6
      <4> QED
        BY <3>1, <3>3, <3>4, <4>1
    <3> QED
      BY <3>5, <3>6
  <2> HIDE DEF S
  <2>3. Nat \subseteq S
    BY <2>1, <2>2, NumbersAreReached
  <2>4. ASSUME NEW n \in 0 .. MaxFrames, NEW m \in 0 .. MaxFrames, m < n
        PROVE  rank[step[m]] < rank[step[n]]
    <3>1. n \in S /\ m \in 0 .. n - 1 /\ n <= MaxFrames
      BY <1>1, <2>3, <2>4
    <3> QED
      BY <3>1 DEF S
  <2> QED
    BY <2>4
<1>8. \A n, m \in 0 .. MaxFrames : step[m] = step[n] => m = n
  <2> SUFFICES ASSUME NEW n \in 0 .. MaxFrames, NEW m \in 0 .. MaxFrames,
                      step[m] = step[n], m < n
               PROVE  FALSE
    BY <1>1
  <2>1. rank[step[n]] \in Nat
    BY <1>4, <1>5 DEF Rank
  <2> QED
    BY <1>7, <2>1
<1>9. IsFiniteSet(Ref) /\ IsFiniteSet(0 .. MaxFrames)
      /\ Cardinality(Ref) = MaxFrames
      /\ Cardinality(0 .. MaxFrames) = MaxFrames + 1
  <2>1. MaxFrames - 1 \in Int /\ ~(0 > MaxFrames - 1) /\ ~(0 > MaxFrames)
    OBVIOUS
  <2> QED
    BY <1>1, <2>1, FS_Interval DEF Ref
<1> DEFINE met == [n \in 0 .. MaxFrames |-> step[n]]
<1>10. met \in [0 .. MaxFrames -> Ref]
       /\ \A n \in 0 .. MaxFrames : met[n] = step[n]
  BY <1>4, <1>5
<1> HIDE DEF met
<1>11. Cardinality(Ref) < Cardinality(0 .. MaxFrames)
  BY <1>1, <1>9
<1>12. PICK n, m \in 0 .. MaxFrames : n # m /\ met[n] = met[m]
  <2> DEFINE steps == 0 .. MaxFrames
  <2>1. /\ IsFiniteSet(Ref) /\ IsFiniteSet(steps)
        /\ Cardinality(Ref) < Cardinality(steps)
        /\ met \in [steps -> Ref]
    BY <1>9, <1>10, <1>11
  <2> HIDE DEF steps
  <2>2. \E n, m \in steps : n # m /\ met[n] = met[m]
    BY <2>1, FS_PigeonHole
  <2> QED
    BY <2>2 DEF steps
<1> QED
  BY <1>8, <1>10, <1>12

(* And it meets everything that is on the list: of the entries it passed   *)
(* by, the one of least rank is the first or comes after one it met.       *)
LEMMA WalkMeetsAll ==
  ASSUME NEW t, Sound(t), NEW l \in Lists
  PROVE  Walk(t, l) = On(t, l)
<1> DEFINE step == Walked(t, l)
           missed == On(t, l) \ Walk(t, l)
<1> USE FrameTableAssumption
<1>1. t \in Table /\ LinksMutual(t) /\ HeadersAgree(t) /\ Acyclic(t)
      /\ MaxFrames \in Nat
  BY DEF Sound, WellLinked
<1>2. /\ step[0] = t.first[l]
      /\ \A k \in 1 .. MaxFrames :
           step[k] = IF step[k - 1] = None THEN None ELSE t.next[step[k - 1]]
  BY <1>1, WalkedSteps
<1>3. Walk(t, l) = {step[n] : n \in 0 .. MaxFrames} \ {None}
  BY WalkIsWalked
<1>4. Walk(t, l) \subseteq On(t, l)
  BY <1>3, WalkStaysOn
<1>5. step[MaxFrames] = None
  BY WalkEnds
<1> HIDE DEF step
<1>6. missed = {}
  <2> SUFFICES ASSUME missed # {} PROVE FALSE
    OBVIOUS
  <2>1. PICK rank \in Rank : Ascends(t, rank)
    BY <1>1 DEF Acyclic
  <2>2. PICK f \in missed : \A g \in missed : rank[f] <= rank[g]
    BY LeastOfRank DEF On
  <2>3. f \in Ref /\ t.id[f] = l /\ f # None /\ f \notin Walk(t, l)
    BY <2>2 DEF On, Ref
  <2>4. t.prev[f] # None
    <3> SUFFICES ASSUME t.prev[f] = None PROVE FALSE
      OBVIOUS
    <3>1. step[0] = f /\ 0 \in 0 .. MaxFrames
      BY <1>1, <1>2, <2>3 DEF HeadersAgree
    <3> QED
      BY <1>3, <2>3, <3>1
  <2> DEFINE p == t.prev[f]
  <2>5. p \in Ref /\ t.next[p] = f /\ t.id[p] = l
    BY <1>1, <2>3, <2>4 DEF LinksMutual, Table, OptRef
  <2>6. rank[p] < rank[f] /\ rank[p] \in Nat /\ rank[f] \in Nat
    BY <2>1, <2>3, <2>5 DEF Ascends, Rank
  <2> HIDE DEF p
  <2>7. p \in Walk(t, l)
    BY <2>2, <2>5, <2>6 DEF On
  <2>8. PICK n \in 0 .. MaxFrames : step[n] = p /\ p # None
    BY <1>3, <2>7
  <2>9. n + 1 \in 1 .. MaxFrames /\ (n + 1) - 1 = n
    BY <1>1, <1>5, <2>8
  <2>10. step[n + 1] = f /\ n + 1 \in 0 .. MaxFrames
    BY <1>2, <2>5, <2>8, <2>9
  <2> QED
    BY <1>3, <2>3, <2>10
<1> QED
  BY <1>4, <1>6

(* Following `next` from the head of a list meets every entry that is      *)
(* marked as being on it: none is stranded out of pop_front's reach,       *)
(* whatever was allocated, freed, strayed or failed.                       *)
THEOREM ListsAlwaysAreChains == Spec => []ListsAreChains
<1>1. IInv => ListsAreChains
  BY IInvSound, WalkMeetsAll DEF ListsAreChains
<1> QED
  BY <1>1, InitIInv, NextIInv, PTL DEF Spec

=============================================================================

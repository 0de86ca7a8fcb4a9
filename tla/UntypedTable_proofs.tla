------------------------- MODULE UntypedTable_proofs -------------------------
(***************************************************************************)
(* Proofs about UntypedTable, for every number of pages, sizes and         *)
(* structures in a page: no list is tied to another or to itself, no       *)
(* untyped is forgotten but where a failure leaks one, and what is handed  *)
(* out is never a part of something in use.                                *)
(***************************************************************************)
EXTENDS UntypedTable, FiniteSetTheorems, WellFoundedInduction, TLAPS

(* Where a structure can be: on a list, or in one of these places, which   *)
(* the code has no record of.                                              *)
AtHeld   == Top + 1
AtTables == Top + 2
AtLost   == Top + 3
AtCall   == Top + 4
AtSplit  == Top + 5
Unmade   == Top + 6
Places   == Spare .. Unmade
Whereabouts == [UTs -> Places]

(* The lists are stacks.  In each the structures have positions, counted   *)
(* from the bottom, and `next` leads to the position below.                *)
OptUT     == UTs \cup {None}
Links     == [head: [Lists -> OptUT], next: [UTs -> OptUT]]
Positions == [UTs -> Nat]

HeadsOnTop(h, at, pos) ==
  /\ \A l \in Lists : h.head[l] # None => at[h.head[l]] = l
  /\ \A u \in UTs : at[u] \in Lists =>
       h.head[at[u]] # None /\ pos[u] <= pos[h.head[at[u]]]

NextBelow(h, at, pos) ==
  \A u \in UTs : at[u] \in Lists =>
    /\ pos[u] # 0
    /\ pos[u] = 1 => h.next[u] = None
    /\ pos[u] # 1 => /\ h.next[u] # None
                     /\ at[h.next[u]] = at[u]
                     /\ pos[h.next[u]] = pos[u] - 1

OneAtEach(at, pos) ==
  \A u, v \in UTs :
    at[u] \in Lists /\ at[u] = at[v] /\ pos[u] = pos[v] => u = v

StackedAs(h, at, pos) ==
  HeadsOnTop(h, at, pos) /\ NextBelow(h, at, pos) /\ OneAtEach(at, pos)

Stacked(h, at) ==
  /\ h \in Links
  /\ \E pos \in Positions : StackedAs(h, at, pos)

-----------------------------------------------------------------------------
LEMMA Numbers ==
  /\ Pages \in Nat /\ Top \in Nat /\ Top > 0 /\ PerPage \in Nat /\ PerPage > 1
  /\ MaxUT \in Nat /\ Pages <= MaxUT
  /\ UTs = 1 .. MaxUT /\ UTs \subseteq Nat /\ None \notin UTs
  /\ Sizes \subseteq Lists /\ Lists \subseteq Places /\ Spare \notin Sizes
  /\ \A l \in Lists : l # AtHeld /\ l # AtTables /\ l # AtLost /\ l # AtCall
                      /\ l # AtSplit /\ l # Unmade
<1>1. Pages \in Nat /\ Top \in Nat /\ Top > 0 /\ PerPage \in Nat /\ PerPage > 1
  BY UntypedAssumption
<1>2. Pages * PerPage \in Nat /\ Pages * (PerPage + 1) = Pages * PerPage + Pages
  BY <1>1
<1> QED
  BY <1>1, <1>2, UntypedAssumption
     DEF MaxUT, UTs, Sizes, Lists, Spare, Places, Unmade, AtHeld, AtTables,
         AtLost, AtCall, AtSplit

(* push puts a structure that is on no list on top of one.                 *)
LEMMA PushStacks ==
  ASSUME NEW h, NEW at \in Whereabouts, Stacked(h, at),
         NEW l \in Lists, NEW u \in UTs, at[u] \notin Lists
  PROVE  Stacked(Push(h, l, u), [at EXCEPT ![u] = l])
<1> DEFINE g == Push(h, l, u)
           to == [at EXCEPT ![u] = l]
<1>1. h \in Links /\ at \in [UTs -> Places] /\ u # None /\ l \in Places
  BY Numbers DEF Stacked, Whereabouts
<1>2. PICK pos \in Positions : StackedAs(h, at, pos)
  BY DEF Stacked
<1> DEFINE up == IF h.head[l] = None THEN 1 ELSE pos[h.head[l]] + 1
           new == [pos EXCEPT ![u] = up]
<1>3. /\ g.head = [h.head EXCEPT ![l] = u]
      /\ g.next = [h.next EXCEPT ![u] = h.head[l]]
      /\ g \in Links
  BY <1>1 DEF Push, Links, OptUT
<1>4. h.head[l] \in OptUT /\ up \in Nat /\ up > 0
  BY <1>1, <1>2 DEF Links, OptUT, Positions
<1>5. new \in Positions /\ new[u] = up /\ to[u] = l /\ to \in [UTs -> Places]
  BY <1>1, <1>2, <1>4 DEF Positions
<1>6. \A v \in UTs \ {u} : new[v] = pos[v] /\ to[v] = at[v]
  BY <1>1, <1>2 DEF Positions
<1>7. h.head[l] # None => h.head[l] \in UTs \ {u} /\ at[h.head[l]] = l
                          /\ up = pos[h.head[l]] + 1
  BY <1>2, <1>4 DEF StackedAs, HeadsOnTop, OptUT
<1>8. \A v \in UTs : at[v] = l =>
        pos[v] \in Nat /\ pos[v] < up /\ h.head[l] # None
  BY <1>2, <1>4, <1>7 DEF StackedAs, HeadsOnTop, Positions
<1> HIDE DEF up, new, to, g
<1>9. HeadsOnTop(g, to, new)
  <2>1. ASSUME NEW k \in Lists, g.head[k] # None PROVE to[g.head[k]] = k
    BY <1>1, <1>2, <1>3, <1>5, <1>6, <2>1
       DEF StackedAs, HeadsOnTop, Links, OptUT
  <2>2. ASSUME NEW v \in UTs, to[v] \in Lists
        PROVE  g.head[to[v]] # None /\ new[v] <= new[g.head[to[v]]]
    <3>1. CASE to[v] = l
      BY <1>1, <1>3, <1>4, <1>5, <1>6, <1>8, <2>2, <3>1 DEF Links
    <3>2. CASE to[v] # l
      <4>1. v # u /\ at[v] = to[v] /\ g.head[to[v]] = h.head[at[v]]
        BY <1>1, <1>3, <1>5, <1>6, <2>2, <3>2 DEF Links
      <4>2. h.head[at[v]] # None /\ pos[v] <= pos[h.head[at[v]]]
            /\ at[h.head[at[v]]] = at[v] /\ h.head[at[v]] \in UTs
        BY <1>1, <1>2, <2>2, <4>1 DEF StackedAs, HeadsOnTop, Links, OptUT
      <4>3. h.head[at[v]] # u
        BY <2>2, <4>1, <4>2
      <4> QED
        BY <1>6, <4>1, <4>2, <4>3
    <3> QED
      BY <3>1, <3>2
  <2> QED
    BY <2>1, <2>2 DEF HeadsOnTop
<1>10. NextBelow(g, to, new)
  <2> SUFFICES ASSUME NEW v \in UTs, to[v] \in Lists
               PROVE  /\ new[v] # 0
                      /\ new[v] = 1 => g.next[v] = None
                      /\ new[v] # 1 => /\ g.next[v] # None
                                       /\ to[g.next[v]] = to[v]
                                       /\ new[g.next[v]] = new[v] - 1
    BY DEF NextBelow
  <2>1. CASE v = u
    <3>1. g.next[v] = h.head[l]
      BY <1>1, <1>3, <2>1 DEF Links
    <3>2. CASE h.head[l] = None
      BY <1>4, <1>5, <2>1, <3>1, <3>2 DEF up
    <3>3. CASE h.head[l] # None
      <4>1. pos[h.head[l]] \in Nat \ {0} /\ up = pos[h.head[l]] + 1
        BY <1>2, <1>7, <3>3 DEF StackedAs, NextBelow, Positions
      <4> QED
        BY <1>5, <1>6, <1>7, <2>1, <3>1, <3>3, <4>1
    <3> QED
      BY <3>2, <3>3
  <2>2. CASE v # u
    <3>1. at[v] = to[v] /\ new[v] = pos[v] /\ g.next[v] = h.next[v]
      BY <1>1, <1>3, <1>6, <2>2 DEF Links
    <3>2. /\ pos[v] # 0
          /\ pos[v] = 1 => h.next[v] = None
          /\ pos[v] # 1 => /\ h.next[v] # None
                           /\ at[h.next[v]] = at[v]
                           /\ pos[h.next[v]] = pos[v] - 1
      BY <1>2, <3>1 DEF StackedAs, NextBelow
    <3>3. h.next[v] # None => h.next[v] \in UTs
      BY <1>1 DEF Links, OptUT
    <3>4. pos[v] # 1 => h.next[v] \in UTs \ {u}
      BY <3>1, <3>2, <3>3
    <3> QED
      BY <1>6, <3>1, <3>2, <3>4
  <2> QED
    BY <2>1, <2>2
<1>11. OneAtEach(to, new)
  <2> SUFFICES ASSUME NEW v \in UTs, NEW w \in UTs, to[v] \in Lists,
                      to[v] = to[w], new[v] = new[w], v # w
               PROVE  FALSE
    BY DEF OneAtEach
  <2>1. CASE v # u /\ w # u
    BY <1>2, <1>6, <2>1 DEF StackedAs, OneAtEach
  <2>2. CASE v = u
    <3>1. at[w] = l /\ pos[w] = up
      BY <1>5, <1>6, <2>2
    <3>2. pos[w] < up
      BY <1>8, <3>1
    <3> QED
      BY <1>4, <3>1, <3>2
  <2>3. CASE w = u
    <3>1. at[v] = l /\ pos[v] = up
      BY <1>5, <1>6, <2>3
    <3>2. pos[v] < up
      BY <1>8, <3>1
    <3> QED
      BY <1>4, <3>1, <3>2
  <2> QED
    BY <2>1, <2>2, <2>3
<1> QED
  BY <1>3, <1>5, <1>9, <1>10, <1>11 DEF Stacked, StackedAs, g, to

(* pop takes the top of a list, which may then be anywhere else.           *)
LEMMA PopStacks ==
  ASSUME NEW h, NEW at \in Whereabouts, Stacked(h, at),
         NEW l \in Lists, h.head[l] # None,
         NEW p \in Places \ Lists
  PROVE  /\ h.head[l] \in UTs /\ at[h.head[l]] = l
         /\ Pop(h, l).next = h.next
         /\ Stacked(Pop(h, l), [at EXCEPT ![h.head[l]] = p])
<1> DEFINE g == Pop(h, l)
           u == h.head[l]
           to == [at EXCEPT ![u] = p]
<1>1. h \in Links /\ at \in [UTs -> Places] /\ u \in UTs /\ None \notin UTs
  BY Numbers DEF Stacked, Whereabouts, Links, OptUT
<1>2. PICK pos \in Positions : StackedAs(h, at, pos)
  BY DEF Stacked
<1>3. /\ g.head = [h.head EXCEPT ![l] = h.next[u]]
      /\ g.next = h.next
      /\ g \in Links
  BY <1>1 DEF Pop, Links, OptUT
<1>4. at[u] = l /\ h.next[u] \in OptUT
  BY <1>1, <1>2 DEF StackedAs, HeadsOnTop, Links
<1>5. to[u] = p /\ \A v \in UTs \ {u} : to[v] = at[v]
  BY <1>1
<1>6. \A v \in UTs : to[v] \in Lists => v # u /\ to[v] = at[v]
  BY <1>5
<1>7. \A v \in UTs : pos[v] \in Nat
  BY <1>2 DEF Positions
<1>8. \A v \in UTs \ {u} : at[v] = l => pos[v] < pos[u]
  BY <1>1, <1>2, <1>4, <1>7 DEF StackedAs, HeadsOnTop, OneAtEach
<1>9. /\ pos[u] # 0
      /\ pos[u] = 1 => h.next[u] = None
      /\ pos[u] # 1 => /\ h.next[u] \in UTs \ {u}
                       /\ at[h.next[u]] = l
                       /\ pos[h.next[u]] = pos[u] - 1
  BY <1>1, <1>2, <1>4, <1>7 DEF StackedAs, NextBelow, OptUT
<1> HIDE DEF g, to, u
<1>10. HeadsOnTop(g, to, pos)
  <2>1. ASSUME NEW k \in Lists, g.head[k] # None PROVE to[g.head[k]] = k
    <3>1. CASE k = l
      BY <1>1, <1>3, <1>5, <1>9, <2>1, <3>1 DEF Links
    <3>2. CASE k # l
      <4>1. g.head[k] = h.head[k] /\ at[h.head[k]] = k /\ h.head[k] \in UTs
        BY <1>1, <1>2, <1>3, <2>1, <3>2
           DEF StackedAs, HeadsOnTop, Links, OptUT
      <4> QED
        BY <1>4, <1>5, <3>2, <4>1
    <3> QED
      BY <3>1, <3>2
  <2>2. ASSUME NEW v \in UTs, to[v] \in Lists
        PROVE  g.head[to[v]] # None /\ pos[v] <= pos[g.head[to[v]]]
    <3>1. v # u /\ to[v] = at[v] /\ at[v] \in Lists
      BY <1>6, <2>2
    <3>2. CASE at[v] = l
      <4>1. pos[v] < pos[u] /\ pos[v] # 0 /\ pos[u] # 1
        BY <1>1, <1>2, <1>7, <1>8, <3>1, <3>2 DEF StackedAs, NextBelow
      <4>2. g.head[l] = h.next[u]
        BY <1>1, <1>3 DEF Links
      <4> QED
        BY <1>1, <1>7, <1>9, <3>1, <3>2, <4>1, <4>2
    <3>3. CASE at[v] # l
      BY <1>1, <1>2, <1>3, <3>1, <3>3 DEF StackedAs, HeadsOnTop, Links
    <3> QED
      BY <3>2, <3>3
  <2> QED
    BY <2>1, <2>2 DEF HeadsOnTop
<1>11. NextBelow(g, to, pos)
  <2> SUFFICES ASSUME NEW v \in UTs, to[v] \in Lists
               PROVE  /\ pos[v] # 0
                      /\ pos[v] = 1 => h.next[v] = None
                      /\ pos[v] # 1 => /\ h.next[v] # None
                                       /\ to[h.next[v]] = to[v]
                                       /\ pos[h.next[v]] = pos[v] - 1
    BY <1>3 DEF NextBelow
  <2>1. v # u /\ to[v] = at[v] /\ at[v] \in Lists
    BY <1>6
  <2>2. /\ pos[v] # 0
        /\ pos[v] = 1 => h.next[v] = None
        /\ pos[v] # 1 => /\ h.next[v] # None
                         /\ at[h.next[v]] = at[v]
                         /\ pos[h.next[v]] = pos[v] - 1
    BY <1>2, <2>1 DEF StackedAs, NextBelow
  <2>3. ASSUME pos[v] # 1 PROVE h.next[v] \in UTs \ {u}
    <3>1. h.next[v] \in UTs
      BY <1>1, <2>2, <2>3 DEF Links, OptUT
    <3>2. at[v] = l => pos[v] < pos[u]
      BY <1>8, <2>1
    <3> QED
      BY <1>4, <1>7, <1>1, <2>2, <2>3, <3>1, <3>2
  <2> QED
    BY <1>5, <2>1, <2>2, <2>3
<1>12. OneAtEach(to, pos)
  BY <1>2, <1>6 DEF StackedAs, OneAtEach
<1> QED
  BY <1>1, <1>2, <1>3, <1>4, <1>10, <1>11, <1>12
     DEF Stacked, StackedAs, g, to, u

(* What is on no list may go anywhere else off the lists.                  *)
LEMMA MoveStacks ==
  ASSUME NEW h, NEW at \in Whereabouts, Stacked(h, at),
         NEW u \in UTs, at[u] \notin Lists, NEW p \in Places \ Lists
  PROVE  Stacked(h, [at EXCEPT ![u] = p])
<1> DEFINE to == [at EXCEPT ![u] = p]
<1>1. PICK pos \in Positions : StackedAs(h, at, pos)
  BY DEF Stacked
<1>2. h \in Links
  BY DEF Stacked
<1>3. to[u] = p /\ \A v \in UTs \ {u} : to[v] = at[v]
  BY DEF Whereabouts
<1>4. \A v \in UTs : (to[v] \in Lists \/ at[v] \in Lists) => to[v] = at[v]
  BY <1>3
<1> HIDE DEF to
<1>5. HeadsOnTop(h, to, pos)
  BY <1>1, <1>2, <1>4 DEF StackedAs, HeadsOnTop, Links, OptUT
<1>6. NextBelow(h, to, pos)
  BY <1>1, <1>2, <1>4 DEF StackedAs, NextBelow, Links, OptUT
<1>7. OneAtEach(to, pos)
  BY <1>1, <1>4 DEF StackedAs, OneAtEach
<1> QED
  BY <1>1, <1>2, <1>5, <1>6, <1>7 DEF Stacked, StackedAs, to

-----------------------------------------------------------------------------
(* Induction over numbers, by sets of them.                                *)
LEMMA LeastNumber ==
  ASSUME NEW S, S \subseteq Nat, S # {}
  PROVE  \E m \in S : \A k \in S : m <= k
<1>1. \E m \in S : \A k \in S : ~(<<k, m>> \in OpToRel(<, Nat))
  BY WFMin, NatLessThanWellFounded, Zenon
<1>2. PICK m \in S : \A k \in S : ~(k < m)
  BY <1>1, Zenon DEF OpToRel
<1> QED
  BY <1>2

LEMMA NumbersAreReached ==
  ASSUME NEW S, 0 \in S, \A n \in S \cap Nat : n + 1 \in S
  PROVE  Nat \subseteq S
<1> SUFFICES ASSUME Nat \ S # {} PROVE FALSE
  OBVIOUS
<1>1. PICK m \in Nat \ S : \A k \in Nat \ S : m <= k
  BY LeastNumber
<1>2. m # 0 /\ m - 1 \in Nat /\ m - 1 < m
  BY <1>1
<1>3. m - 1 \in S
  BY <1>1, <1>2
<1> QED
  BY <1>1, <1>2, <1>3

(* Taking N steps, each by a function of its own, from a member of D.      *)
Repeats(s, N, D, F, x) ==
  /\ s \in [0 .. N -> D]
  /\ s[0] = x
  /\ \A n \in 1 .. N : s[n] = F[n][s[n - 1]]

LEMMA RepetitionExists ==
  ASSUME NEW D, NEW F \in [Nat -> [D -> D]], NEW x \in D, NEW N \in Nat
  PROVE  \E s : Repeats(s, N, D, F, x)
<1> DEFINE S == {n \in Nat : \E s : Repeats(s, n, D, F, x)}
<1>1. 0 \in S
  <2>1. Repeats([n \in 0 .. 0 |-> x], 0, D, F, x)
    BY DEF Repeats
  <2> QED
    BY <2>1
<1>2. ASSUME NEW n \in S PROVE n + 1 \in S
  <2>1. PICK s : Repeats(s, n, D, F, x)
    BY <1>2
  <2> DEFINE last == F[n + 1][s[n]]
             longer == [k \in 0 .. n + 1 |-> IF k <= n THEN s[k] ELSE last]
  <2>2. n \in Nat /\ s \in [0 .. n -> D] /\ last \in D
    <3>1. n \in Nat /\ n + 1 \in Nat /\ s[n] \in D
      BY <2>1 DEF Repeats
    <3>2. F[n + 1] \in [D -> D]
      BY <3>1
    <3> QED
      BY <2>1, <3>1, <3>2 DEF Repeats
  <2>3. longer \in [0 .. n + 1 -> D]
    BY <2>2
  <2>4. longer[0] = x
    BY <2>1, <2>2 DEF Repeats
  <2>5. ASSUME NEW k \in 1 .. n + 1 PROVE longer[k] = F[k][longer[k - 1]]
    <3>1. CASE k = n + 1
      BY <2>2, <3>1
    <3>2. CASE k # n + 1
      BY <2>1, <2>2, <3>2 DEF Repeats
    <3> QED
      BY <3>1, <3>2
  <2> HIDE DEF last, longer
  <2>6. Repeats(longer, n + 1, D, F, x)
    BY <2>3, <2>4, <2>5 DEF Repeats
  <2> QED
    BY <2>2, <2>6
<1> HIDE DEF S
<1>3. Nat \subseteq S
  BY <1>1, <1>2, NumbersAreReached
<1> QED
  BY <1>3 DEF S

(* ensure_new_structures links the structures of a page one by one.        *)
LEMMA PushIsLinks ==
  ASSUME NEW h \in Links, NEW l \in Lists, NEW u \in UTs
  PROVE  Push(h, l, u) \in Links
  BY DEF Push, Links, OptUT

Upto(h) ==
  CHOOSE up : up = [n \in 0 .. PerPage |->
    IF n = 0 THEN h ELSE Push(up[n - 1], Spare, made + n)]

LEMMA UptoSteps ==
  ASSUME NEW h \in Links, made \in Nat, made + PerPage <= MaxUT
  PROVE  /\ MorePushed(h) = Upto(h)[PerPage]
         /\ Upto(h)[0] = h
         /\ \A n \in 1 .. PerPage :
              Upto(h)[n] = Push(Upto(h)[n - 1], Spare, made + n)
<1> DEFINE F == [n \in Nat |-> [g \in Links |->
                   IF n \in 1 .. PerPage THEN Push(g, Spare, made + n) ELSE g]]
           G(s) == [n \in 0 .. PerPage |->
                      IF n = 0 THEN h ELSE Push(s[n - 1], Spare, made + n)]
<1>1. PerPage \in Nat /\ \A n \in 1 .. PerPage : made + n \in UTs
  BY Numbers
<1>2. F \in [Nat -> [Links -> Links]]
  <2>1. ASSUME NEW n \in Nat, NEW g \in Links PROVE F[n][g] \in Links
    <3>1. CASE n \in 1 .. PerPage
      BY <1>1, <3>1, PushIsLinks DEF Lists
    <3>2. CASE n \notin 1 .. PerPage
      BY <3>2
    <3> QED
      BY <3>1, <3>2
  <2> QED
    BY <2>1
<1>3. \A n \in 1 .. PerPage :
        \A g \in Links : F[n][g] = Push(g, Spare, made + n)
  BY <1>1
<1> HIDE DEF F
<1>4. PICK s : Repeats(s, PerPage, Links, F, h)
  BY <1>1, <1>2, RepetitionExists
<1>5. \A n \in 1 .. PerPage : n - 1 \in 0 .. PerPage
  BY <1>1
<1>6. \A n \in 1 .. PerPage : s[n] = Push(s[n - 1], Spare, made + n)
  <2> TAKE n \in 1 .. PerPage
  <2>1. s[n - 1] \in Links /\ s[n] = F[n][s[n - 1]]
    BY <1>4, <1>5 DEF Repeats
  <2> QED
    BY <1>3, <2>1
<1>7. s = G(s)
  <2>1. s = [n \in 0 .. PerPage |-> s[n]]
    BY <1>4 DEF Repeats
  <2>2. s[0] = G(s)[0]
    BY <1>1, <1>4 DEF Repeats
  <2>3. \A n \in 1 .. PerPage : s[n] = G(s)[n]
    BY <1>1, <1>6
  <2>4. \A n \in 0 .. PerPage : n = 0 \/ n \in 1 .. PerPage
    BY <1>1
  <2> HIDE DEF G
  <2>5. \A n \in 0 .. PerPage : s[n] = G(s)[n]
    BY <2>2, <2>3, <2>4
  <2> QED
    BY <2>1, <2>5 DEF G
<1>8. Upto(h) = G(Upto(h))
  BY <1>7 DEF Upto
<1>9. MorePushed(h) = Upto(h)[PerPage]
  BY DEF MorePushed, Upto
<1> QED
  BY <1>1, <1>5, <1>8, <1>9

LEMMA MoreStacks ==
  ASSUME NEW h, NEW at \in Whereabouts, Stacked(h, at), made \in Nat,
         made + PerPage <= MaxUT, \A u \in UTs : at[u] = Unmade <=> u > made
  PROVE  Stacked(MorePushed(h),
                 [u \in UTs |-> IF u \in made + 1 .. made + PerPage
                                THEN Spare ELSE at[u]])
<1> DEFINE to(n) == [u \in UTs |-> IF u \in made + 1 .. made + n
                                   THEN Spare ELSE at[u]]
           S == {n \in Nat : n <= PerPage => Stacked(Upto(h)[n], to(n))}
<1>1. h \in Links /\ PerPage \in Nat
  BY Numbers DEF Stacked
<1>2. /\ Upto(h)[0] = h
      /\ \A n \in 1 .. PerPage :
           Upto(h)[n] = Push(Upto(h)[n - 1], Spare, made + n)
  BY <1>1, UptoSteps
<1>3. 0 \in S
  <2>1. to(0) = at
    BY DEF Whereabouts
  <2> QED
    BY <1>2, <2>1
<1>4. ASSUME NEW n \in S PROVE n + 1 \in S
  <2> SUFFICES ASSUME n + 1 <= PerPage
               PROVE  Stacked(Upto(h)[n + 1], to(n + 1))
    OBVIOUS
  <2> DEFINE u == made + (n + 1)
  <2>1. n \in Nat /\ Stacked(Upto(h)[n], to(n))
    BY <1>1
  <2>2. u \in UTs /\ at[u] = Unmade /\ u \notin made + 1 .. made + n
    <3>1. u \in Nat /\ u > made /\ u <= MaxUT /\ u > 0 /\ u > made + n
      BY <1>1, <2>1, Numbers
    <3>2. u \in UTs
      BY <3>1, Numbers
    <3>3. u \notin made + 1 .. made + n
      BY <2>1, <3>1
    <3> HIDE DEF u
    <3> QED
      BY <3>1, <3>2, <3>3
  <2>3. to(n) \in Whereabouts /\ to(n)[u] \notin Lists /\ Spare \in Lists
    BY <2>1, <2>2, Numbers DEF Whereabouts, Lists
  <2>4. to(n + 1) = [to(n) EXCEPT ![u] = Spare]
    <3>1. \A v \in UTs : v \in made + 1 .. made + (n + 1)
            <=> v \in made + 1 .. made + n \/ v = u
      BY <2>1, Numbers
    <3> QED
      BY <2>2, <3>1
  <2>5. Upto(h)[n + 1] = Push(Upto(h)[n], Spare, u)
    <3>1. n + 1 \in 1 .. PerPage /\ (n + 1) - 1 = n
      BY <1>1, <2>1
    <3> QED
      BY <1>2, <3>1
  <2> HIDE DEF to, u
  <2>6. Stacked(Push(Upto(h)[n], Spare, u), [to(n) EXCEPT ![u] = Spare])
    BY <2>1, <2>2, <2>3, PushStacks
  <2> QED
    BY <2>4, <2>5, <2>6
<1> HIDE DEF S
<1>5. PerPage \in S
  BY <1>1, <1>3, <1>4, NumbersAreReached
<1>6. Stacked(Upto(h)[PerPage], to(PerPage))
  BY <1>1, <1>5 DEF S
<1> QED
  BY <1>1, <1>6, UptoSteps

-----------------------------------------------------------------------------
(* Below the top of a list there is a structure at every position, so a    *)
(* list is never longer than there are structures.                         *)
LEMMA PositionsAreTaken ==
  ASSUME NEW h \in Links, NEW at \in Whereabouts, NEW pos \in Positions,
         StackedAs(h, at, pos), NEW l \in Lists, h.head[l] # None,
         NEW k \in 1 .. pos[h.head[l]]
  PROVE  \E v \in UTs : at[v] = l /\ pos[v] = k
<1> DEFINE top == pos[h.head[l]]
           S == {n \in Nat : n < top =>
                   \E v \in UTs : at[v] = l /\ pos[v] = top - n}
<1>1. h.head[l] \in UTs /\ at[h.head[l]] = l /\ top \in Nat
  BY DEF Links, OptUT, Positions, StackedAs, HeadsOnTop
<1> HIDE DEF top
<1>2. 0 \in S
  BY <1>1 DEF top
<1>3. ASSUME NEW n \in S PROVE n + 1 \in S
  <2> SUFFICES ASSUME n + 1 < top
               PROVE  \E v \in UTs : at[v] = l /\ pos[v] = top - (n + 1)
    OBVIOUS
  <2>1. n \in Nat /\ n < top
    BY <1>1
  <2>2. PICK v \in UTs : at[v] = l /\ pos[v] = top - n
    BY <2>1
  <2>3. pos[v] # 1 /\ top - n - 1 = top - (n + 1)
    BY <1>1, <2>1, <2>2
  <2>4. h.next[v] # None /\ at[h.next[v]] = l /\ pos[h.next[v]] = pos[v] - 1
    BY <2>2, <2>3 DEF StackedAs, NextBelow
  <2>5. h.next[v] \in UTs
    BY <2>2, <2>4 DEF Links, OptUT
  <2> QED
    BY <2>2, <2>3, <2>4, <2>5
<1> HIDE DEF S
<1>4. k \in 1 .. top /\ top - k \in Nat /\ top - k < top /\ top - (top - k) = k
  BY <1>1 DEF top
<1>5. top - k \in S
  BY <1>2, <1>3, <1>4, NumbersAreReached
<1> QED
  BY <1>4, <1>5 DEF S

LEMMA CountUpTo ==
  ASSUME NEW n \in Nat
  PROVE  IsFiniteSet(1 .. n) /\ Cardinality(1 .. n) = n
<1>1. IsFiniteSet(1 .. n)
      /\ Cardinality(1 .. n) = IF 1 > n THEN 0 ELSE n - 1 + 1
  BY FS_Interval
<1> QED
  BY <1>1

LEMMA ListsAreShort ==
  ASSUME NEW h \in Links, NEW at \in Whereabouts, NEW pos \in Positions,
         StackedAs(h, at, pos), NEW l \in Lists, h.head[l] # None
  PROVE  pos[h.head[l]] <= MaxUT
<1> DEFINE top == pos[h.head[l]]
           ranks == 1 .. top
           who == [k \in ranks |-> CHOOSE v \in UTs : at[v] = l /\ pos[v] = k]
<1>1. top \in Nat /\ MaxUT \in Nat /\ UTs = 1 .. MaxUT
  BY Numbers DEF Links, OptUT, Positions
<1>2. \A k \in ranks : who[k] \in UTs /\ pos[who[k]] = k
  BY PositionsAreTaken
<1>3. /\ IsFiniteSet(UTs) /\ Cardinality(UTs) = MaxUT
      /\ IsFiniteSet(ranks) /\ Cardinality(ranks) = top
  <2> HIDE DEF top
  <2> QED
    BY <1>1, CountUpTo
<1> HIDE DEF top
<1> SUFFICES ASSUME ~(top <= MaxUT) PROVE FALSE
  BY DEF top
<1>4. Cardinality(UTs) < Cardinality(ranks)
  BY <1>1, <1>3
<1>5. who \in [ranks -> UTs]
  BY <1>2
<1> HIDE DEF ranks, who
<1>6. PICK j, k \in ranks : j # k /\ who[j] = who[k]
  BY <1>3, <1>4, <1>5, FS_PigeonHole
<1> QED
  BY <1>2, <1>6

(* What Led follows.                                                       *)
After(l) ==
  CHOOSE after : after = [n \in 0 .. MaxUT |->
    IF n = 0 THEN {head[l]} ELSE Hop(after[n - 1])]

LEMMA AfterSteps ==
  ASSUME Now \in Links, NEW l \in Lists
  PROVE  /\ Led(l) = After(l)[MaxUT]
         /\ After(l)[0] = {head[l]}
         /\ \A n \in 1 .. MaxUT : After(l)[n] = Hop(After(l)[n - 1])
         /\ \A n \in 0 .. MaxUT : After(l)[n] \subseteq OptUT
<1> DEFINE D == SUBSET OptUT
           F == [n \in Nat |-> [U \in D |-> Hop(U)]]
           G(s) == [n \in 0 .. MaxUT |->
                      IF n = 0 THEN {head[l]} ELSE Hop(s[n - 1])]
<1>1. MaxUT \in Nat
  BY Numbers
<1>2. head[l] \in OptUT /\ \A u \in UTs : next[u] \in OptUT
  BY DEF Now, Links
<1>3. \A U \in D : Hop(U) \in D
  BY <1>2 DEF Hop, OptUT
<1>4. F \in [Nat -> [D -> D]] /\ \A n \in Nat : \A U \in D : F[n][U] = Hop(U)
  BY <1>3
<1>5. {head[l]} \in D
  BY <1>2
<1> HIDE DEF D, F
<1>6. PICK s : Repeats(s, MaxUT, D, F, {head[l]})
  BY <1>1, <1>4, <1>5, RepetitionExists
<1>7. /\ 0 \in 0 .. MaxUT
      /\ \A n \in 1 .. MaxUT :
           n - 1 \in 0 .. MaxUT /\ n \in 0 .. MaxUT /\ n \in Nat /\ n # 0
  BY <1>1
<1>8. \A n \in 1 .. MaxUT : s[n] = Hop(s[n - 1])
  BY <1>4, <1>6, <1>7 DEF Repeats
<1>9. s = G(s)
  <2>1. s = [n \in 0 .. MaxUT |-> s[n]]
    BY <1>6 DEF Repeats
  <2>2. s[0] = G(s)[0]
    BY <1>1, <1>6 DEF Repeats
  <2>3. \A n \in 1 .. MaxUT : s[n] = G(s)[n]
    BY <1>1, <1>8
  <2>4. \A n \in 0 .. MaxUT : n = 0 \/ n \in 1 .. MaxUT
    BY <1>1
  <2> HIDE DEF G
  <2>5. \A n \in 0 .. MaxUT : s[n] = G(s)[n]
    BY <2>2, <2>3, <2>4
  <2> QED
    BY <2>1, <2>5 DEF G
<1>10. After(l) = G(After(l))
  BY <1>9 DEF After
<1>11. Led(l) = After(l)[MaxUT]
  BY DEF Led, After
<1>12. After(l)[0] = {head[l]}
       /\ \A n \in 1 .. MaxUT : After(l)[n] = Hop(After(l)[n - 1])
  BY <1>7, <1>10
<1>13. ASSUME NEW n \in 0 .. MaxUT PROVE After(l)[n] \in D
  <2> DEFINE S == {k \in Nat : k <= MaxUT => After(l)[k] \in D}
  <2>1. 0 \in S
    BY <1>5, <1>12
  <2>2. ASSUME NEW k \in S PROVE k + 1 \in S
    <3> SUFFICES ASSUME k + 1 <= MaxUT PROVE After(l)[k + 1] \in D
      OBVIOUS
    <3>1. k + 1 \in 1 .. MaxUT /\ (k + 1) - 1 = k /\ After(l)[k] \in D
      BY <1>1
    <3> QED
      BY <1>3, <1>12, <3>1 DEF D
  <2> HIDE DEF S
  <2>3. n \in S
    BY <2>1, <2>2, NumbersAreReached
  <2> QED
    BY <1>1, <2>3 DEF S
<1> QED
  BY <1>11, <1>12, <1>13 DEF D

(* The links of a list lead to what is on it, and to its end.              *)
LEMMA ListsAreFollowed ==
  ASSUME NEW at \in Whereabouts, Stacked(Now, at), NEW l \in Lists
  PROVE  On(l) = {u \in UTs : at[u] = l} /\ Ends(l)
<1>1. Now \in Links /\ Now.head = head /\ Now.next = next
  BY DEF Stacked, Now
<1>2. PICK pos \in Positions : StackedAs(Now, at, pos)
  BY DEF Stacked
<1>3. /\ Led(l) = After(l)[MaxUT]
      /\ After(l)[0] = {head[l]}
      /\ \A n \in 1 .. MaxUT : After(l)[n] = Hop(After(l)[n - 1])
      /\ \A n \in 0 .. MaxUT : After(l)[n] \subseteq OptUT
  BY <1>1, AfterSteps
<1>4. MaxUT \in Nat /\ None \notin UTs
  BY Numbers
<1> DEFINE at_l == {u \in UTs : at[u] = l}
           after == After(l)
<1> HIDE DEF after
<1>5. ASSUME NEW n \in 0 .. MaxUT PROVE after[n] \subseteq at_l \cup {None}
  <2> DEFINE S ==
        {k \in Nat : k <= MaxUT => after[k] \subseteq at_l \cup {None}}
  <2>1. 0 \in S
    <3>1. head[l] # None => head[l] \in UTs /\ at[head[l]] = l
      BY <1>1, <1>2 DEF StackedAs, HeadsOnTop, Links, OptUT
    <3> QED
      BY <1>3, <3>1 DEF after
  <2>2. ASSUME NEW k \in S PROVE k + 1 \in S
    <3> SUFFICES ASSUME k + 1 <= MaxUT, NEW x \in after[k + 1]
                 PROVE  x \in at_l \cup {None}
      OBVIOUS
    <3>1. k + 1 \in 1 .. MaxUT /\ (k + 1) - 1 = k
          /\ after[k] \subseteq at_l \cup {None}
      BY <1>4
    <3>2. x \in Hop(after[k])
      BY <1>3, <3>1 DEF after
    <3>3. ASSUME NEW u \in at_l PROVE next[u] \in at_l \cup {None}
      BY <1>1, <1>2 DEF StackedAs, NextBelow, Links, OptUT
    <3> QED
      BY <3>1, <3>2, <3>3 DEF Hop
  <2> HIDE DEF S
  <2>3. n \in S
    BY <2>1, <2>2, NumbersAreReached
  <2> QED
    BY <1>4, <2>3 DEF S
<1>6. CASE head[l] = None
  <2>1. at_l = {}
    BY <1>1, <1>2, <1>6 DEF StackedAs, HeadsOnTop
  <2>2. ASSUME NEW n \in 0 .. MaxUT PROVE None \in after[n]
    <3> DEFINE S == {k \in Nat : k <= MaxUT => None \in after[k]}
    <3>1. 0 \in S
      BY <1>3, <1>6 DEF after
    <3>2. ASSUME NEW k \in S PROVE k + 1 \in S
      <4>1. k + 1 <= MaxUT => k + 1 \in 1 .. MaxUT /\ (k + 1) - 1 = k
        OBVIOUS
      <4> QED
        BY <1>3, <1>4, <4>1 DEF after, Hop
    <3> HIDE DEF S
    <3>3. n \in S
      BY <3>1, <3>2, NumbersAreReached
    <3> QED
      BY <1>4, <3>3 DEF S
  <2> QED
    BY <1>3, <1>4, <1>5, <2>1, <2>2 DEF On, Ends, after
<1>7. CASE head[l] # None
  <2> DEFINE top == pos[head[l]]
  <2>1. /\ head[l] \in UTs /\ at[head[l]] = l /\ top \in Nat /\ top # 0
        /\ top <= MaxUT
    BY <1>1, <1>2, <1>7, ListsAreShort
       DEF StackedAs, HeadsOnTop, NextBelow, Links, OptUT, Positions
  <2>2. \A u \in at_l : pos[u] \in 1 .. top
    BY <1>1, <1>2, <2>1 DEF StackedAs, HeadsOnTop, NextBelow, Positions
  <2> HIDE DEF top
  <2>3. ASSUME NEW n \in 0 .. MaxUT, NEW u \in at_l, pos[u] >= top - n
        PROVE  u \in after[n]
    <3> DEFINE S == {k \in Nat : k <= MaxUT =>
                       \A v \in at_l : pos[v] >= top - k => v \in after[k]}
    <3>1. 0 \in S
      <4> SUFFICES ASSUME NEW v \in at_l, pos[v] >= top PROVE v \in after[0]
        BY <2>1
      <4>1. pos[v] = pos[head[l]]
        BY <2>1, <2>2 DEF top
      <4>2. v = head[l]
        BY <1>2, <2>1, <4>1 DEF StackedAs, OneAtEach
      <4> QED
        BY <1>3, <4>2 DEF after
    <3>2. ASSUME NEW k \in S PROVE k + 1 \in S
      <4> SUFFICES ASSUME k + 1 <= MaxUT, NEW v \in at_l,
                          pos[v] >= top - (k + 1)
                   PROVE  v \in after[k + 1]
        OBVIOUS
      <4>1. k \in Nat /\ k + 1 \in 1 .. MaxUT /\ (k + 1) - 1 = k
            /\ \A w \in at_l : pos[w] >= top - k => w \in after[k]
        BY <1>4
      <4>2. after[k + 1] = Hop(after[k]) /\ after[k] \subseteq OptUT
        BY <1>3, <1>4, <4>1 DEF after
      <4>3. CASE pos[v] >= top - k
        BY <4>1, <4>2, <4>3 DEF Hop
      <4>4. CASE ~(pos[v] >= top - k)
        <5>1. pos[v] \in Nat /\ pos[v] + 1 = top - k /\ pos[v] + 1 \in 1 .. top
          BY <2>1, <2>2, <4>1, <4>4
        <5>2. PICK w \in UTs : at[w] = l /\ pos[w] = pos[v] + 1
          BY <1>1, <1>2, <1>7, <5>1, PositionsAreTaken DEF top
        <5>3. w \in after[k] /\ w # None
          BY <1>4, <2>1, <4>1, <5>1, <5>2
        <5>4. pos[w] # 1
          BY <2>2, <5>1, <5>2
        <5>5. next[w] # None /\ at[next[w]] = l /\ pos[next[w]] = pos[v]
          BY <1>1, <1>2, <5>1, <5>2, <5>4 DEF StackedAs, NextBelow
        <5>6. next[w] \in UTs
          BY <1>1, <5>2, <5>5 DEF Links, OptUT
        <5>7. next[w] = v
          BY <1>2, <5>5, <5>6 DEF StackedAs, OneAtEach
        <5> QED
          BY <4>2, <5>3, <5>7 DEF Hop
      <4> QED
        BY <4>3, <4>4
    <3> HIDE DEF S
    <3>3. n \in S
      BY <3>1, <3>2, NumbersAreReached
    <3> QED
      BY <1>4, <2>3, <3>3 DEF S
  <2>4. at_l \subseteq after[MaxUT]
    <3>1. \A u \in at_l : pos[u] >= top - MaxUT
      BY <1>4, <2>1, <2>2
    <3> QED
      BY <1>4, <2>3, <3>1
  <2>5. None \in after[MaxUT]
    <3>1. 1 \in 1 .. top /\ MaxUT - 1 \in 0 .. MaxUT /\ MaxUT \in 1 .. MaxUT
      BY <1>4, <2>1
    <3>2. PICK v \in UTs : at[v] = l /\ pos[v] = 1
      BY <1>1, <1>2, <1>7, <3>1, PositionsAreTaken DEF top
    <3>3. next[v] = None
      BY <1>1, <1>2, <3>2 DEF StackedAs, NextBelow
    <3>4. v \in after[MaxUT - 1]
      <4>1. pos[v] >= top - (MaxUT - 1)
        BY <1>4, <2>1, <3>2
      <4> QED
        BY <2>3, <3>1, <3>2, <4>1
    <3>5. after[MaxUT] = Hop(after[MaxUT - 1]) /\ v # None
      BY <1>3, <1>4, <3>1 DEF after
    <3> QED
      BY <3>3, <3>4, <3>5 DEF Hop
  <2>6. after[MaxUT] \subseteq at_l \cup {None}
    BY <1>4, <1>5
  <2> QED
    BY <1>3, <1>4, <2>4, <2>5, <2>6 DEF On, Ends, after
<1> QED
  BY <1>6, <1>7

-----------------------------------------------------------------------------
(* The inductive invariant: there is a place for every structure such that *)
(* the lists are stacks of what is on them, and the places of the rest are *)
(* what the code's callers believe.                                        *)
Holdings(at) ==
  /\ held   = {u \in UTs : at[u] = AtHeld}
  /\ tables = {u \in UTs : at[u] = AtTables}
  /\ lost   = {u \in UTs : at[u] = AtLost}
  /\ InCall = {u \in UTs : at[u] = AtCall}

Families(at) ==
  /\ \A u \in UTs : parent[u] # None => at[parent[u]] = AtSplit
  /\ \A u \in UTs : at[u] = AtSplit => \E v \in UTs : parent[v] = u
  /\ \A u \in UTs : at[u] \in {Spare, Unmade} => parent[u] = None

Sized(at) ==
  /\ \A u \in UTs : at[u] \in Sizes => size[u] = at[u]
  /\ call # Idle => size[call.ut] >= call.want

Unused(at) ==
  \A u \in UTs : at[u] \in Sizes \cup {AtCall} => live[u] = 0

(* Only a page becomes structures, and there are as many pages as at the   *)
(* start: a structure split off is smaller, so made stays below MaxUT.     *)
Counted(at) ==
  /\ \A u \in UTs : at[u] = Unmade <=> u > made
  /\ \A u \in UTs : u > Pages /\ at[u] \notin {Spare, Unmade} => size[u] < Top
  /\ tables \subseteq 1 .. Pages
  /\ made <= Pages + PerPage * Cardinality(tables)

Placed(at) ==
  Holdings(at) /\ Families(at) /\ Sized(at) /\ Unused(at) /\ Counted(at)

NeverRefused == result # "retype"
LeaksAreNamed == "leak" \notin incidents => lost = {}

IInv ==
  /\ TypeOK /\ NeverRefused /\ LeaksAreNamed
  /\ \E at \in Whereabouts : Stacked(Now, at) /\ Placed(at)

LEMMA BecomesStacked ==
  ASSUME NEW g, NEW to, Stacked(g, to), Become(g)
  PROVE  /\ Stacked(Now, to)'
         /\ head' \in [Lists -> OptUT] /\ next' \in [UTs -> OptUT]
<1>1. g \in Links /\ head' = g.head /\ next' = g.next
  BY DEF Stacked, Become
<1>2. Now' = g
  BY <1>1 DEF Now, Links
<1> QED
  BY <1>1, <1>2 DEF Links

LEMMA InitIInv == Init => IInv
<1> SUFFICES ASSUME Init PROVE IInv
  OBVIOUS
<1> DEFINE at == [u \in UTs |-> IF u <= Pages THEN Top ELSE Unmade]
           pos == [u \in UTs |-> u]
<1>1. /\ Pages \in Nat /\ Top \in Nat /\ Top > 0 /\ MaxUT \in Nat
      /\ Pages <= MaxUT /\ UTs = 1 .. MaxUT /\ None \notin UTs
      /\ Sizes \subseteq Lists /\ Lists \subseteq Places /\ Unmade \notin Lists
      /\ Top \in Sizes /\ Unmade \in Places /\ Spare \notin Sizes
      /\ PerPage \in Nat
  BY Numbers DEF Sizes, Places, Unmade, Spare
<1>2. at \in Whereabouts /\ pos \in Positions
  BY <1>1 DEF Whereabouts, Positions
<1>3. TypeOK
  <2>1. head \in [Lists -> OptUT] /\ next \in [UTs -> OptUT]
    BY <1>1 DEF Init, OptUT
  <2>2. /\ size \in [UTs -> Sizes] /\ made \in Pages .. MaxUT
        /\ parent \in [UTs -> OptUT] /\ live \in [UTs -> 0 .. 2]
    BY <1>1 DEF Init, OptUT
  <2> QED
    BY <2>1, <2>2 DEF Init, TypeOK, OptUT, Incidents
<1>4. Now \in Links /\ Now.head = head /\ Now.next = next
  BY <1>3 DEF TypeOK, Now, Links, OptUT
<1>5. StackedAs(Now, at, pos)
  <2>1. HeadsOnTop(Now, at, pos)
    BY <1>1, <1>4 DEF Init, HeadsOnTop
  <2>2. NextBelow(Now, at, pos)
    BY <1>1, <1>4 DEF Init, NextBelow
  <2>3. OneAtEach(at, pos)
    BY <1>1 DEF OneAtEach
  <2> QED
    BY <2>1, <2>2, <2>3 DEF StackedAs
<1>6. Placed(at)
  <2>0. \A u \in UTs : at[u] \in Sizes => at[u] = Top
    BY <1>1
  <2>1. \A u \in UTs : /\ at[u] # AtHeld /\ at[u] # AtTables /\ at[u] # AtLost
                       /\ at[u] # AtCall /\ at[u] # AtSplit /\ at[u] # Spare
    BY <1>1 DEF AtHeld, AtTables, AtLost, AtCall, AtSplit, Unmade, Spare
  <2>2. Holdings(at) /\ Families(at)
    BY <1>1, <2>1 DEF Init, Holdings, Families, InCall
  <2>3. Sized(at) /\ Unused(at)
    BY <1>1, <2>0, <2>1 DEF Init, Sized, Unused
  <2>4. Counted(at)
    <3>1. tables = {} /\ Cardinality({}) = 0 /\ made = Pages
      BY FS_EmptySet DEF Init
    <3>2. \A u \in UTs : at[u] = Unmade <=> u > Pages
      BY <1>1 DEF Unmade
    <3> HIDE DEF at
    <3>3. made <= Pages + PerPage * Cardinality(tables)
      BY <1>1, <3>1
    <3> QED
      BY <1>1, <3>1, <3>2, <3>3 DEF Counted
  <2> QED
    BY <2>2, <2>3, <2>4 DEF Placed
<1> QED
  BY <1>2, <1>3, <1>4, <1>5, <1>6
     DEF IInv, NeverRefused, LeaksAreNamed, Init, Stacked

-----------------------------------------------------------------------------
(* One lemma per action.                                                   *)
LEMMA PlacesApart ==
  /\ AtHeld \in Places \ Lists /\ AtTables \in Places \ Lists
  /\ AtLost \in Places \ Lists /\ AtCall \in Places \ Lists
  /\ AtSplit \in Places \ Lists /\ Unmade \in Places \ Lists
  /\ AtHeld # AtTables /\ AtHeld # AtLost /\ AtHeld # AtCall
  /\ AtHeld # AtSplit /\ AtHeld # Unmade /\ AtTables # AtLost
  /\ AtTables # AtCall /\ AtTables # AtSplit /\ AtTables # Unmade
  /\ AtLost # AtCall /\ AtLost # AtSplit /\ AtLost # Unmade
  /\ AtCall # AtSplit /\ AtCall # Unmade /\ AtSplit # Unmade
  /\ Spare \in Lists /\ Sizes \subseteq Lists /\ Spare \notin Sizes
  /\ Lists \subseteq Places /\ Top \in Sizes
  BY UntypedAssumption
     DEF AtHeld, AtTables, AtLost, AtCall, AtSplit, Unmade, Spare, Places,
         Lists, Sizes

LEMMA CallInHand ==
  ASSUME IInv, call # Idle
  PROVE  call.ut \in UTs /\ call.want \in Sizes /\ InCall = {call.ut}
  BY DEF IInv, TypeOK, InCall

(* Moving structures that were not split up changes no family.             *)
LEMMA FamiliesKeep ==
  ASSUME parent \in [UTs -> OptUT], UNCHANGED parent,
         NEW at, NEW to, Families(at),
         \A v \in UTs : \/ to[v] = at[v]
                        \/ /\ at[v] # AtSplit /\ to[v] # AtSplit
                           /\ to[v] # Spare /\ to[v] # Unmade
  PROVE  Families(to)'
<1>1. \A v \in UTs : parent[v] # None => to[parent[v]] = AtSplit
  BY DEF Families, OptUT
<1>2. \A v \in UTs : to[v] = AtSplit => at[v] = AtSplit
  OBVIOUS
<1>3. \A v \in UTs : to[v] \in {Spare, Unmade} => at[v] \in {Spare, Unmade}
  OBVIOUS
<1> QED
  BY <1>1, <1>2, <1>3 DEF Families

LEMMA AllocFailsKeeps ==
  ASSUME IInv, NEW want \in Sizes, AllocFails(want)
  PROVE  IInv'
<1>1. UNCHANGED <<head, next, size, made, parent, live, held, tables, lost,
                  incidents, call>> /\ result' = "no_memory"
  BY DEF AllocFails, Return
<1>2. UNCHANGED Now /\ UNCHANGED InCall
  BY <1>1 DEF Now, InCall
<1>3. PICK at \in Whereabouts : Stacked(Now, at) /\ Placed(at)
  BY DEF IInv
<1>4. Placed(at)'
  BY <1>1, <1>2, <1>3 DEF Placed, Holdings, Families, Sized, Unused, Counted
<1>5. Stacked(Now, at)'
  BY <1>2, <1>3
<1>6. (TypeOK /\ NeverRefused /\ LeaksAreNamed)'
  BY <1>1 DEF IInv, TypeOK, NeverRefused, LeaksAreNamed
<1> QED
  BY <1>4, <1>5, <1>6 DEF IInv

LEMMA AllocBeginsKeeps ==
  ASSUME IInv, NEW want \in Sizes, AllocBegins(want)
  PROVE  IInv'
<1>1. PICK at \in Whereabouts : Stacked(Now, at) /\ Placed(at)
  BY DEF IInv
<1>2. PICK l \in want .. Top :
        /\ Nearest(want, l)
        /\ call' = [want |-> want, ut |-> head[l]]
        /\ Become(Pop(Now, l))
  BY DEF AllocBegins
<1>3. l \in Sizes /\ l >= want /\ want \in Nat
  BY UntypedAssumption DEF Sizes
<1>4. head[l] # None /\ Now.head = head
  BY <1>2 DEF Nearest, Now
<1>5. PICK u : u = head[l]
  OBVIOUS
<1> DEFINE to == [at EXCEPT ![u] = AtCall]
<1>6. u \in UTs /\ at[u] = l /\ Stacked(Pop(Now, l), to)
  BY <1>1, <1>3, <1>4, <1>5, PlacesApart, PopStacks
<1>7. Stacked(Now, to)' /\ head' \in [Lists -> OptUT]
      /\ next' \in [UTs -> OptUT]
  BY <1>2, <1>6, BecomesStacked
<1>8. /\ UNCHANGED <<size, made, parent, live, held, tables, lost, result,
                     incidents>>
      /\ call = Idle /\ call' = [want |-> want, ut |-> u]
  BY <1>2, <1>5 DEF AllocBegins
<1>9. InCall = {} /\ InCall' = {u}
  <2>1. None \notin UTs
    BY Numbers
  <2>2. call' # Idle
    BY <1>6, <1>8, <2>1 DEF Idle
  <2> QED
    BY <1>8, <2>2 DEF InCall
<1>10. to \in Whereabouts /\ to[u] = AtCall
       /\ \A v \in UTs \ {u} : to[v] = at[v]
  BY <1>6, PlacesApart DEF Whereabouts
<1> HIDE DEF to
<1>11. Holdings(to)'
  BY <1>1, <1>3, <1>6, <1>8, <1>9, <1>10, PlacesApart DEF Placed, Holdings
<1>12. Families(to)'
  BY <1>1, <1>3, <1>6, <1>8, <1>10, PlacesApart, FamiliesKeep
     DEF Placed, IInv, TypeOK, OptUT
<1>13. Sized(to)'
  BY <1>1, <1>3, <1>6, <1>8, <1>10, PlacesApart DEF Placed, Sized
<1>14. Unused(to)'
  BY <1>1, <1>3, <1>6, <1>8, <1>10, PlacesApart DEF Placed, Unused
<1>15. Counted(to)'
  BY <1>1, <1>3, <1>6, <1>8, <1>10, PlacesApart DEF Placed, Counted
<1>16. (TypeOK /\ NeverRefused /\ LeaksAreNamed)'
  BY <1>6, <1>7, <1>8 DEF IInv, TypeOK, NeverRefused, LeaksAreNamed, OptUT
<1> QED
  BY <1>7, <1>10, <1>11, <1>12, <1>13, <1>14, <1>15, <1>16 DEF IInv, Placed

LEMMA DeallocKeeps ==
  ASSUME IInv, NEW u \in held, Dealloc(u)
  PROVE  IInv'
<1>1. PICK at \in Whereabouts : Stacked(Now, at) /\ Placed(at)
  BY DEF IInv
<1>2. u \in UTs /\ at[u] = AtHeld /\ size[u] \in Sizes
  BY <1>1 DEF IInv, TypeOK, Placed, Holdings
<1>3. /\ UNCHANGED <<size, made, parent, tables, lost, call, result, incidents>>
      /\ live' = [live EXCEPT ![u] = 0] /\ held' = held \ {u}
      /\ Become(Give(Now, u)) /\ UNCHANGED InCall
  BY DEF Dealloc, InCall
<1>4. PICK l : l = size[u]
  OBVIOUS
<1> DEFINE to == [at EXCEPT ![u] = l]
<1>5. Stacked(Give(Now, u), to)
  BY <1>1, <1>2, <1>4, PlacesApart, PushStacks DEF Give
<1>6. Stacked(Now, to)' /\ head' \in [Lists -> OptUT]
      /\ next' \in [UTs -> OptUT]
  BY <1>3, <1>5, BecomesStacked
<1>7. to \in Whereabouts /\ to[u] = l
      /\ \A v \in UTs \ {u} : to[v] = at[v]
  BY <1>2, <1>4, PlacesApart DEF Whereabouts
<1>8. live' \in [UTs -> 0 .. 2] /\ live'[u] = 0
      /\ \A v \in UTs \ {u} : live'[v] = live[v]
  BY <1>2, <1>3 DEF IInv, TypeOK
<1> HIDE DEF to
<1>9. Holdings(to)'
  BY <1>1, <1>2, <1>3, <1>4, <1>7, PlacesApart DEF Placed, Holdings
<1>10. Families(to)'
  BY <1>1, <1>2, <1>3, <1>4, <1>7, PlacesApart, FamiliesKeep
     DEF Placed, IInv, TypeOK, OptUT
<1>11. Sized(to)'
  BY <1>1, <1>2, <1>3, <1>4, <1>7, PlacesApart DEF Placed, Sized
<1>12. Unused(to)'
  BY <1>1, <1>2, <1>3, <1>4, <1>7, <1>8, PlacesApart DEF Placed, Unused
<1>13. Counted(to)'
  BY <1>1, <1>2, <1>3, <1>4, <1>7, PlacesApart DEF Placed, Counted
<1>14. (TypeOK /\ NeverRefused /\ LeaksAreNamed)'
  BY <1>3, <1>6, <1>8 DEF IInv, TypeOK, NeverRefused, LeaksAreNamed, OptUT
<1> QED
  BY <1>6, <1>7, <1>9, <1>10, <1>11, <1>12, <1>13, <1>14 DEF IInv, Placed

(* A whole page leaves the list of pages for tables or for nowhere.        *)
LEMMA PagesAreFew ==
  ASSUME IInv, NEW at \in Whereabouts, Placed(at), NEW u \in UTs, at[u] = Top
  PROVE  /\ u \in 1 .. Pages /\ u \notin tables
         /\ tables \cup {u} \subseteq 1 .. Pages
         /\ Cardinality(tables) \in Nat
         /\ Cardinality(tables \cup {u}) = Cardinality(tables) + 1
         /\ Cardinality(tables) < Pages
<1>1. u \in 1 .. Pages
  BY Numbers, PlacesApart DEF Placed, Counted, Sized
<1>2. u \notin tables /\ tables \subseteq 1 .. Pages
  BY PlacesApart DEF Placed, Counted, Holdings
<1>3. /\ Pages \in Nat
      /\ IsFiniteSet(1 .. Pages) /\ Cardinality(1 .. Pages) = Pages
  BY Numbers, CountUpTo
<1>4. IsFiniteSet(tables) /\ tables \cup {u} \in SUBSET (1 .. Pages)
  BY <1>1, <1>2, <1>3, FS_Subset
<1>5. Cardinality(tables) \in Nat
      /\ Cardinality(tables \cup {u}) = Cardinality(tables) + 1
  BY <1>2, <1>4, FS_AddElement, FS_CardinalityType
<1>6. Cardinality(tables \cup {u}) <= Pages
  BY <1>3, <1>4, FS_Subset
<1> QED
  BY <1>1, <1>2, <1>3, <1>4, <1>5, <1>6

LEMMA MapTableKeeps ==
  ASSUME IInv, MapTable
  PROVE  IInv'
<1>1. PICK at \in Whereabouts : Stacked(Now, at) /\ Placed(at)
  BY DEF IInv
<1>2. /\ UNCHANGED <<size, made, parent, held, call, result>>
      /\ head[Top] # None /\ Now.head = head
      /\ Become(Pop(Now, Top)) /\ UNCHANGED InCall
  BY DEF MapTable, InCall, Now
<1>3. PICK u : u = head[Top]
  OBVIOUS
<1>4. u \in UTs /\ at[u] = Top
      /\ \A p \in Places \ Lists : Stacked(Pop(Now, Top), [at EXCEPT ![u] = p])
  BY <1>1, <1>2, <1>3, PlacesApart, PopStacks
<1>5. /\ u \in 1 .. Pages /\ Cardinality(tables) \in Nat
      /\ Cardinality(tables \cup {u}) = Cardinality(tables) + 1
  BY <1>1, <1>4, PagesAreFew
<1>6. CASE /\ tables' = tables \cup {u}
           /\ live' = [live EXCEPT ![u] = 1]
           /\ UNCHANGED <<lost, incidents>>
  <2> DEFINE to == [at EXCEPT ![u] = AtTables]
  <2>1. Stacked(Now, to)' /\ head' \in [Lists -> OptUT]
        /\ next' \in [UTs -> OptUT]
    BY <1>2, <1>4, PlacesApart, BecomesStacked
  <2>2. to \in Whereabouts /\ to[u] = AtTables
        /\ \A v \in UTs \ {u} : to[v] = at[v]
    BY <1>4, PlacesApart DEF Whereabouts
  <2>3. live' \in [UTs -> 0 .. 2]
        /\ \A v \in UTs \ {u} : live'[v] = live[v]
    BY <1>4, <1>6 DEF IInv, TypeOK
  <2> HIDE DEF to
  <2>4. Holdings(to)' /\ Sized(to)'
    BY <1>1, <1>2, <1>4, <1>6, <2>2, PlacesApart DEF Placed, Holdings, Sized
  <2>5. Families(to)'
    BY <1>1, <1>2, <1>4, <2>2, PlacesApart, FamiliesKeep
       DEF Placed, IInv, TypeOK, OptUT
  <2>6. Unused(to)'
    BY <1>1, <1>2, <1>4, <2>2, <2>3, PlacesApart DEF Placed, Unused
  <2>7. Counted(to)'
    <3>1. PerPage * (Cardinality(tables) + 1)
            >= PerPage * Cardinality(tables)
      BY <1>5, Numbers
    <3>2. \A k \in Nat : PerPage * k \in Nat
      BY Numbers
    <3>3. made' <= Pages + PerPage * Cardinality(tables')
      BY <1>1, <1>2, <1>5, <1>6, <3>1, <3>2, Numbers
         DEF Placed, Counted, IInv, TypeOK
    <3> QED
      BY <1>1, <1>2, <1>4, <1>5, <1>6, <2>2, <3>3, PlacesApart
         DEF Placed, Counted
  <2>8. (TypeOK /\ NeverRefused /\ LeaksAreNamed)'
    BY <1>2, <1>4, <1>6, <2>1, <2>3
       DEF IInv, TypeOK, NeverRefused, LeaksAreNamed, OptUT
  <2> QED
    BY <2>1, <2>2, <2>4, <2>5, <2>6, <2>7, <2>8 DEF IInv, Placed
<1>7. CASE /\ lost' = lost \cup {u}
           /\ incidents' = incidents \cup {"leak"}
           /\ UNCHANGED <<tables, live>>
  <2> DEFINE to == [at EXCEPT ![u] = AtLost]
  <2>1. Stacked(Now, to)' /\ head' \in [Lists -> OptUT]
        /\ next' \in [UTs -> OptUT]
    BY <1>2, <1>4, PlacesApart, BecomesStacked
  <2>2. to \in Whereabouts /\ to[u] = AtLost
        /\ \A v \in UTs \ {u} : to[v] = at[v]
    BY <1>4, PlacesApart DEF Whereabouts
  <2> HIDE DEF to
  <2>3. Holdings(to)' /\ Sized(to)'
    BY <1>1, <1>2, <1>4, <1>7, <2>2, PlacesApart DEF Placed, Holdings, Sized
  <2>4. Families(to)'
    BY <1>1, <1>2, <1>4, <2>2, PlacesApart, FamiliesKeep
       DEF Placed, IInv, TypeOK, OptUT
  <2>5. Unused(to)' /\ Counted(to)'
    BY <1>1, <1>2, <1>4, <1>5, <1>7, <2>2, PlacesApart
       DEF Placed, Unused, Counted
  <2>6. Placed(to)'
    BY <2>3, <2>4, <2>5 DEF Placed
  <2>7. (TypeOK /\ NeverRefused /\ LeaksAreNamed)'
    BY <1>2, <1>4, <1>7, <2>1
       DEF IInv, TypeOK, NeverRefused, LeaksAreNamed, OptUT, Incidents
  <2> QED
    BY <2>1, <2>2, <2>6, <2>7 DEF IInv
<1> QED
  BY <1>3, <1>6, <1>7 DEF MapTable

(* A call that fails puts what it has in hand back on its list.            *)
LEMMA ReturnsPlaced ==
  ASSUME IInv, call # Idle, NEW at \in Whereabouts, Placed(at),
         NEW to \in Whereabouts, to[call.ut] = size[call.ut],
         \A v \in UTs \ {call.ut} :
           to[v] = at[v] \/ (at[v] = Top /\ to[v] = AtLost),
         lost' = {v \in UTs : to[v] = AtLost},
         UNCHANGED <<size, made, parent, live, held, tables>>, call' = Idle
  PROVE  Placed(to)'
<1>1. PICK u : u = call.ut
  OBVIOUS
<1>2. u \in UTs /\ InCall = {u} /\ size[u] \in Sizes /\ at[u] = AtCall
  BY <1>1, CallInHand DEF IInv, TypeOK, Placed, Holdings
<1>3. InCall' = {}
  BY DEF InCall
<1>4. to[u] = size[u] /\ \A v \in UTs \ {u} :
        to[v] = at[v] \/ (at[v] = Top /\ to[v] = AtLost)
  BY <1>1
<1>5. Holdings(to)'
  BY <1>2, <1>3, <1>4, PlacesApart DEF Placed, Holdings
<1>6. Families(to)'
  <2>1. \A v \in UTs : \/ to[v] = at[v]
                       \/ /\ at[v] # AtSplit /\ to[v] # AtSplit
                          /\ to[v] # Spare /\ to[v] # Unmade
    BY <1>2, <1>4, PlacesApart
  <2> QED
    BY <2>1, FamiliesKeep DEF Placed, IInv, TypeOK, OptUT
<1>7. Sized(to)'
  BY <1>2, <1>4, PlacesApart DEF Placed, Sized
<1>8. Unused(to)'
  BY <1>2, <1>4, PlacesApart DEF Placed, Unused
<1>9. Counted(to)'
  BY <1>2, <1>4, PlacesApart DEF Placed, Counted
<1> QED
  BY <1>5, <1>6, <1>7, <1>8, <1>9 DEF Placed

LEMMA RetypeKeeps ==
  ASSUME IInv, Retype
  PROVE  IInv'
<1>1. PICK at \in Whereabouts : Stacked(Now, at) /\ Placed(at)
  BY DEF IInv
<1>2. call # Idle
  BY DEF Retype
<1>3. PICK u : u = call.ut
  OBVIOUS
<1>4. /\ u \in UTs /\ InCall = {u} /\ size[u] \in Sizes /\ at[u] = AtCall
      /\ live[u] = 0
  BY <1>1, <1>2, <1>3, CallInHand, PlacesApart
     DEF IInv, TypeOK, Placed, Holdings, Unused
<1>5. UNCHANGED <<size, made, parent, tables, lost, incidents>> /\ call' = Idle
  BY DEF Retype, Return
<1>6. InCall' = {}
  BY <1>5 DEF InCall
<1>7. CASE /\ live' = [live EXCEPT ![u] = 1] /\ held' = held \cup {u}
           /\ result' = "none" /\ UNCHANGED <<head, next>>
  <2> DEFINE to == [at EXCEPT ![u] = AtHeld]
  <2>1. Stacked(Now, to) /\ Now' = Now
    BY <1>1, <1>4, <1>7, PlacesApart, MoveStacks DEF Now
  <2>2. to \in Whereabouts /\ to[u] = AtHeld
        /\ \A v \in UTs \ {u} : to[v] = at[v]
    BY <1>4, PlacesApart DEF Whereabouts
  <2>3. live' \in [UTs -> 0 .. 2] /\ \A v \in UTs \ {u} : live'[v] = live[v]
    BY <1>4, <1>7 DEF IInv, TypeOK
  <2>4. Stacked(Now, to)'
    BY <2>1
  <2> HIDE DEF to
  <2>5. Holdings(to)'
    BY <1>1, <1>4, <1>5, <1>6, <1>7, <2>2, PlacesApart DEF Placed, Holdings
  <2>6. Families(to)'
    BY <1>1, <1>4, <1>5, <2>2, PlacesApart, FamiliesKeep
       DEF Placed, IInv, TypeOK, OptUT
  <2>7. Sized(to)' /\ Unused(to)'
    BY <1>1, <1>4, <1>5, <2>2, <2>3, PlacesApart DEF Placed, Sized, Unused
  <2>8. Counted(to)'
    BY <1>1, <1>4, <1>5, <2>2, PlacesApart DEF Placed, Counted
  <2>9. (TypeOK /\ NeverRefused /\ LeaksAreNamed)'
    BY <1>4, <1>5, <1>7, <2>3 DEF IInv, TypeOK, NeverRefused, LeaksAreNamed
  <2> QED
    BY <2>2, <2>4, <2>5, <2>6, <2>7, <2>8, <2>9 DEF IInv, Placed
<1>8. CASE /\ Become(Give(Now, u)) /\ result' = "no_slot"
           /\ UNCHANGED <<live, held>>
  <2>1. PICK l : l = size[u]
    OBVIOUS
  <2> DEFINE to == [at EXCEPT ![u] = l]
  <2>2. Stacked(Give(Now, u), to)
    BY <1>1, <1>4, <2>1, PlacesApart, PushStacks DEF Give
  <2>3. Stacked(Now, to)' /\ head' \in [Lists -> OptUT]
        /\ next' \in [UTs -> OptUT]
    BY <1>8, <2>2, BecomesStacked
  <2>4. to \in Whereabouts /\ to[u] = l
        /\ \A v \in UTs \ {u} : to[v] = at[v]
    BY <1>4, <2>1, PlacesApart DEF Whereabouts
  <2> HIDE DEF to
  <2>5. lost' = {v \in UTs : to[v] = AtLost}
    BY <1>1, <1>4, <1>5, <2>1, <2>4, PlacesApart DEF Placed, Holdings
  <2>6. Placed(to)'
    BY <1>1, <1>2, <1>3, <1>5, <1>8, <2>1, <2>4, <2>5, ReturnsPlaced
  <2>7. (TypeOK /\ NeverRefused /\ LeaksAreNamed)'
    BY <1>5, <1>8, <2>3 DEF IInv, TypeOK, NeverRefused, LeaksAreNamed, OptUT
  <2> QED
    BY <2>3, <2>4, <2>6, <2>7 DEF IInv
<1> QED
  BY <1>3, <1>4, <1>7, <1>8 DEF Retype, Return

(* The two spares of a split, popped for a while.                          *)
OneOut(at, n) == [at EXCEPT ![n] = AtLost]
TwoOut(at, n, m) == [at EXCEPT ![n] = AtLost, ![m] = AtLost]

SparesOut(at, n1, n2) ==
  /\ n1 \in UTs /\ n2 \in UTs /\ n1 # n2
  /\ at[n1] = Spare /\ at[n2] = Spare
  /\ AfterOnePop.head = [head EXCEPT ![Spare] = n2]
  /\ AfterOnePop.next = next /\ AfterPops.next = next
  /\ AfterOnePop \in Links /\ AfterPops \in Links
  /\ AfterPops.head = [head EXCEPT ![Spare] = next[n2]]
  /\ Stacked(AfterOnePop, OneOut(at, n1))
  /\ Stacked(AfterPops, TwoOut(at, n1, n2))

LEMMA SparesTaken ==
  ASSUME NEW at \in Whereabouts, Stacked(Now, at), TwoSpares
  PROVE  SparesOut(at, head[Spare], next[head[Spare]])
<1>0. PICK n1, n2 : n1 = head[Spare] /\ n2 = next[n1]
  OBVIOUS
<1> DEFINE one == AfterOnePop
           at1 == OneOut(at, n1)
           at2 == TwoOut(at, n1, n2)
<1>1. Now \in Links /\ Now.head = head /\ Now.next = next /\ Spare \in Lists
  BY PlacesApart DEF Stacked, Now
<1>2. n1 \in UTs /\ at[n1] = Spare /\ one.next = next /\ Stacked(one, at1)
  BY <1>0, <1>1, PlacesApart, PopStacks DEF TwoSpares, OneOut, AfterOnePop
<1>3. one \in Links /\ one.head = [head EXCEPT ![Spare] = n2]
  BY <1>0, <1>1, <1>2 DEF AfterOnePop, Pop, Stacked, Links
<1>4. at1 \in Whereabouts /\ at1[n1] = AtLost
  BY <1>2, PlacesApart DEF Whereabouts, OneOut
<1>5. one.head[Spare] = n2 /\ n2 # None
  BY <1>0, <1>1, <1>3 DEF TwoSpares, Links
<1> HIDE DEF one, at1
<1>6. /\ n2 \in UTs /\ at1[n2] = Spare /\ Pop(one, Spare).next = next
      /\ Stacked(Pop(one, Spare), [at1 EXCEPT ![n2] = AtLost])
  BY <1>1, <1>2, <1>4, <1>5, PlacesApart, PopStacks
<1>7. n1 # n2 /\ at[n2] = Spare
  BY <1>4, <1>6, PlacesApart DEF at1, Whereabouts, OneOut
<1>8. [at1 EXCEPT ![n2] = AtLost] = at2
  BY <1>7 DEF at1, OneOut, TwoOut
<1>9. AfterPops = Pop(one, Spare)
  BY DEF AfterPops, AfterOnePop, one
<1>10. Pop(one, Spare).head = [head EXCEPT ![Spare] = next[n2]]
  <2>1. Pop(one, Spare).head = [one.head EXCEPT ![Spare] = one.next[n2]]
    BY <1>3, <1>5 DEF Pop, Links
  <2> QED
    BY <1>1, <1>2, <1>3, <2>1 DEF Links
<1> QED
  <2>1. SparesOut(at, n1, n2)
    BY <1>2, <1>3, <1>6, <1>7, <1>8, <1>9, <1>10
       DEF Stacked, one, at1, SparesOut
  <2> QED
    BY <1>0, <2>1

LEMMA SplitFailsKeeps ==
  ASSUME IInv, SplitFails
  PROVE  IInv'
<1>1. PICK at \in Whereabouts : Stacked(Now, at) /\ Placed(at)
  BY DEF IInv
<1>2. call # Idle /\ TwoSpares
  BY DEF SplitFails, Splitting
<1>3. PICK u, n1, n2, l : u = call.ut /\ n1 = head[Spare] /\ n2 = next[n1]
                          /\ l = size[u]
  OBVIOUS
<1>4. /\ u \in UTs /\ InCall = {u} /\ l \in Sizes /\ at[u] = AtCall
      /\ live[u] = 0
  BY <1>1, <1>2, <1>3, CallInHand, PlacesApart
     DEF IInv, TypeOK, Placed, Holdings, Unused
<1>5. UNCHANGED <<size, made, parent, live, held, tables, lost, incidents>>
      /\ call' = Idle /\ result' = "no_slot"
  BY <1>3, <1>4 DEF SplitFails, Return
<1> DEFINE at1 == OneOut(at, n1)
           at2 == TwoOut(at, n1, n2)
           to == [at EXCEPT ![u] = l]
<1>6. /\ n1 \in UTs /\ n2 \in UTs /\ n1 # n2
      /\ at[n1] = Spare /\ at[n2] = Spare
      /\ AfterOnePop.head = [head EXCEPT ![Spare] = n2]
      /\ AfterOnePop.next = next /\ AfterPops.next = next
      /\ AfterOnePop \in Links /\ AfterPops \in Links
      /\ AfterPops.head = [head EXCEPT ![Spare] = next[n2]]
      /\ Stacked(AfterOnePop, at1) /\ Stacked(AfterPops, at2)
  <2>1. SparesOut(at, n1, n2)
    BY <1>1, <1>2, <1>3, SparesTaken
  <2> QED
    BY <2>1 DEF SparesOut
<1>7. u # n1 /\ u # n2 /\ l # Spare /\ Spare \in Lists /\ l \in Lists
  BY <1>4, <1>6, PlacesApart
<1>8. to \in Whereabouts /\ to[u] = l
      /\ \A v \in UTs \ {u} : to[v] = at[v]
  BY <1>4, PlacesApart DEF Whereabouts
<1>9. at1 \in Whereabouts /\ at2 \in Whereabouts
  BY PlacesApart DEF Whereabouts, OneOut, TwoOut
<1>10. at1[u] = AtCall /\ at1[n1] = AtLost
       /\ at2[u] = AtCall /\ at2[n1] = AtLost /\ at2[n2] = AtLost
  BY <1>4, <1>6, <1>7 DEF Whereabouts, OneOut, TwoOut
<1>11. \E g : Become(g) /\ Stacked(g, to)
  <2>1. CASE Become(Push([Give(AfterPops, u) EXCEPT !.head[Spare] = n2],
                         Spare, n1))
    <3>1. [Give(AfterPops, u) EXCEPT !.head[Spare] = n2]
            = Push(AfterOnePop, l, u)
      <4>1. Give(AfterPops, u) = Push(AfterPops, l, u)
        BY <1>3 DEF Give
      <4>2. head \in [Lists -> OptUT] /\ next \in [UTs -> OptUT]
        BY DEF IInv, TypeOK, OptUT
      <4>3. AfterPops.head[l] = head[l] /\ AfterOnePop.head[l] = head[l]
        BY <1>6, <1>7, <4>2
      <4>4. [[AfterPops.head EXCEPT ![l] = u] EXCEPT ![Spare] = n2]
              = [AfterOnePop.head EXCEPT ![l] = u]
        BY <1>6, <1>7, <4>2
      <4>5. [AfterPops.next EXCEPT ![u] = AfterPops.head[l]]
              = [AfterOnePop.next EXCEPT ![u] = AfterOnePop.head[l]]
        BY <1>6, <4>3
      <4> QED
        BY <4>1, <4>4, <4>5 DEF Push
    <3> DEFINE mid == [at1 EXCEPT ![u] = l]
    <3>2. Stacked(Push(AfterOnePop, l, u), mid)
      BY <1>4, <1>6, <1>7, <1>9, <1>10, PlacesApart, PushStacks
    <3>3. mid \in Whereabouts /\ mid[n1] = AtLost
      BY <1>4, <1>6, <1>7, <1>9, <1>10, PlacesApart DEF Whereabouts
    <3>4. Stacked(Push(Push(AfterOnePop, l, u), Spare, n1),
                  [mid EXCEPT ![n1] = Spare])
      BY <1>6, <1>7, <3>2, <3>3, PlacesApart, PushStacks
    <3>5. [mid EXCEPT ![n1] = Spare] = to
      BY <1>4, <1>6, <1>7 DEF Whereabouts, OneOut
    <3> QED
      BY <2>1, <3>1, <3>4, <3>5
  <2>2. CASE Become(Push(Push(Give(AfterPops, u), Spare, n1), Spare, n2))
    <3> DEFINE mid == [at2 EXCEPT ![u] = l]
               mid1 == [mid EXCEPT ![n1] = Spare]
    <3>1. Stacked(Give(AfterPops, u), mid)
      <4>1. Stacked(Push(AfterPops, l, u), mid)
        BY <1>4, <1>6, <1>7, <1>9, <1>10, PlacesApart, PushStacks
      <4> QED
        BY <1>3, <4>1 DEF Give
    <3>2. mid \in Whereabouts /\ mid[n1] = AtLost /\ mid[n2] = AtLost
      BY <1>4, <1>6, <1>7, <1>9, <1>10, PlacesApart DEF Whereabouts
    <3>3. Stacked(Push(Give(AfterPops, u), Spare, n1), mid1)
      BY <1>6, <1>7, <3>1, <3>2, PlacesApart, PushStacks
    <3>4. mid1 \in Whereabouts /\ mid1[n2] = AtLost
      BY <1>6, <3>2, PlacesApart DEF Whereabouts
    <3>5. Stacked(Push(Push(Give(AfterPops, u), Spare, n1), Spare, n2),
                  [mid1 EXCEPT ![n2] = Spare])
      BY <1>6, <1>7, <3>3, <3>4, PlacesApart, PushStacks
    <3>6. [mid1 EXCEPT ![n2] = Spare] = to
      BY <1>4, <1>6, <1>7 DEF Whereabouts, TwoOut
    <3> QED
      BY <2>2, <3>5, <3>6
  <2> QED
    BY <1>3, <2>1, <2>2 DEF SplitFails
<1>12. Stacked(Now, to)' /\ head' \in [Lists -> OptUT]
       /\ next' \in [UTs -> OptUT]
  BY <1>11, BecomesStacked
<1> HIDE DEF to
<1>13. lost' = {v \in UTs : to[v] = AtLost}
  BY <1>1, <1>4, <1>5, <1>8, PlacesApart DEF Placed, Holdings
<1>14. Placed(to)'
  BY <1>1, <1>2, <1>3, <1>5, <1>8, <1>13, ReturnsPlaced
<1>15. (TypeOK /\ NeverRefused /\ LeaksAreNamed)'
  BY <1>5, <1>12 DEF IInv, TypeOK, NeverRefused, LeaksAreNamed, OptUT
<1> QED
  BY <1>8, <1>12, <1>14, <1>15 DEF IInv

LEMMA SplitKeeps ==
  ASSUME IInv, Split
  PROVE  IInv'
<1>1. PICK at \in Whereabouts : Stacked(Now, at) /\ Placed(at)
  BY DEF IInv
<1>2. call # Idle /\ TwoSpares
  BY DEF Split, Splitting
<1>3. PICK u, n1, n2, l : u = call.ut /\ n1 = head[Spare] /\ n2 = next[n1]
                          /\ l = size[u] - 1
  OBVIOUS
<1>4. /\ u \in UTs /\ InCall = {u} /\ at[u] = AtCall
      /\ call.want \in Sizes /\ size[u] \in Sizes /\ size[u] > call.want
  BY <1>1, <1>2, <1>3, CallInHand DEF IInv, TypeOK, Placed, Holdings, Split,
                                      Splitting
<1>5. l \in Sizes /\ l >= call.want /\ l < Top
  BY <1>3, <1>4, UntypedAssumption DEF Sizes
<1>6. /\ UNCHANGED <<made, held, tables, lost, result, incidents>>
      /\ Halves(u, n1, n2)
      /\ Become(Pop(Push(Push(AfterPops, l, n1), l, n2), l))
      /\ call' = [call EXCEPT !.ut = n2]
  BY <1>3 DEF Split
<1>7. /\ n1 \in UTs /\ n2 \in UTs /\ n1 # n2
      /\ at[n1] = Spare /\ at[n2] = Spare
      /\ AfterPops \in Links /\ Stacked(AfterPops, TwoOut(at, n1, n2))
  <2>1. SparesOut(at, n1, n2)
    BY <1>1, <1>2, <1>3, SparesTaken
  <2> QED
    BY <2>1 DEF SparesOut
<1>8. u # n1 /\ u # n2 /\ l \in Lists
  BY <1>4, <1>5, <1>7, PlacesApart
<1> DEFINE at2 == TwoOut(at, n1, n2)
           at3 == [at2 EXCEPT ![n1] = l]
           at4 == [at3 EXCEPT ![n2] = l]
           at5 == [at4 EXCEPT ![n2] = AtCall]
           to == [at5 EXCEPT ![u] = AtSplit]
           one == Push(AfterPops, l, n1)
           both == Push(one, l, n2)
<1>9. /\ at2 \in Whereabouts /\ at2[n1] = AtLost /\ at2[n2] = AtLost
      /\ at2[u] = AtCall
      /\ \A v \in UTs \ {n1, n2} : at2[v] = at[v]
  BY <1>4, <1>7, <1>8, PlacesApart DEF Whereabouts, TwoOut
<1> HIDE DEF at2
<1>10. Stacked(one, at3) /\ at3 \in Whereabouts /\ at3[n2] = AtLost
  BY <1>7, <1>8, <1>9, PlacesApart, PushStacks DEF Whereabouts, at2
<1> HIDE DEF at3, one
<1>11. Stacked(both, at4) /\ at4 \in Whereabouts
  BY <1>7, <1>8, <1>10, PlacesApart, PushStacks DEF Whereabouts
<1>12. both.head[l] = n2
  <2>1. one \in Links
    BY <1>10 DEF Stacked
  <2> QED
    BY <1>8, <2>1 DEF Push, Links
<1> HIDE DEF at4, both
<1>13. Stacked(Pop(both, l), at5)
  <2>1. both.head[l] # None
    BY <1>7, <1>12, Numbers
  <2> QED
    BY <1>8, <1>11, <1>12, <2>1, PlacesApart, PopStacks
<1>14. at5 \in Whereabouts /\ at5[u] = AtCall
  BY <1>4, <1>7, <1>8, <1>9, <1>11, PlacesApart DEF at3, at4, Whereabouts
<1> HIDE DEF at5
<1>15. Stacked(Pop(both, l), to)
  BY <1>4, <1>13, <1>14, PlacesApart, MoveStacks
<1>16. /\ to \in Whereabouts
       /\ to[u] = AtSplit /\ to[n1] = l /\ to[n2] = AtCall
       /\ \A v \in UTs \ {u, n1, n2} : to[v] = at[v]
  BY <1>4, <1>7, <1>8, <1>9, <1>14, PlacesApart
     DEF at3, at4, at5, Whereabouts
<1> HIDE DEF to
<1>17. Stacked(Now, to)' /\ head' \in [Lists -> OptUT]
       /\ next' \in [UTs -> OptUT]
  BY <1>6, <1>15, BecomesStacked DEF both, one
<1>18. /\ size' \in [UTs -> Sizes] /\ size'[n1] = l /\ size'[n2] = l
       /\ \A v \in UTs \ {n1, n2} : size'[v] = size[v]
  BY <1>3, <1>5, <1>6, <1>7 DEF Halves, IInv, TypeOK
<1>19. /\ parent' \in [UTs -> OptUT] /\ parent'[n1] = u /\ parent'[n2] = u
       /\ \A v \in UTs \ {n1, n2} : parent'[v] = parent[v]
  BY <1>4, <1>6, <1>7 DEF Halves, IInv, TypeOK, OptUT
<1>20. /\ live' \in [UTs -> 0 .. 2] /\ live'[n1] = 0 /\ live'[n2] = 0
       /\ \A v \in UTs \ {u, n1, n2} : live'[v] = live[v]
  BY <1>4, <1>6, <1>7 DEF Halves, IInv, TypeOK
<1>21. /\ InCall' = {n2} /\ call'.ut = n2 /\ call'.want = call.want
       /\ call' \in [want : Sizes, ut : UTs]
  <2>1. call \in [want : Sizes, ut : UTs] /\ None \notin UTs
    BY <1>2, Numbers DEF IInv, TypeOK
  <2>2. call'.ut = n2 /\ call'.want = call.want
        /\ call' \in [want : Sizes, ut : UTs]
    BY <1>6, <1>7, <2>1
  <2>3. call' # Idle
    BY <1>7, <2>1, <2>2 DEF Idle
  <2> QED
    BY <2>2, <2>3 DEF InCall
<1>22. Holdings(to)'
  BY <1>1, <1>4, <1>6, <1>7, <1>8, <1>16, <1>21, PlacesApart
     DEF Placed, Holdings
<1>23. Families(to)'
  <2>1. parent \in [UTs -> OptUT] /\ Families(at) /\ None \notin UTs
    BY <1>1, Numbers DEF Placed, IInv, TypeOK, OptUT
  <2>2. ASSUME NEW v \in UTs, parent'[v] # None
        PROVE  to[parent'[v]] = AtSplit
    <3>1. CASE v \in {n1, n2}
      BY <1>16, <1>19, <3>1
    <3>2. CASE v \notin {n1, n2}
      <4>1. parent'[v] = parent[v] /\ at[parent[v]] = AtSplit
            /\ parent[v] \in UTs
        BY <1>19, <2>1, <2>2, <3>2 DEF Families, OptUT
      <4>2. parent[v] \notin {u, n1, n2}
        BY <1>4, <1>7, <4>1, PlacesApart
      <4> QED
        BY <1>16, <4>1, <4>2
    <3> QED
      BY <3>1, <3>2
  <2>3. ASSUME NEW w \in UTs, to[w] = AtSplit
        PROVE  \E v \in UTs : parent'[v] = w
    <3>1. CASE w = u
      BY <1>7, <1>19, <3>1
    <3>2. CASE w # u
      <4>1. w \notin {u, n1, n2}
        BY <1>8, <1>16, <2>3, <3>2, PlacesApart
      <4>2. PICK v \in UTs : parent[v] = w
        BY <1>16, <2>1, <2>3, <4>1 DEF Families
      <4>3. v \notin {n1, n2}
        BY <1>7, <2>1, <4>2 DEF Families
      <4> QED
        BY <1>19, <4>2, <4>3
    <3> QED
      BY <3>1, <3>2
  <2>4. ASSUME NEW w \in UTs, to[w] \in {Spare, Unmade}
        PROVE  parent'[w] = None
    <3>1. w \notin {u, n1, n2}
      BY <1>5, <1>8, <1>16, <2>4, PlacesApart
    <3> QED
      BY <1>16, <1>19, <2>1, <2>4, <3>1 DEF Families
  <2> QED
    BY <2>2, <2>3, <2>4 DEF Families
<1>24. Sized(to)'
  <2>1. \A v \in UTs : to[v] \in Sizes => size'[v] = to[v]
    BY <1>1, <1>5, <1>8, <1>16, <1>18, PlacesApart DEF Placed, Sized
  <2> QED
    BY <1>5, <1>7, <1>18, <1>21, <2>1 DEF Sized
<1>25. Unused(to)'
  BY <1>1, <1>16, <1>20, PlacesApart DEF Placed, Unused
<1>26. Counted(to)'
  <2>1. \A v \in UTs : to[v] = Unmade <=> v > made
    BY <1>1, <1>4, <1>7, <1>8, <1>16, PlacesApart DEF Placed, Counted
  <2>2. \A v \in UTs : v > Pages /\ to[v] \notin {Spare, Unmade}
                         => size'[v] < Top
    BY <1>1, <1>4, <1>5, <1>7, <1>8, <1>16, <1>18, PlacesApart
       DEF Placed, Counted
  <2> QED
    BY <1>1, <1>6, <2>1, <2>2 DEF Placed, Counted
<1>27. (TypeOK /\ NeverRefused /\ LeaksAreNamed)'
  BY <1>6, <1>17, <1>18, <1>19, <1>20, <1>21
     DEF IInv, TypeOK, NeverRefused, LeaksAreNamed, OptUT
<1>28. Placed(to)'
  BY <1>22, <1>23, <1>24, <1>25, <1>26 DEF Placed
<1> QED
  BY <1>16, <1>17, <1>27, <1>28 DEF IInv

LEMMA EnsureStructuresKeeps ==
  ASSUME IInv, EnsureStructures
  PROVE  IInv'
<1>1. PICK at \in Whereabouts : Stacked(Now, at) /\ Placed(at)
  BY DEF IInv
<1>2. call # Idle /\ UNCHANGED <<size, parent, held>>
  BY DEF EnsureStructures, Splitting
<1>3. PICK u, page, l : u = call.ut /\ page = head[Top] /\ l = size[u]
  OBVIOUS
<1>4. /\ u \in UTs /\ InCall = {u} /\ l \in Sizes /\ at[u] = AtCall
      /\ Now.head = head
  BY <1>1, <1>2, <1>3, CallInHand
     DEF IInv, TypeOK, Placed, Holdings, Now
<1>5. CASE head[Top] = None
  <2> DEFINE to == [at EXCEPT ![u] = l]
  <2>1. /\ Become(Give(Now, u)) /\ call' = Idle /\ result' = "no_memory"
        /\ UNCHANGED <<made, live, tables, lost, incidents>>
    BY <1>3, <1>5 DEF EnsureStructures, Return
  <2>2. Stacked(Give(Now, u), to)
    BY <1>1, <1>3, <1>4, PlacesApart, PushStacks DEF Give
  <2>3. Stacked(Now, to)' /\ head' \in [Lists -> OptUT]
        /\ next' \in [UTs -> OptUT]
    BY <2>1, <2>2, BecomesStacked
  <2>4. to \in Whereabouts /\ to[u] = l
        /\ \A v \in UTs \ {u} : to[v] = at[v]
    BY <1>4, PlacesApart DEF Whereabouts
  <2> HIDE DEF to
  <2>5. lost' = {v \in UTs : to[v] = AtLost}
    BY <1>1, <1>4, <2>1, <2>4, PlacesApart DEF Placed, Holdings
  <2>6. Placed(to)'
    BY <1>1, <1>2, <1>3, <2>1, <2>4, <2>5, ReturnsPlaced
  <2>7. (TypeOK /\ NeverRefused /\ LeaksAreNamed)'
    BY <1>2, <2>1, <2>3 DEF IInv, TypeOK, NeverRefused, LeaksAreNamed, OptUT
  <2> QED
    BY <2>3, <2>4, <2>6, <2>7 DEF IInv
<1>6. ASSUME head[Top] # None
      PROVE  /\ page \in UTs /\ at[page] = Top /\ page # u
             /\ \A p \in Places \ Lists :
                  Stacked(Pop(Now, Top), [at EXCEPT ![page] = p])
  <2>1. page \in UTs /\ at[page] = Top
    BY <1>1, <1>3, <1>4, <1>6, PlacesApart, PopStacks
  <2>2. \A p \in Places \ Lists :
          Stacked(Pop(Now, Top), [at EXCEPT ![page] = p])
    BY <1>1, <1>3, <1>4, <1>6, PlacesApart, PopStacks
  <2>3. page # u
    BY <1>4, <2>1, PlacesApart
  <2> QED
    BY <2>1, <2>2, <2>3
<1>7. CASE /\ head[Top] # None
           /\ Become(MorePushed(Pop(Now, Top)))
           /\ made' = made + PerPage
           /\ tables' = tables \cup {page}
           /\ live' = [live EXCEPT ![page] = 1]
           /\ UNCHANGED <<lost, call, result, incidents>>
  <2> DEFINE at1 == [at EXCEPT ![page] = AtTables]
             more == [w \in UTs |-> IF w \in made + 1 .. made + PerPage
                                    THEN Spare ELSE at1[w]]
  <2>1. /\ page \in 1 .. Pages /\ tables \cup {page} \subseteq 1 .. Pages
        /\ Cardinality(tables) \in Nat /\ Cardinality(tables) < Pages
        /\ Cardinality(tables \cup {page}) = Cardinality(tables) + 1
    BY <1>1, <1>6, <1>7, PagesAreFew
  <2>2. made \in Nat /\ Pages \in Nat /\ PerPage \in Nat /\ made >= Pages
    BY Numbers DEF IInv, TypeOK
  <2>3. /\ made + PerPage <= Pages + PerPage * Cardinality(tables \cup {page})
        /\ made + PerPage <= MaxUT
    <3>1. PICK c \in Nat : c = Cardinality(tables)
      BY <2>1
    <3>2. PerPage * (c + 1) <= PerPage * Pages
      BY <2>1, <2>2, <3>1
    <3>3. made <= Pages + PerPage * c
      BY <1>1, <3>1 DEF Placed, Counted
    <3>4. PerPage * c \in Nat /\ PerPage * (c + 1) = PerPage * c + PerPage
      BY <2>2, <3>1
    <3>5. Pages * PerPage \in Nat /\ PerPage * Pages = Pages * PerPage
          /\ MaxUT = Pages * PerPage + Pages
      BY <2>2 DEF MaxUT
    <3> QED
      BY <2>1, <2>2, <3>1, <3>2, <3>3, <3>4, <3>5
  <2>4. /\ at1 \in Whereabouts /\ at1[page] = AtTables
        /\ \A v \in UTs \ {page} : at1[v] = at[v]
        /\ Stacked(Pop(Now, Top), at1)
    BY <1>6, <1>7, PlacesApart DEF Whereabouts
  <2> HIDE DEF at1
  <2>5. \A v \in UTs : at[v] = Unmade <=> v > made
    BY <1>1 DEF Placed, Counted
  <2>6. \A v \in UTs : at1[v] = Unmade <=> v > made
    BY <1>6, <1>7, <2>4, <2>5, PlacesApart
  <2>7. PICK to : to = more /\ Stacked(MorePushed(Pop(Now, Top)), to)
    BY <2>2, <2>3, <2>4, <2>6, MoreStacks
  <2>8. Stacked(Now, to)' /\ head' \in [Lists -> OptUT]
        /\ next' \in [UTs -> OptUT]
    BY <1>7, <2>7, BecomesStacked
  <2>9. to \in Whereabouts
    BY <2>4, <2>7, PlacesApart DEF Whereabouts
  <2>10. /\ \A v \in UTs : \/ at[v] = Unmade /\ to[v] = Spare
                           \/ v = page
                           \/ to[v] = at[v]
         /\ to[page] = AtTables
         /\ \A v \in UTs : to[v] = Unmade <=> v > made + PerPage
    <3>1. page \notin made + 1 .. made + PerPage
      BY <2>1, <2>2
    <3>2. to[page] = AtTables
      BY <1>6, <1>7, <2>4, <2>7, <3>1
    <3>3. ASSUME NEW v \in UTs
          PROVE  /\ \/ at[v] = Unmade /\ to[v] = Spare
                    \/ v = page
                    \/ to[v] = at[v]
                 /\ to[v] = Unmade <=> v > made + PerPage
      <4>1. v \in Nat
        BY Numbers
      <4>2. CASE v \in made + 1 .. made + PerPage
        BY <2>2, <2>5, <2>7, <4>1, <4>2, PlacesApart
      <4>3. CASE v \notin made + 1 .. made + PerPage
        BY <2>2, <2>4, <2>6, <2>7, <4>1, <4>3
      <4> QED
        BY <4>2, <4>3
    <3> QED
      BY <3>2, <3>3
  <2>11. live' \in [UTs -> 0 .. 2] /\ \A v \in UTs \ {page} : live'[v] = live[v]
    BY <1>6, <1>7 DEF IInv, TypeOK
  <2>12. Holdings(to)'
    <3>1. UNCHANGED InCall
      BY <1>7 DEF InCall
    <3> QED
      BY <1>1, <1>2, <1>6, <1>7, <2>10, <3>1, PlacesApart DEF Placed, Holdings
  <2>13. Families(to)'
    <3>1. Families(at) /\ parent \in [UTs -> OptUT]
      BY <1>1 DEF Placed, IInv, TypeOK, OptUT
    <3>2. \A v \in UTs : at[v] = AtSplit <=> to[v] = AtSplit
      BY <1>6, <1>7, <2>10, PlacesApart
    <3>3. \A v \in UTs : to[v] \in {Spare, Unmade} => at[v] \in {Spare, Unmade}
      BY <1>6, <1>7, <2>10, PlacesApart
    <3>4. \A v \in UTs : parent[v] # None => to[parent[v]] = AtSplit
      BY <3>1, <3>2 DEF Families, OptUT
    <3> QED
      BY <1>2, <3>1, <3>2, <3>3, <3>4 DEF Families
  <2>14. Sized(to)'
    BY <1>1, <1>2, <1>6, <1>7, <2>10, PlacesApart DEF Placed, Sized
  <2>15. Unused(to)'
    BY <1>1, <1>6, <1>7, <2>10, <2>11, PlacesApart DEF Placed, Unused
  <2>16. Counted(to)'
    <3>1. \A v \in UTs : v > Pages /\ to[v] \notin {Spare, Unmade}
                           => size'[v] < Top
      <4>1. \A v \in UTs : v > Pages => v # page
        BY <2>1, <2>2
      <4> QED
        BY <1>1, <1>2, <2>10, <4>1 DEF Placed, Counted
    <3> QED
      BY <1>7, <2>1, <2>3, <2>10, <3>1 DEF Counted
  <2>17. (TypeOK /\ NeverRefused /\ LeaksAreNamed)'
    <3>1. made' \in Pages .. MaxUT
      BY <1>7, <2>2, <2>3, Numbers
    <3>2. tables' \subseteq UTs
      BY <1>6, <1>7 DEF IInv, TypeOK
    <3> QED
      BY <1>2, <1>7, <2>8, <2>11, <3>1, <3>2
         DEF IInv, TypeOK, NeverRefused, LeaksAreNamed, OptUT
  <2>18. Placed(to)'
    BY <2>12, <2>13, <2>14, <2>15, <2>16 DEF Placed
  <2> QED
    BY <2>8, <2>9, <2>17, <2>18 DEF IInv
<1>8. CASE /\ head[Top] # None
           /\ Become(Give(Pop(Now, Top), u))
           /\ lost' = lost \cup {page}
           /\ incidents' = incidents \cup {"leak"}
           /\ call' = Idle /\ result' = "no_structures"
           /\ UNCHANGED <<made, live, tables>>
  <2> DEFINE at1 == [at EXCEPT ![page] = AtLost]
             to == [at1 EXCEPT ![u] = l]
  <2>1. /\ at1 \in Whereabouts /\ at1[page] = AtLost /\ at1[u] = AtCall
        /\ \A v \in UTs \ {page} : at1[v] = at[v]
        /\ Stacked(Pop(Now, Top), at1)
    BY <1>4, <1>6, <1>8, PlacesApart DEF Whereabouts
  <2> HIDE DEF at1
  <2>2. Stacked(Give(Pop(Now, Top), u), to)
    BY <1>3, <1>4, <2>1, PlacesApart, PushStacks DEF Give
  <2>3. Stacked(Now, to)' /\ head' \in [Lists -> OptUT]
        /\ next' \in [UTs -> OptUT]
    BY <1>8, <2>2, BecomesStacked
  <2>4. to \in Whereabouts /\ to[u] = l
        /\ \A v \in UTs \ {u} : to[v] = at1[v]
    BY <1>4, <2>1, PlacesApart DEF Whereabouts
  <2> HIDE DEF to
  <2>5. \A v \in UTs \ {u} :
          to[v] = at[v] \/ (at[v] = Top /\ to[v] = AtLost)
    BY <1>6, <1>8, <2>1, <2>4
  <2>6. lost' = {v \in UTs : to[v] = AtLost}
    BY <1>1, <1>4, <1>6, <1>8, <2>1, <2>4, PlacesApart DEF Placed, Holdings
  <2>7. Placed(to)'
    BY <1>1, <1>2, <1>3, <1>8, <2>4, <2>5, <2>6, ReturnsPlaced
  <2>8. (TypeOK /\ NeverRefused /\ LeaksAreNamed)'
    BY <1>2, <1>6, <1>8, <2>3
       DEF IInv, TypeOK, NeverRefused, LeaksAreNamed, OptUT, Incidents
  <2> QED
    BY <2>3, <2>4, <2>7, <2>8 DEF IInv
<1> QED
  BY <1>3, <1>5, <1>7, <1>8 DEF EnsureStructures, Return

LEMMA NextIInv == IInv /\ [Next]_vars => IInv'
<1> SUFFICES ASSUME IInv, [Next]_vars PROVE IInv'
  OBVIOUS
<1>1. CASE UNCHANGED vars
  <2>1. PICK at \in Whereabouts : Stacked(Now, at) /\ Placed(at)
    BY DEF IInv
  <2>2. UNCHANGED <<Now, InCall>>
    BY <1>1 DEF vars, Now, InCall
  <2>3. Placed(at)'
    BY <1>1, <2>1, <2>2
       DEF vars, Placed, Holdings, Families, Sized, Unused, Counted
  <2>4. Stacked(Now, at)'
    BY <2>1, <2>2
  <2>5. (TypeOK /\ NeverRefused /\ LeaksAreNamed)'
    BY <1>1 DEF vars, IInv, TypeOK, NeverRefused, LeaksAreNamed
  <2> QED
    BY <2>3, <2>4, <2>5 DEF IInv
<1>2. CASE Next
  BY <1>2, AllocFailsKeeps, AllocBeginsKeeps, EnsureStructuresKeeps,
     SplitKeeps, SplitFailsKeeps, RetypeKeeps, DeallocKeeps, MapTableKeeps
     DEF Next
<1> QED
  BY <1>1, <1>2

LEMMA AlwaysIInv == Spec => []IInv
<1> QED
  BY InitIInv, NextIInv, PTL DEF Spec

-----------------------------------------------------------------------------
(* ListsAreApart (pop and push of ut.rs): every list ends and holds        *)
(* structures of its size, and no structure is on two, so that nothing is  *)
(* used after it was pushed.                                               *)
THEOREM ListsStayApart == Spec => []ListsAreApart
<1>1. IInv => ListsAreApart
  <2> SUFFICES ASSUME IInv PROVE ListsAreApart
    OBVIOUS
  <2>1. PICK at \in Whereabouts : Stacked(Now, at) /\ Placed(at)
    BY DEF IInv
  <2>2. \A l \in Lists : On(l) = {u \in UTs : at[u] = l} /\ Ends(l)
    BY <2>1, ListsAreFollowed
  <2>3. \A l \in Sizes : l \in Lists /\ \A u \in On(l) : size[u] = l
    BY <2>1, <2>2, PlacesApart DEF Placed, Sized
  <2>4. TypeOK
    BY DEF IInv
  <2> QED
    BY <2>2, <2>3, <2>4 DEF ListsAreApart
<1> QED
  BY <1>1, AlwaysIInv, PTL

(* What the places say of the seven parts that Ownership tells apart.      *)
Zones == <<Sizes, {Spare}, {AtHeld}, {AtTables}, {AtLost}, {AtCall}, {AtSplit}>>

LEMMA ZonesApart ==
  /\ DOMAIN Zones = 1 .. 7
  /\ \A p \in Places : p # Unmade <=> \E k \in 1 .. 7 : p \in Zones[k]
  /\ \A j, k \in 1 .. 7 : j # k => Zones[j] \cap Zones[k] = {}
<1>1. /\ Zones[1] = Sizes /\ Zones[2] = {Spare} /\ Zones[3] = {AtHeld}
      /\ Zones[4] = {AtTables} /\ Zones[5] = {AtLost}
      /\ Zones[6] = {AtCall} /\ Zones[7] = {AtSplit}
      /\ DOMAIN Zones = 1 .. 7
  BY DEF Zones
<1>2. \A p \in Places : p \in Lists \/ p = AtHeld \/ p = AtTables
                        \/ p = AtLost \/ p = AtCall \/ p = AtSplit \/ p = Unmade
  BY UntypedAssumption
     DEF Places, Lists, Sizes, Spare, AtHeld, AtTables, AtLost, AtCall,
         AtSplit, Unmade
<1>3. \A p \in Lists : p \in Sizes \/ p = Spare
  BY DEF Lists
<1>4. \A k \in 1 .. 7 : k = 1 \/ k = 2 \/ k = 3 \/ k = 4 \/ k = 5 \/ k = 6
                        \/ k = 7
  OBVIOUS
<1>5. 1 \in 1 .. 7 /\ 2 \in 1 .. 7 /\ 3 \in 1 .. 7 /\ 4 \in 1 .. 7
      /\ 5 \in 1 .. 7 /\ 6 \in 1 .. 7 /\ 7 \in 1 .. 7
  OBVIOUS
<1>6. ASSUME NEW p \in Places
      PROVE  p # Unmade <=> \E k \in 1 .. 7 : p \in Zones[k]
  <2>1. p # Unmade => \E k \in 1 .. 7 : p \in Zones[k]
    BY <1>1, <1>2, <1>3, <1>5
  <2>2. ASSUME NEW k \in 1 .. 7, p \in Zones[k] PROVE p # Unmade
    BY <1>1, <1>4, <2>2, PlacesApart
  <2> QED
    BY <2>1, <2>2
<1>7. ASSUME NEW j \in 1 .. 7, NEW k \in 1 .. 7, j # k
      PROVE  Zones[j] \cap Zones[k] = {}
  BY <1>1, <1>4, <1>7, PlacesApart
<1> QED
  BY <1>1, <1>6, <1>7

LEMMA OwnershipByPlace ==
  ASSUME IInv, NEW at \in Whereabouts, Stacked(Now, at), Placed(at)
  PROVE  /\ DOMAIN Ownership = 1 .. 7
         /\ \A k \in 1 .. 7 :
              Ownership[k] = {u \in UTs : at[u] \in Zones[k]}
         /\ WasSplit = {u \in UTs : at[u] = AtSplit}
<1>1. \A l \in Lists : On(l) = {u \in UTs : at[u] = l}
  BY ListsAreFollowed
<1>2. Free = {u \in UTs : at[u] \in Sizes}
  <2>1. \A u \in Free : u \in UTs /\ at[u] \in Sizes
    BY <1>1, PlacesApart DEF Free
  <2>2. ASSUME NEW u \in UTs, at[u] \in Sizes PROVE u \in Free
    <3>1. u \in On(at[u])
      BY <1>1, <2>2, PlacesApart
    <3> QED
      BY <2>2, <3>1 DEF Free
  <2> QED
    BY <2>1, <2>2
<1>3. On(Spare) = {u \in UTs : at[u] = Spare}
  BY <1>1, PlacesApart
<1>4. WasSplit = {u \in UTs : at[u] = AtSplit}
  <2>1. parent \in [UTs -> OptUT] /\ made \in Nat /\ made <= MaxUT
        /\ UTs = 1 .. MaxUT
    BY Numbers DEF IInv, TypeOK, OptUT
  <2>2. ASSUME NEW u \in WasSplit PROVE u \in UTs /\ at[u] = AtSplit
    <3>1. PICK v \in 1 .. made : u = parent[v] /\ u # None
      BY <2>2 DEF WasSplit
    <3>2. v \in UTs
      BY <2>1, Numbers
    <3> QED
      BY <2>1, <3>1, <3>2 DEF OptUT, Placed, Families
  <2>3. ASSUME NEW u \in UTs, at[u] = AtSplit PROVE u \in WasSplit
    <3>1. PICK v \in UTs : parent[v] = u
      BY <2>3 DEF Placed, Families
    <3>2. u # None
      BY Numbers
    <3>3. at[v] # Unmade
      BY <3>1, <3>2 DEF Placed, Families
    <3>4. v \in 1 .. made
      BY <2>1, <3>3, Numbers DEF Placed, Counted
    <3> QED
      BY <3>1, <3>2, <3>4 DEF WasSplit
  <2> QED
    BY <2>2, <2>3
<1>5. ASSUME NEW k \in 1 .. 7
      PROVE  Ownership[k] = {u \in UTs : at[u] \in Zones[k]}
  <2>1. CASE k = 1
    BY <1>2, <2>1 DEF Ownership, Zones
  <2>2. CASE k = 2
    BY <1>3, <2>2 DEF Ownership, Zones
  <2>3. CASE k = 3
    BY <2>3 DEF Ownership, Zones, Placed, Holdings
  <2>4. CASE k = 4
    BY <2>4 DEF Ownership, Zones, Placed, Holdings
  <2>5. CASE k = 5
    BY <2>5 DEF Ownership, Zones, Placed, Holdings
  <2>6. CASE k = 6
    BY <2>6 DEF Ownership, Zones, Placed, Holdings
  <2>7. CASE k = 7
    BY <1>4, <2>7 DEF Ownership, Zones
  <2> QED
    BY <2>1, <2>2, <2>3, <2>4, <2>5, <2>6, <2>7
<1>6. DOMAIN Ownership = 1 .. 7
  BY DEF Ownership
<1> QED
  BY <1>4, <1>5, <1>6

(* NothingForgotten (util.rs, mapping.rs): every untyped is free, held, in *)
(* the hands of a call, under a page table or a page of structures, split  *)
(* up, or lost where a failure loses it, and never two of these.           *)
THEOREM NothingIsForgotten == Spec => []NothingForgotten
<1>1. IInv => NothingForgotten
  <2> SUFFICES ASSUME IInv PROVE NothingForgotten
    OBVIOUS
  <2>1. PICK at \in Whereabouts : Stacked(Now, at) /\ Placed(at)
    BY DEF IInv
  <2>2. /\ DOMAIN Ownership = 1 .. 7
        /\ \A k \in 1 .. 7 : Ownership[k] = {u \in UTs : at[u] \in Zones[k]}
    BY <2>1, OwnershipByPlace
  <2>3. 1 .. made = {u \in UTs : at[u] # Unmade}
    <3>1. made \in Nat /\ made <= MaxUT /\ MaxUT \in Nat /\ UTs = 1 .. MaxUT
      BY Numbers DEF IInv, TypeOK
    <3> QED
      BY <2>1, <3>1 DEF Placed, Counted
  <2>4. UNION {Ownership[k] : k \in 1 .. 7} = 1 .. made
    <3>1. ASSUME NEW u
          PROVE  u \in 1 .. made <=> \E k \in 1 .. 7 : u \in Ownership[k]
      <4>1. u \in UTs => at[u] \in Places
        BY DEF Whereabouts
      <4> QED
        BY <2>2, <2>3, <4>1, ZonesApart
    <3> QED
      BY <3>1
  <2>5. \A j, k \in 1 .. 7 : j # k => Ownership[j] \cap Ownership[k] = {}
    BY <2>2, ZonesApart
  <2>6. LeaksAreNamed
    BY DEF IInv
  <2> QED
    BY <2>2, <2>4, <2>5, <2>6
       DEF NothingForgotten, IsPartition, LeaksAreNamed
<1> QED
  BY <1>1, AlwaysIInv, PTL

(* Whatever a structure's ancestors are, each is some structure's parent.  *)
Above(U) == {parent[v] : v \in U \ {None}}
Rising(u) ==
  CHOOSE up : up = [n \in 0 .. Top |->
    IF n = 0 THEN {u} ELSE Above(up[n - 1])]

LEMMA AncestorsAreParents ==
  ASSUME parent \in [UTs -> OptUT], NEW u \in UTs
  PROVE  \A w \in Ancestors(u) : \E v \in UTs : w = parent[v]
<1> DEFINE D == SUBSET OptUT
           F == [n \in Nat |-> [U \in D |-> Above(U)]]
           G(s) == [n \in 0 .. Top |->
                      IF n = 0 THEN {u} ELSE Above(s[n - 1])]
<1>1. Top \in Nat
  BY Numbers
<1>2. \A U \in D : Above(U) \in D
                   /\ \A w \in Above(U) : \E v \in UTs : w = parent[v]
  BY DEF Above, OptUT
<1>3. F \in [Nat -> [D -> D]] /\ \A n \in Nat : \A U \in D : F[n][U] = Above(U)
  BY <1>2
<1>4. {u} \in D
  BY DEF OptUT
<1> HIDE DEF D, F
<1>5. PICK s : Repeats(s, Top, D, F, {u})
  BY <1>1, <1>3, <1>4, RepetitionExists
<1>6. /\ 0 \in 0 .. Top
      /\ \A n \in 1 .. Top :
           n - 1 \in 0 .. Top /\ n \in 0 .. Top /\ n \in Nat /\ n # 0
  BY <1>1
<1>7. \A n \in 1 .. Top : s[n] = Above(s[n - 1])
  BY <1>3, <1>5, <1>6 DEF Repeats
<1>8. s = G(s)
  <2>1. s = [n \in 0 .. Top |-> s[n]]
    BY <1>5 DEF Repeats
  <2>2. s[0] = G(s)[0]
    BY <1>1, <1>5 DEF Repeats
  <2>3. \A n \in 1 .. Top : s[n] = G(s)[n]
    BY <1>1, <1>7
  <2>4. \A n \in 0 .. Top : n = 0 \/ n \in 1 .. Top
    BY <1>1
  <2> HIDE DEF G
  <2>5. \A n \in 0 .. Top : s[n] = G(s)[n]
    BY <2>2, <2>3, <2>4
  <2> QED
    BY <2>1, <2>5 DEF G
<1>9. Rising(u) = G(Rising(u))
  BY <1>8 DEF Rising
<1>10. Ancestors(u) = UNION {Rising(u)[n] : n \in 1 .. Top}
  BY DEF Ancestors, Rising, Above
<1>11. Rising(u)[0] = {u}
       /\ \A n \in 1 .. Top : Rising(u)[n] = Above(Rising(u)[n - 1])
  BY <1>6, <1>9
<1>12. ASSUME NEW n \in 0 .. Top PROVE Rising(u)[n] \in D
  <2> DEFINE S == {k \in Nat : k <= Top => Rising(u)[k] \in D}
  <2>1. 0 \in S
    BY <1>4, <1>11
  <2>2. ASSUME NEW k \in S PROVE k + 1 \in S
    <3> SUFFICES ASSUME k + 1 <= Top PROVE Rising(u)[k + 1] \in D
      OBVIOUS
    <3>1. k + 1 \in 1 .. Top /\ (k + 1) - 1 = k /\ Rising(u)[k] \in D
      BY <1>1
    <3> QED
      BY <1>2, <1>11, <3>1
  <2> HIDE DEF S
  <2>3. n \in S
    BY <2>1, <2>2, NumbersAreReached
  <2> QED
    BY <1>1, <2>3 DEF S
<1>13. ASSUME NEW w \in Ancestors(u) PROVE \E v \in UTs : w = parent[v]
  <2>1. PICK n \in 1 .. Top : w \in Rising(u)[n]
    BY <1>10
  <2>2. w \in Above(Rising(u)[n - 1]) /\ Rising(u)[n - 1] \in D
    BY <1>6, <1>11, <1>12, <2>1
  <2> QED
    BY <1>2, <2>2
<1> QED
  BY <1>13

(* NoOverlap (split and alloc_retype): what can be handed out or is in use *)
(* is never a part of something else that is, and what is handed out is    *)
(* empty, so that the kernel never refuses to retype it.                   *)
THEOREM NothingOverlaps == Spec => []NoOverlap
<1>1. IInv => NoOverlap
  <2> SUFFICES ASSUME IInv PROVE NoOverlap
    OBVIOUS
  <2>1. PICK at \in Whereabouts : Stacked(Now, at) /\ Placed(at)
    BY DEF IInv
  <2>2. parent \in [UTs -> OptUT] /\ None \notin UTs
    BY Numbers DEF IInv, TypeOK, OptUT
  <2>3. \A u \in Whole : u \in UTs /\ at[u] # AtSplit
    <3>1. \A l \in Sizes : On(l) = {u \in UTs : at[u] = l}
      BY <2>1, ListsAreFollowed, PlacesApart
    <3>2. \A u \in Free : u \in UTs /\ at[u] \in Sizes
      BY <3>1 DEF Free
    <3> QED
      BY <2>1, <3>2, PlacesApart DEF Whole, Placed, Holdings
  <2>4. ASSUME NEW u \in Whole PROVE Ancestors(u) \cap Whole = {}
    <3> SUFFICES ASSUME NEW w \in Ancestors(u), w \in Whole PROVE FALSE
      OBVIOUS
    <3>1. PICK v \in UTs : w = parent[v]
      BY <2>2, <2>3, AncestorsAreParents
    <3>2. w \in UTs /\ at[w] # AtSplit
      BY <2>3
    <3>3. at[w] = AtSplit
      BY <2>1, <2>2, <3>1, <3>2 DEF Placed, Families
    <3> QED
      BY <3>2, <3>3
  <2> QED
    BY <2>4 DEF IInv, NoOverlap, NeverRefused
<1> QED
  BY <1>1, AlwaysIInv, PTL

=============================================================================

-------------------------- MODULE MuxWindowsProofs --------------------------
(***************************************************************************)
(* Proofs about the mux's registry, for any requests and any number of     *)
(* windows, tabs and panes.                                                *)
(*                                                                         *)
(* The first part is about one window, with a tab list of any length: the  *)
(* operations of mux/src/window.rs keep the active index in range and the  *)
(* tabs distinct (so that no assert of that file can fail), and closing a  *)
(* tab in the background never changes which tab is active, although the   *)
(* index of that tab may change.                                           *)
(*                                                                         *)
(* The second part proves the safety properties of the registry.  What a   *)
(* step does to the registry is put together from a few changes, which are *)
(* functions of registries (RemoveTabs, Prune and so on): for each there   *)
(* is a lemma that says of any sound registry what it becomes.             *)
(***************************************************************************)
EXTENDS MuxWindows, SequenceTheorems, FunctionTheorems, WellFoundedInduction, TLAPS

\* The windows there are, with any number of tabs.
Tabs    == Nat \ {NoTab}
Windows == {w \in [tabs : Seq(Tabs), active : Nat, last : Nat] : WellFormed(w)}

-----------------------------------------------------------------------------
(***************************************************************************)
(* The sequence operators and the look-up that the operations use.         *)
(***************************************************************************)
\* Vec::remove: what came after the index moves down by one.
LEMMA RemoveAtFacts ==
    ASSUME NEW S, NEW s \in Seq(S), NEW i \in 1..Len(s)
    PROVE  /\ RemoveAt(s, i) \in Seq(S)
           /\ Len(RemoveAt(s, i)) = Len(s) - 1
           /\ \A j \in 1..(Len(s) - 1) :
                 RemoveAt(s, i)[j] = IF j < i THEN s[j] ELSE s[j + 1]
<1>. DEFINE front == SubSeq(s, 1, i - 1)
            rest  == SubSeq(s, i + 1, Len(s))
<1>1. Len(s) \in Nat /\ \A j \in 1..Len(s) : s[j] \in S
  OBVIOUS
<1>2. /\ front \in Seq(S) /\ Len(front) = i - 1
      /\ \A j \in 1..(i - 1) : front[j] = s[j]
  BY <1>1, SubSeqProperties, \A j \in 1..(i - 1) : s[j] \in S
<1>3. /\ rest \in Seq(S) /\ Len(rest) = Len(s) - i
      /\ \A j \in 1..(Len(s) - i) : rest[j] = s[i + j]
  BY <1>1, SubSeqProperties, \A j \in (i + 1)..Len(s) : s[j] \in S
<1>. HIDE DEF front, rest
<1>4. /\ front \o rest \in Seq(S)
      /\ Len(front \o rest) = Len(s) - 1
      /\ \A j \in 1..(Len(s) - 1) :
            (front \o rest)[j] = IF j < i THEN s[j] ELSE s[j + 1]
  <2>1. /\ front \o rest \in Seq(S)
        /\ Len(front \o rest) = Len(front) + Len(rest)
        /\ \A j \in 1..(Len(front) + Len(rest)) :
              (front \o rest)[j] = IF j <= Len(front) THEN front[j] ELSE rest[j - Len(front)]
    BY <1>2, <1>3, ConcatProperties
  <2>2. ASSUME NEW j \in 1..(Len(s) - 1)
        PROVE  (front \o rest)[j] = IF j < i THEN s[j] ELSE s[j + 1]
    <3>1. CASE j < i
      BY <1>1, <1>2, <1>3, <2>1, <3>1
    <3>2. CASE j >= i
      <4>1. (front \o rest)[j] = rest[j - (i - 1)]
        BY <1>1, <1>2, <1>3, <2>1, <3>2
      <4>2. j - (i - 1) \in 1..(Len(s) - i) /\ i + (j - (i - 1)) = j + 1
        BY <1>1, <3>2
      <4>. QED BY <1>3, <3>2, <4>1, <4>2
    <3>3. j < i \/ j >= i
      BY <1>1
    <3>. QED BY <3>1, <3>2, <3>3
  <2>. QED BY <1>1, <1>2, <1>3, <2>1, <2>2
<1>. QED BY <1>4 DEF RemoveAt, front, rest

\* Vec::insert: what was at the index, and after it, moves up by one.
LEMMA InsertAtFacts ==
    ASSUME NEW S, NEW s \in Seq(S), NEW e \in S, NEW i \in 1..(Len(s) + 1)
    PROVE  /\ InsertAt(s, i, e) \in Seq(S)
           /\ Len(InsertAt(s, i, e)) = Len(s) + 1
           /\ \A j \in 1..(Len(s) + 1) :
                 InsertAt(s, i, e)[j] =
                    IF j < i THEN s[j] ELSE IF j = i THEN e ELSE s[j - 1]
<1>. DEFINE front == SubSeq(s, 1, i - 1)
            rest  == SubSeq(s, i, Len(s))
<1>1. Len(s) \in Nat /\ \A j \in 1..Len(s) : s[j] \in S
  OBVIOUS
<1>2. /\ front \in Seq(S) /\ Len(front) = i - 1
      /\ \A j \in 1..(i - 1) : front[j] = s[j]
  BY <1>1, SubSeqProperties, \A j \in 1..(i - 1) : s[j] \in S
<1>3. /\ rest \in Seq(S) /\ Len(rest) = Len(s) + 1 - i
      /\ \A j \in 1..(Len(s) + 1 - i) : rest[j] = s[i + j - 1]
  BY <1>1, SubSeqProperties, \A j \in i..Len(s) : s[j] \in S
<1>. HIDE DEF front, rest
<1>4. /\ front \o <<e>> \in Seq(S) /\ Len(front \o <<e>>) = i
      /\ \A j \in 1..i : (front \o <<e>>)[j] = IF j < i THEN s[j] ELSE e
  BY <1>2
<1>. DEFINE head == front \o <<e>>
<1>. HIDE DEF head
<1>5. /\ head \o rest \in Seq(S)
      /\ Len(head \o rest) = Len(s) + 1
      /\ \A j \in 1..(Len(s) + 1) :
            (head \o rest)[j] = IF j < i THEN s[j] ELSE IF j = i THEN e ELSE s[j - 1]
  <2>1. head \in Seq(S) /\ Len(head) = i
    BY <1>4 DEF head
  <2>2. /\ head \o rest \in Seq(S)
        /\ Len(head \o rest) = Len(head) + Len(rest)
        /\ \A j \in 1..(Len(head) + Len(rest)) :
              (head \o rest)[j] = IF j <= Len(head) THEN head[j] ELSE rest[j - Len(head)]
    BY <1>3, <2>1, ConcatProperties
  <2>3. ASSUME NEW j \in 1..(Len(s) + 1)
        PROVE  (head \o rest)[j] =
                  IF j < i THEN s[j] ELSE IF j = i THEN e ELSE s[j - 1]
    <3>1. CASE j <= i
      <4>1. j \in 1..i /\ (head \o rest)[j] = head[j]
        BY <1>1, <1>3, <2>1, <2>2, <3>1
      <4>2. head[j] = IF j < i THEN s[j] ELSE e
        BY <1>4, <4>1 DEF head
      <4>. QED BY <1>1, <3>1, <4>1, <4>2
    <3>2. CASE j > i
      <4>1. (head \o rest)[j] = rest[j - i]
        BY <1>1, <1>3, <2>1, <2>2, <3>2
      <4>2. j - i \in 1..(Len(s) + 1 - i) /\ i + (j - i) - 1 = j - 1
        BY <1>1, <3>2
      <4>. QED BY <1>3, <3>2, <4>1, <4>2
    <3>3. j <= i \/ j > i
      BY <1>1
    <3>. QED BY <3>1, <3>2, <3>3
  <2>. QED BY <1>1, <1>3, <2>1, <2>2, <2>3
<1>. QED BY <1>5 DEF InsertAt, front, rest, head

\* idx_by_id finds the tab it looks for.
LEMMA IndexOfFacts ==
    ASSUME NEW w, NEW t, HasTab(w, t)
    PROVE  IndexOf(w, t) \in 1..Len(w.tabs) /\ w.tabs[IndexOf(w, t)] = t
BY DEF HasTab, IndexOf

-----------------------------------------------------------------------------
(***************************************************************************)
(* Removing a tab.                                                         *)
(***************************************************************************)
\* Without its tab at index i, the list holds the other tabs, each once.
LEMMA WithoutIdx ==
    ASSUME NEW w \in Windows, NEW i \in 1..Len(w.tabs)
    PROVE  LET v == RemoveAt(w.tabs, i)
           IN  /\ v \in Seq(Tabs) /\ Len(v) = Len(w.tabs) - 1
               /\ \A j, k \in 1..Len(v) : v[j] = v[k] => j = k
               /\ \A t : (\E j \in 1..Len(v) : v[j] = t) <=> HasTab(w, t) /\ t # w.tabs[i]
<1>. DEFINE v == RemoveAt(w.tabs, i)
            n == Len(w.tabs)
            from(j) == IF j < i THEN j ELSE j + 1
            to(j)   == IF j < i THEN j ELSE j - 1
<1>1. /\ w.tabs \in Seq(Tabs) /\ n \in Nat /\ i \in 1..n
      /\ \A j, k \in 1..n : w.tabs[j] = w.tabs[k] => j = k
  BY DEF Windows, WellFormed
<1>2. /\ v \in Seq(Tabs) /\ Len(v) = n - 1
      /\ \A j \in 1..(n - 1) : v[j] = IF j < i THEN w.tabs[j] ELSE w.tabs[j + 1]
  BY <1>1, RemoveAtFacts
<1>. HIDE DEF v, n
<1>3. \A j \in 1..(n - 1) : from(j) \in 1..n /\ from(j) # i /\ v[j] = w.tabs[from(j)]
  BY <1>1, <1>2
<1>4. \A j \in 1..n : j # i => to(j) \in 1..(n - 1) /\ from(to(j)) = j
  BY <1>1
<1>5. ASSUME NEW j \in 1..Len(v), NEW k \in 1..Len(v), v[j] = v[k]
      PROVE  j = k
  <2>1. from(j) = from(k)
    <3>1. j \in 1..(n - 1) /\ k \in 1..(n - 1)
      BY <1>2
    <3>. HIDE DEF from
    <3>2. /\ from(j) \in 1..n /\ w.tabs[from(j)] = v[j]
          /\ from(k) \in 1..n /\ w.tabs[from(k)] = v[k]
      BY <1>3, <3>1
    <3>. QED BY <1>1, <1>5, <3>2
  <2>. QED BY <1>1, <1>2, <2>1
<1>6. ASSUME NEW t
      PROVE  (\E j \in 1..Len(v) : v[j] = t) <=> HasTab(w, t) /\ t # w.tabs[i]
  <2>1. ASSUME NEW j \in 1..Len(v), v[j] = t
        PROVE  HasTab(w, t) /\ t # w.tabs[i]
    BY <1>1, <1>2, <1>3, <2>1 DEF HasTab, n
  <2>2. ASSUME NEW k \in 1..n, w.tabs[k] = t, t # w.tabs[i]
        PROVE  \E j \in 1..Len(v) : v[j] = t
    <3>1. to(k) \in 1..Len(v) /\ from(to(k)) = k
      BY <1>2, <1>4, <2>2
    <3>2. v[to(k)] = t
      BY <1>2, <1>3, <2>2, <3>1
    <3>. QED BY <3>1, <3>2
  <2>. QED BY <2>1, <2>2 DEF HasTab, n
<1>. QED BY <1>2, <1>5, <1>6 DEF v, n

\* remove_by_idx keeps a window in order, with every other tab and no more, and
\* the tab that was active before stays active if it is still there.
THEOREM RemoveIdxCorrect ==
    ASSUME NEW w \in Windows, NEW i \in 1..Len(w.tabs)
    PROVE  /\ RemoveIdx(w, i) \in Windows
           /\ Len(RemoveIdx(w, i).tabs) = Len(w.tabs) - 1
           /\ \A t : HasTab(RemoveIdx(w, i), t) <=> HasTab(w, t) /\ t # w.tabs[i]
           /\ w.tabs[i] # ActiveTab(w) => ActiveTab(RemoveIdx(w, i)) = ActiveTab(w)
<1>. DEFINE back  == i = w.active /\ SwitchBack /\ HasTab(w, w.last)
            aimed == IF back THEN [w EXCEPT !.active = IndexOf(w, w.last)] ELSE w
            less  == [aimed EXCEPT !.tabs = RemoveAt(@, i)]
            n     == Len(w.tabs)
<1>1. /\ w.tabs \in Seq(Tabs) /\ n \in Nat /\ i \in 1..n
      /\ w.active \in 1..n /\ w.last \in Nat
      /\ w \in [tabs : Seq(Tabs), active : Nat, last : Nat]
      /\ ActiveTab(w) = w.tabs[w.active]
      /\ \A j, k \in 1..n : w.tabs[j] = w.tabs[k] => j = k
  BY DEF Windows, WellFormed, ActiveTab
<1>2. /\ aimed \in [tabs : Seq(Tabs), active : Nat, last : Nat]
      /\ aimed.tabs = w.tabs /\ aimed.active \in 1..n
  BY <1>1, IndexOfFacts
<1>. HIDE DEF aimed
<1>3. /\ less \in [tabs : Seq(Tabs), active : Nat, last : Nat]
      /\ less.tabs = RemoveAt(w.tabs, i) /\ less.active \in 1..n
      /\ Len(less.tabs) = n - 1
      /\ \A j, k \in 1..Len(less.tabs) : less.tabs[j] = less.tabs[k] => j = k
      /\ \A t : HasTab(less, t) <=> HasTab(w, t) /\ t # w.tabs[i]
  <2>. DEFINE v == RemoveAt(w.tabs, i)
  <2>1. /\ v \in Seq(Tabs) /\ Len(v) = n - 1
        /\ \A j, k \in 1..Len(v) : v[j] = v[k] => j = k
        /\ \A t : (\E j \in 1..Len(v) : v[j] = t) <=> HasTab(w, t) /\ t # w.tabs[i]
    BY WithoutIdx
  <2>. HIDE DEF v, n
  <2>2. /\ less \in [tabs : Seq(Tabs), active : Nat, last : Nat]
        /\ less.tabs = v /\ less.active \in 1..n
    BY <1>2, <2>1 DEF v
  <2>. HIDE DEF less
  <2>3. \A t : HasTab(less, t) <=> HasTab(w, t) /\ t # w.tabs[i]
    BY <2>1, <2>2 DEF HasTab
  <2>. QED BY <2>1, <2>2, <2>3 DEF v
<1>. HIDE DEF less, n
<1>4. RemoveIdx(w, i) = FixupActive(less, ActiveTab(w))
  BY DEF RemoveIdx, less, aimed
<1>5. CASE HasTab(less, ActiveTab(w))
  <2>1. /\ RemoveIdx(w, i) = [less EXCEPT !.active = IndexOf(less, ActiveTab(w))]
        /\ IndexOf(less, ActiveTab(w)) \in 1..Len(less.tabs)
        /\ less.tabs[IndexOf(less, ActiveTab(w))] = ActiveTab(w)
    BY <1>4, <1>5, IndexOfFacts DEF FixupActive
  <2>. DEFINE k == IndexOf(less, ActiveTab(w))
  <2>. HIDE DEF k
  <2>2. /\ RemoveIdx(w, i) \in [tabs : Seq(Tabs), active : Nat, last : Nat]
        /\ RemoveIdx(w, i).tabs = less.tabs /\ RemoveIdx(w, i).active = k
        /\ k \in 1..Len(less.tabs) /\ less.tabs[k] = ActiveTab(w)
    <3>1. k \in 1..Len(less.tabs) /\ less.tabs[k] = ActiveTab(w)
      BY <2>1 DEF k
    <3>2. k \in Nat
      BY <1>1, <1>3, <3>1
    <3>3. RemoveIdx(w, i) = [less EXCEPT !.active = k]
      BY <2>1 DEF k
    <3>. QED BY <1>3, <3>1, <3>2, <3>3
  <2>. DEFINE r == RemoveIdx(w, i)
  <2>. HIDE DEF r
  <2>3. r \in Windows /\ ActiveTab(r) = ActiveTab(w)
    <3>1. /\ r \in [tabs : Seq(Tabs), active : Nat, last : Nat]
          /\ r.tabs = less.tabs /\ r.active \in 1..Len(r.tabs)
          /\ r.tabs[r.active] = ActiveTab(w)
      BY <2>2 DEF r
    <3>2. \A x, y \in 1..Len(r.tabs) : r.tabs[x] = r.tabs[y] => x = y
      BY <1>3, <3>1
    <3>3. r \in Windows
      BY <3>1, <3>2 DEF Windows, WellFormed
    <3>4. ActiveTab(r) = ActiveTab(w)
      BY <3>1 DEF ActiveTab
    <3>. QED BY <3>3, <3>4
  <2>4. Len(r.tabs) = n - 1 /\ \A t : HasTab(r, t) <=> HasTab(less, t)
    BY <1>3, <2>2 DEF HasTab, r
  <2>. QED BY <1>3, <1>5, <2>3, <2>4 DEF n, r
<1>6. CASE ~HasTab(less, ActiveTab(w))
  <2>1. w.tabs[i] = ActiveTab(w)
    BY <1>1, <1>3, <1>6 DEF HasTab, n
  <2>2. RemoveIdx(w, i) = IF less.tabs # <<>> /\ less.active > Len(less.tabs)
                          THEN [less EXCEPT !.active = Len(less.tabs)] ELSE less
    BY <1>4, <1>6 DEF FixupActive
  <2>3. /\ RemoveIdx(w, i) \in [tabs : Seq(Tabs), active : Nat, last : Nat]
        /\ RemoveIdx(w, i).tabs = less.tabs
        /\ \/ RemoveIdx(w, i).active \in 1..Len(less.tabs)
           \/ less.tabs = <<>> /\ RemoveIdx(w, i).active = 1
    <3>1. Len(less.tabs) \in Nat /\ (less.tabs # <<>> => Len(less.tabs) > 0)
      BY <1>3
    <3>2. CASE less.tabs # <<>> /\ less.active > Len(less.tabs)
      BY <1>3, <2>2, <3>1, <3>2
    <3>3. CASE less.tabs # <<>> /\ ~(less.active > Len(less.tabs))
      BY <1>1, <1>3, <2>2, <3>1, <3>3
    <3>4. CASE less.tabs = <<>>
      BY <1>1, <1>3, <2>2, <3>1, <3>4
    <3>. QED BY <3>2, <3>3, <3>4
  <2>4. \A t : HasTab(RemoveIdx(w, i), t) <=> HasTab(less, t)
    BY <2>3 DEF HasTab
  <2>5. RemoveIdx(w, i) \in Windows
    <3>. DEFINE r == RemoveIdx(w, i)
    <3>1. \A x, y \in 1..Len(r.tabs) : r.tabs[x] = r.tabs[y] => x = y
      BY <1>3, <2>3
    <3>. HIDE DEF r
    <3>. QED BY <2>3, <3>1 DEF Windows, WellFormed, r
  <2>. QED BY <1>3, <2>1, <2>3, <2>4, <2>5 DEF n
<1>. QED BY <1>5, <1>6

\* "If we are removing the active tab, switch back to the previously active tab"
\* (window.rs:157), which is not what happens: the code takes that tab's index j
\* before the list shifts.  It becomes active if it stands before the closed tab or
\* is the last of the list; else the tab after it does.
THEOREM SwitchBackLands ==
    ASSUME NEW w \in Windows, SwitchBack, HasTab(w, w.last), w.last # ActiveTab(w)
    PROVE  LET j == IndexOf(w, w.last)
           IN  ActiveTab(RemoveIdx(w, w.active)) =
                  IF j < w.active \/ j = Len(w.tabs) THEN w.last ELSE w.tabs[j + 1]
<1>. DEFINE n == Len(w.tabs)
            i == w.active
            j == IndexOf(w, w.last)
            v == RemoveAt(w.tabs, i)
            aimed == [w EXCEPT !.active = j]
            less  == [aimed EXCEPT !.tabs = RemoveAt(@, i)]
<1>1. j \in 1..n /\ w.tabs[j] = w.last
  BY IndexOfFacts
<1>2. /\ w \in [tabs : Seq(Tabs), active : Nat, last : Nat]
      /\ w.tabs \in Seq(Tabs) /\ n \in Nat /\ i \in 1..n /\ ActiveTab(w) = w.tabs[i]
  BY <1>1 DEF Windows, WellFormed, ActiveTab
<1>3. /\ v \in Seq(Tabs) /\ Len(v) = n - 1
      /\ \A k \in 1..(n - 1) : v[k] = IF k < i THEN w.tabs[k] ELSE w.tabs[k + 1]
  BY <1>2, RemoveAtFacts
<1>4. \A t : (\E k \in 1..Len(v) : v[k] = t) <=> HasTab(w, t) /\ t # w.tabs[i]
  BY <1>2, WithoutIdx
<1>5. RemoveIdx(w, i) = FixupActive(less, ActiveTab(w))
  BY DEF RemoveIdx
<1>. HIDE DEF j, n
<1>6. less = [tabs |-> v, active |-> j, last |-> w.last]
  <2>1. aimed = [tabs |-> w.tabs, active |-> j, last |-> w.last]
    BY <1>2
  <2>. HIDE DEF aimed
  <2>. QED BY <2>1
<1>. HIDE DEF v
<1>. HIDE DEF less
<1>7. ~ HasTab(less, ActiveTab(w))
  BY <1>2, <1>4, <1>6 DEF HasTab
<1>8. RemoveIdx(w, i) = IF v # <<>> /\ j > n - 1 THEN [less EXCEPT !.active = n - 1] ELSE less
  BY <1>3, <1>5, <1>6, <1>7 DEF FixupActive
<1>9. i # j /\ n - 1 > 0 /\ v # <<>>
  <2>1. i # j /\ n - 1 > 0
    BY <1>1, <1>2
  <2>. QED BY <1>3, <2>1
<1>10. CASE j = n
  <2>1. RemoveIdx(w, i) = [tabs |-> v, active |-> n - 1, last |-> w.last]
    BY <1>2, <1>6, <1>8, <1>9, <1>10
  <2>2. n - 1 \in 1..Len(v) /\ v[n - 1] = w.tabs[n]
    BY <1>1, <1>2, <1>3, <1>9, <1>10
  <2>3. ActiveTab(RemoveIdx(w, i)) = v[n - 1]
    BY <2>1, <2>2 DEF ActiveTab
  <2>. QED BY <1>1, <1>10, <2>2, <2>3 DEF j, n
<1>11. CASE j # n
  <2>1. RemoveIdx(w, i) = [tabs |-> v, active |-> j, last |-> w.last]
    BY <1>1, <1>2, <1>6, <1>8, <1>11
  <2>2. j \in 1..Len(v) /\ v[j] = IF j < i THEN w.tabs[j] ELSE w.tabs[j + 1]
    BY <1>1, <1>2, <1>3, <1>11
  <2>3. ActiveTab(RemoveIdx(w, i)) = v[j]
    BY <2>1, <2>2 DEF ActiveTab
  <2>. QED BY <1>1, <1>11, <2>2, <2>3 DEF j, n
<1>. QED BY <1>10, <1>11

\* Closing a tab by its id, from wherever: the window stays in order and loses
\* this tab only, and the active tab stays active unless it is the one closed.
THEOREM RemoveTabIdCorrect ==
    ASSUME NEW w \in Windows, NEW t
    PROVE  /\ RemoveTabId(w, t) \in Windows
           /\ \A u : HasTab(RemoveTabId(w, t), u) <=> HasTab(w, u) /\ u # t
           /\ t # ActiveTab(w) => ActiveTab(RemoveTabId(w, t)) = ActiveTab(w)
<1>1. CASE HasTab(w, t)
  <2>1. IndexOf(w, t) \in 1..Len(w.tabs) /\ w.tabs[IndexOf(w, t)] = t
    BY <1>1, IndexOfFacts
  <2>2. RemoveTabId(w, t) = RemoveIdx(w, IndexOf(w, t))
    BY <1>1 DEF RemoveTabId
  <2>. QED BY <2>1, <2>2, RemoveIdxCorrect
<1>2. CASE ~HasTab(w, t)
  <2>1. RemoveTabId(w, t) = w
    BY <1>2 DEF RemoveTabId
  <2>. QED BY <1>2, <2>1
<1>. QED BY <1>1, <1>2

-----------------------------------------------------------------------------
(***************************************************************************)
(* Adding, activating and moving tabs.                                     *)
(***************************************************************************)
\* push adds a new tab and leaves the active one active.
THEOREM PushTabCorrect ==
    ASSUME NEW w \in Windows, NEW t \in Tabs, ~HasTab(w, t)
    PROVE  /\ PushTab(w, t) \in Windows
           /\ w.tabs # <<>> => ActiveTab(PushTab(w, t)) = ActiveTab(w)
<1>. DEFINE v == Append(w.tabs, t)
            n == Len(w.tabs)
<1>1. /\ w \in [tabs : Seq(Tabs), active : Nat, last : Nat]
      /\ w.tabs \in Seq(Tabs) /\ n \in Nat /\ WellFormed(w)
  BY DEF Windows
<1>2. /\ v \in Seq(Tabs) /\ Len(v) = n + 1 /\ v[n + 1] = t
      /\ \A j \in 1..n : v[j] = w.tabs[j]
  BY <1>1
<1>. HIDE DEF v
<1>3. /\ PushTab(w, t) \in [tabs : Seq(Tabs), active : Nat, last : Nat]
      /\ PushTab(w, t).tabs = v /\ PushTab(w, t).active = w.active
  BY <1>1, <1>2 DEF PushTab, v
<1>4. ASSUME NEW j \in 1..Len(v), NEW k \in 1..Len(v), v[j] = v[k]
      PROVE  j = k
  <2>1. j \in 1..n \/ j = n + 1
    BY <1>1, <1>2
  <2>2. k \in 1..n \/ k = n + 1
    BY <1>1, <1>2
  <2>3. \A m \in 1..n : w.tabs[m] # t
    BY DEF HasTab
  <2>. QED BY <1>1, <1>2, <1>4, <2>1, <2>2, <2>3 DEF WellFormed
<1>5. w.active \in 1..Len(v)
  <2>1. CASE w.active \in 1..n
    BY <1>1, <1>2, <2>1
  <2>2. CASE w.tabs = <<>> /\ w.active = 1
    BY <1>1, <1>2, <2>2
  <2>. QED BY <1>1, <2>1, <2>2 DEF WellFormed
<1>6. PushTab(w, t) \in Windows
  BY <1>3, <1>4, <1>5 DEF Windows, WellFormed
<1>7. ASSUME w.tabs # <<>>
      PROVE  ActiveTab(PushTab(w, t)) = ActiveTab(w)
  <2>1. w.active \in 1..n
    BY <1>1, <1>7 DEF WellFormed
  <2>. QED BY <1>2, <1>3, <1>5, <2>1 DEF ActiveTab
<1>. QED BY <1>6, <1>7

\* save_and_then_set_active, for an index in range (its assert).
THEOREM SetActiveCorrect ==
    ASSUME NEW w \in Windows, NEW i \in 1..Len(w.tabs)
    PROVE  /\ SaveAndThenSetActive(w, i) \in Windows
           /\ SaveAndThenSetActive(w, i).tabs = w.tabs
           /\ ActiveTab(SaveAndThenSetActive(w, i)) = w.tabs[i]
<1>1. /\ w \in [tabs : Seq(Tabs), active : Nat, last : Nat]
      /\ w.tabs \in Seq(Tabs) /\ Len(w.tabs) \in Nat /\ i \in Nat
      /\ \A j, k \in 1..Len(w.tabs) : w.tabs[j] = w.tabs[k] => j = k
  BY DEF Windows, WellFormed
<1>2. ActiveTab(w) \in Nat
  BY <1>1 DEF ActiveTab, Tabs, NoTab
<1>3. /\ SaveAndThenSetActive(w, i) \in [tabs : Seq(Tabs), active : Nat, last : Nat]
      /\ SaveAndThenSetActive(w, i).tabs = w.tabs
      /\ SaveAndThenSetActive(w, i).active = i
  BY <1>1, <1>2 DEF SaveAndThenSetActive
<1>. QED BY <1>1, <1>3 DEF Windows, WellFormed, ActiveTab

\* Moving the active tab keeps the tabs and keeps it active; the insert that
\* move_tab makes cannot meet the assert that the tab is new.
THEOREM MoveActiveCorrect ==
    ASSUME NEW w \in Windows, NEW i \in 1..Len(w.tabs)
    PROVE  /\ MoveActive(w, i) \in Windows
           /\ \A t : HasTab(MoveActive(w, i), t) <=> HasTab(w, t)
           /\ ActiveTab(MoveActive(w, i)) = ActiveTab(w)
           /\ ~HasTab(RemoveIdx(w, w.active), ActiveTab(w))
<1>. DEFINE a == ActiveTab(w)
            v == RemoveIdx(w, w.active)
            u == InsertAt(v.tabs, i, a)
            m == Len(v.tabs)
<1>1. /\ w.active \in 1..Len(w.tabs) /\ a = w.tabs[w.active] /\ a \in Tabs
      /\ Len(w.tabs) \in Nat
  BY DEF Windows, WellFormed, ActiveTab
<1>2. /\ v \in Windows
      /\ \A t : HasTab(v, t) <=> HasTab(w, t) /\ t # a
  BY <1>1, RemoveIdxCorrect
<1>3. v.tabs \in Seq(Tabs) /\ m = Len(w.tabs) - 1
  BY <1>1, <1>2, RemoveIdxCorrect DEF Windows
<1>. HIDE DEF a, v, m
<1>4. /\ u \in Seq(Tabs) /\ Len(u) = m + 1
      /\ \A j \in 1..(m + 1) :
            u[j] = IF j < i THEN v.tabs[j] ELSE IF j = i THEN a ELSE v.tabs[j - 1]
  <2>1. i \in 1..(Len(v.tabs) + 1)
    BY <1>1, <1>3 DEF m
  <2>. DEFINE s == v.tabs
  <2>2. s \in Seq(Tabs) /\ a \in Tabs /\ i \in 1..(Len(s) + 1)
    BY <1>1, <1>3, <2>1
  <2>. HIDE DEF s
  <2>3. /\ InsertAt(s, i, a) \in Seq(Tabs)
        /\ Len(InsertAt(s, i, a)) = Len(s) + 1
        /\ \A j \in 1..(Len(s) + 1) :
              InsertAt(s, i, a)[j] =
                 IF j < i THEN s[j] ELSE IF j = i THEN a ELSE s[j - 1]
    BY <2>2, InsertAtFacts
  <2>. QED BY <2>3 DEF m, s
<1>. HIDE DEF u
<1>5. \A j \in 1..m : v.tabs[j] # a
  BY <1>2 DEF HasTab, m
<1>6. \A j, k \in 1..m : v.tabs[j] = v.tabs[k] => j = k
  BY <1>2 DEF Windows, WellFormed, m
<1>. DEFINE to(j)   == IF j < i THEN j ELSE j + 1
            from(j) == IF j < i THEN j ELSE j - 1
<1>7. /\ \A j \in 1..m : to(j) \in 1..(m + 1) /\ to(j) # i /\ from(to(j)) = j
      /\ \A j \in 1..(m + 1) : j # i => from(j) \in 1..m /\ to(from(j)) = j
  BY <1>1, <1>3
<1>8. /\ \A j \in 1..(m + 1) : j # i => u[j] = v.tabs[from(j)]
      /\ u[i] = a /\ i \in 1..(m + 1)
  BY <1>1, <1>3, <1>4
<1>. HIDE DEF to, from
<1>9. ASSUME NEW j \in 1..Len(u), NEW k \in 1..Len(u), u[j] = u[k]
      PROVE  j = k
  <2>1. j \in 1..(m + 1) /\ k \in 1..(m + 1)
    BY <1>4
  <2>2. CASE j # i /\ k # i
    BY <1>6, <1>7, <1>8, <1>9, <2>1, <2>2
  <2>3. CASE j = i \/ k = i
    BY <1>5, <1>7, <1>8, <1>9, <2>1, <2>3
  <2>. QED BY <2>2, <2>3
<1>10. ASSUME NEW t
       PROVE  (\E j \in 1..Len(u) : u[j] = t) <=> HasTab(w, t)
  <2>1. (\E j \in 1..Len(u) : u[j] = t) <=> t = a \/ HasTab(v, t)
    <3>1. ASSUME NEW j \in 1..Len(u), u[j] = t, j # i
          PROVE  HasTab(v, t)
      BY <1>4, <1>7, <1>8, <3>1 DEF HasTab, m
    <3>2. ASSUME NEW j \in 1..m, v.tabs[j] = t
          PROVE  to(j) \in 1..Len(u) /\ u[to(j)] = t
      BY <1>4, <1>7, <1>8, <3>2
    <3>3. HasTab(v, t) => \E j \in 1..Len(u) : u[j] = t
      BY <3>2 DEF HasTab, m
    <3>. QED BY <1>4, <1>8, <3>1, <3>3
  <2>2. HasTab(w, a)
    BY <1>1 DEF HasTab, a
  <2>. QED BY <1>2, <2>1, <2>2
<1>11. /\ MoveActive(w, i) \in [tabs : Seq(Tabs), active : Nat, last : Nat]
       /\ MoveActive(w, i).tabs = u /\ MoveActive(w, i).active = i
  <2>1. v \in [tabs : Seq(Tabs), active : Nat, last : Nat] /\ i \in Nat
    BY <1>1, <1>2 DEF Windows
  <2>2. MoveActive(w, i) = [[v EXCEPT !.tabs = u] EXCEPT !.active = i]
    BY DEF MoveActive, InsertTab, u, v, a
  <2>. QED BY <1>4, <2>1, <2>2
<1>. QED
  <2>1. MoveActive(w, i) \in Windows
    BY <1>4, <1>8, <1>9, <1>11 DEF Windows, WellFormed
  <2>2. \A t : HasTab(MoveActive(w, i), t) <=> HasTab(w, t)
    BY <1>10, <1>11 DEF HasTab
  <2>3. ActiveTab(MoveActive(w, i)) = a
    BY <1>4, <1>8, <1>11 DEF ActiveTab
  <2>4. ~HasTab(v, a)
    BY <1>2
  <2>. QED BY <2>1, <2>2, <2>3, <2>4 DEF a, v

-----------------------------------------------------------------------------
(***************************************************************************)
(* Removing several tabs, one after the other.                             *)
(***************************************************************************)
\* A set of natural numbers has a least one ...
LEMMA LeastNat ==
    \A T \in SUBSET Nat : T # {} => \E x \in T : \A y \in T : ~ (y < x)
<1>. DEFINE Less == {ss \in Nat \X Nat : ss[1] < ss[2]}
<1>1. IsWellFoundedOn(Less, Nat)
  BY NatLessThanWellFounded DEF OpToRel
<1>2. SUFFICES ASSUME NEW T \in SUBSET Nat, T # {}
               PROVE  \E x \in T : \A y \in T : ~ (y < x)
  OBVIOUS
<1>3. T \subseteq Nat
  OBVIOUS
<1>. HIDE DEF Less
<1>4. \E x \in T : \A y \in T : ~ (<<y, x>> \in Less)
  BY ONLY <1>1, <1>2, <1>3, WFMin
<1>. QED BY <1>4 DEF Less

\* ... so that a set which has 0 and, with a number, the next, has all.
LEMMA SetInduction ==
    ASSUME NEW n \in Nat, NEW S, 0 \in S,
           \A k \in 1..n : k - 1 \in S => k \in S
    PROVE  \A k \in 0..n : k \in S
<1>. DEFINE T == {k \in 0..n : k \notin S}
<1>1. SUFFICES ASSUME T # {} PROVE FALSE
  OBVIOUS
<1>2. T \in SUBSET Nat
  OBVIOUS
<1>3. PICK x \in T : \A y \in T : ~ (y < x)
  BY <1>1, <1>2, LeastNat
<1>4. x \in 0..n /\ x \notin S /\ x # 0
  BY <1>3
<1>5. x - 1 \in 0..n /\ x - 1 < x /\ x \in 1..n
  BY <1>4
<1>6. x - 1 \in S
  BY <1>3, <1>5
<1>. QED BY <1>4, <1>5, <1>6

\* RemoveAll is what its steps say: its recursive function exists.
LEMMA RemoveAllSteps ==
    ASSUME NEW w \in Windows, NEW ts
    PROVE  \E f : /\ f[0] = w /\ RemoveAll(w, ts) = f[Len(w.tabs)]
                  /\ \A k \in 1..Len(w.tabs) :
                        f[k] = IF w.tabs[k] \in ts THEN RemoveTabId(f[k - 1], w.tabs[k])
                               ELSE f[k - 1]
<1>. DEFINE n == Len(w.tabs)
            Step(g, k) == IF k = 0 THEN w
                          ELSE IF w.tabs[k] \in ts THEN RemoveTabId(g[k - 1], w.tabs[k])
                          ELSE g[k - 1]
            S == {k \in 0..n : \E g : DOMAIN g = 0..k /\ \A j \in 0..k : g[j] = Step(g, j)}
            F(g) == g = [k \in 0..n |-> Step(g, k)]
<1>1. n \in Nat
  BY DEF Windows
<1>2. \A k \in 0..n : k \in S
  <2>1. 0 \in S
    <3>. DEFINE g == [k \in 0..0 |-> w]
    <3>1. DOMAIN g = 0..0 /\ \A j \in 0..0 : g[j] = Step(g, j)
      OBVIOUS
    <3>. HIDE DEF Step, g
    <3>. QED BY <1>1, <3>1
  <2>2. ASSUME NEW k \in 1..n, k - 1 \in S
        PROVE  k \in S
    <3>1. PICK g : DOMAIN g = 0..(k - 1) /\ \A j \in 0..(k - 1) : g[j] = Step(g, j)
      BY <2>2
    <3>. DEFINE h == [j \in 0..k |-> IF j = k THEN Step(g, k) ELSE g[j]]
    <3>2. ASSUME NEW j \in 0..k
          PROVE  h[j] = Step(h, j)
      <4>1. CASE j = k
        <5>1. h[j] = Step(g, k) /\ k # 0 /\ h[k - 1] = g[k - 1]
          BY <4>1
        <5>. HIDE DEF h
        <5>. QED BY <4>1, <5>1
      <4>2. CASE j # k
        <5>1. h[j] = g[j] /\ j \in 0..(k - 1) /\ (j # 0 => h[j - 1] = g[j - 1])
          BY <4>2
        <5>. HIDE DEF h
        <5>2. g[j] = Step(g, j)
          BY <5>1, <3>1
        <5>. QED BY <5>1, <5>2
      <4>. QED BY <4>1, <4>2
    <3>3. DOMAIN h = 0..k
      OBVIOUS
    <3>. HIDE DEF h, Step
    <3>. QED BY <3>2, <3>3
  <2>. HIDE DEF S
  <2>. QED BY <1>1, <2>1, <2>2, SetInduction
<1>3. PICK g : DOMAIN g = 0..n /\ \A j \in 0..n : g[j] = Step(g, j)
  <2>1. n \in S
    <3>. HIDE DEF S
    <3>. QED BY <1>1, <1>2
  <2>. HIDE DEF Step, n
  <2>. QED BY <2>1
<1>. DEFINE rec == CHOOSE h : F(h)
<1>. DEFINE g2 == [k \in 0..n |-> g[k]]
<1>4. \E h : F(h)
  <2>1. ASSUME NEW k \in 0..n
        PROVE  g2[k] = Step(g2, k)
    <3>1. g2[k] = g[k] /\ (k # 0 => g2[k - 1] = g[k - 1])
      BY <1>1
    <3>. HIDE DEF g2
    <3>. QED BY <1>3, <3>1
  <2>. HIDE DEF Step
  <2>2. g2 = [k \in 0..n |-> Step(g2, k)]
    BY <2>1
  <2>. HIDE DEF g2
  <2>. QED BY <2>2
<1>. HIDE DEF F
<1>5. F(rec)
  BY <1>4
<1>6. RemoveAll(w, ts) = rec[n]
  BY DEF RemoveAll, rec, F
<1>. HIDE DEF rec
<1>7. \A k \in 0..n : rec[k] = Step(rec, k)
  BY <1>5 DEF F
<1>. QED
  <2>1. rec[0] = w
    BY <1>1, <1>7
  <2>2. \A k \in 1..n :
           rec[k] = IF w.tabs[k] \in ts THEN RemoveTabId(rec[k - 1], w.tabs[k]) ELSE rec[k - 1]
    BY <1>1, <1>7
  <2>. QED BY <1>6, <2>1, <2>2

\* Who was active before is noted by activating alone.
LEMMA RemoveKeepsLast ==
    ASSUME NEW w \in Windows, NEW t
    PROVE  RemoveTabId(w, t).last = w.last
<1>1. SUFFICES ASSUME HasTab(w, t)
               PROVE  RemoveIdx(w, IndexOf(w, t)).last = w.last
  BY DEF RemoveTabId
<1>. DEFINE i == IndexOf(w, t)
            back  == i = w.active /\ SwitchBack /\ HasTab(w, w.last)
            aimed == IF back THEN [w EXCEPT !.active = IndexOf(w, w.last)] ELSE w
            less  == [aimed EXCEPT !.tabs = RemoveAt(@, i)]
<1>2. RemoveIdx(w, i) = FixupActive(less, ActiveTab(w))
  BY DEF RemoveIdx
<1>3. aimed.last = w.last /\ DOMAIN aimed = {"tabs", "active", "last"}
  BY DEF Windows
<1>. HIDE DEF aimed
<1>4. less.last = w.last /\ DOMAIN less = {"tabs", "active", "last"}
  BY <1>3
<1>. HIDE DEF less
<1>5. \A x : [less EXCEPT !.active = x].last = w.last
  BY <1>4
<1>6. FixupActive(less, ActiveTab(w)).last = w.last
  BY <1>4, <1>5 DEF FixupActive
<1>. QED BY <1>2, <1>6

\* Removing any tabs one after the other, as prune_dead_tabs does: the window stays in
\* order and loses these tabs only, although each removal shifts what comes after,
\* and the active tab stays active unless it is one of them.
THEOREM RemoveAllCorrect ==
    ASSUME NEW w \in Windows, NEW ts
    PROVE  /\ RemoveAll(w, ts) \in Windows
           /\ \A u : HasTab(RemoveAll(w, ts), u) <=> HasTab(w, u) /\ u \notin ts
           /\ ActiveTab(w) \notin ts => ActiveTab(RemoveAll(w, ts)) = ActiveTab(w)
           /\ RemoveAll(w, ts).last = w.last
<1>. DEFINE n == Len(w.tabs)
            left(k, u) == HasTab(w, u) /\ ~ \E j \in 1..k : w.tabs[j] = u /\ u \in ts
            Good(v, k) == /\ v \in Windows
                          /\ \A u : HasTab(v, u) <=> left(k, u)
                          /\ ActiveTab(w) \notin ts => ActiveTab(v) = ActiveTab(w)
                          /\ v.last = w.last
<1>1. n \in Nat
  BY DEF Windows
<1>2. PICK f : /\ f[0] = w /\ RemoveAll(w, ts) = f[n]
               /\ \A k \in 1..n :
                     f[k] = IF w.tabs[k] \in ts THEN RemoveTabId(f[k - 1], w.tabs[k]) ELSE f[k - 1]
  BY RemoveAllSteps
<1>. DEFINE S == {k \in 0..n : Good(f[k], k)}
<1>3. 0 \in S
  BY <1>1, <1>2
<1>4. ASSUME NEW k \in 1..n, k - 1 \in S
      PROVE  k \in S
  <2>. DEFINE v == f[k - 1]
              t == w.tabs[k]
  <2>1. Good(v, k - 1)
    BY <1>4
  <2>. HIDE DEF v
  <2>2. \A u : left(k, u) <=> left(k - 1, u) /\ ~ (u = t /\ u \in ts)
    <3>1. \A j : j \in 1..k <=> j \in 1..(k - 1) \/ j = k
      BY <1>1
    <3>. QED BY <3>1
  <2>. HIDE DEF left
  <2>3. CASE t \in ts
    <3>1. f[k] = RemoveTabId(v, t)
      BY <1>2, <2>3 DEF v
    <3>. HIDE DEF t
    <3>2. Good(f[k], k)
      <4>1. /\ RemoveTabId(v, t) \in Windows
            /\ \A u : HasTab(RemoveTabId(v, t), u) <=> HasTab(v, u) /\ u # t
            /\ t # ActiveTab(v) => ActiveTab(RemoveTabId(v, t)) = ActiveTab(v)
            /\ RemoveTabId(v, t).last = v.last
        BY <2>1, RemoveTabIdCorrect, RemoveKeepsLast
      <4>. QED BY <2>1, <2>2, <2>3, <3>1, <4>1
    <3>. QED BY <1>1, <3>2
  <2>4. CASE t \notin ts
    <3>1. f[k] = v
      BY <1>2, <2>4 DEF v
    <3>. QED BY <1>1, <2>1, <2>2, <2>4, <3>1
  <2>. QED BY <2>3, <2>4
<1>5. n \in S
  <2>. HIDE DEF S
  <2>1. \A k \in 0..n : k \in S
    BY <1>1, <1>3, <1>4, SetInduction
  <2>. QED BY <1>1, <2>1
<1>6. \A u : left(n, u) <=> HasTab(w, u) /\ u \notin ts
  BY DEF HasTab
<1>7. Good(RemoveAll(w, ts), n)
  BY <1>2, <1>5
<1>. QED BY <1>6, <1>7

-----------------------------------------------------------------------------
(***************************************************************************)
(* More about one window.                                                  *)
(***************************************************************************)
\* push adds its tab and no other.
LEMMA PushTabAdds ==
    ASSUME NEW w \in Windows, NEW t
    PROVE  /\ \A u : HasTab(PushTab(w, t), u) <=> HasTab(w, u) \/ u = t
           /\ PushTab(w, t).last = w.last /\ PushTab(w, t).tabs # <<>>
           /\ PushTab(w, t).tabs[Len(PushTab(w, t).tabs)] = t
           /\ Len(PushTab(w, t).tabs) \in 1..Len(PushTab(w, t).tabs)
<1>. DEFINE v == PushTab(w, t)
            n == Len(w.tabs)
<1>1. w.tabs \in Seq(Tabs) /\ n \in Nat /\ DOMAIN w = {"tabs", "active", "last"}
  BY DEF Windows
<1>2. v.tabs = Append(w.tabs, t) /\ v.last = w.last
  BY <1>1 DEF PushTab
<1>3. /\ Len(v.tabs) = n + 1 /\ v.tabs[n + 1] = t
      /\ \A j \in 1..n : v.tabs[j] = w.tabs[j]
  BY <1>1, <1>2, AppendProperties
<1>4. v.tabs # <<>>
  BY <1>1, <1>3
<1>. HIDE DEF v
<1>5. \A u : HasTab(v, u) <=> HasTab(w, u) \/ u = t
  <2>1. \A j : j \in 1..(n + 1) <=> j \in 1..n \/ j = n + 1
    BY <1>1
  <2>. QED BY <1>1, <1>3, <2>1 DEF HasTab
<1>. QED BY <1>1, <1>2, <1>3, <1>4, <1>5 DEF v

\* A window has no more tabs than there are.
LEMMA TabsFit ==
    ASSUME NEW w \in Windows, NEW n \in Nat, \A t : HasTab(w, t) => t \in 1..n
    PROVE  Len(w.tabs) <= n
<1>. DEFINE len == Len(w.tabs)
            f   == [i \in 1..len |-> w.tabs[i]]
<1>1. len \in Nat /\ \A i, j \in 1..len : w.tabs[i] = w.tabs[j] => i = j
  BY DEF Windows, WellFormed
<1>2. \A i \in 1..len : w.tabs[i] \in 1..n
  BY DEF HasTab
<1>3. f \in [1..len -> 1..n] /\ DOMAIN f = 1..len /\ \A i \in 1..len : f[i] = w.tabs[i]
  BY <1>2
<1>. HIDE DEF f, len
<1>4. f \in Injection(1..len, 1..n)
  BY <1>1, <1>3 DEF Injection, IsInjective
<1>5. ExistsInjection(1..len, 1..n)
  BY <1>4 DEF ExistsInjection
<1>. QED BY <1>1, <1>5, Fun_NatInjLeq DEF len

\* A window with no tab has none, and nothing can be removed from it.
LEMMA NewWindowFacts ==
    /\ NewWindow \in Windows /\ \A t : ~HasTab(NewWindow, t)
    /\ \A ts : RemoveAll(NewWindow, ts) = NewWindow
<1>1. /\ NewWindow.tabs = <<>> /\ NewWindow.active = 1 /\ NewWindow.last = 0
      /\ NewWindow \in [tabs : Seq(Tabs), active : Nat, last : Nat]
      /\ Len(NewWindow.tabs) = 0
  BY DEF NewWindow, NoTab
<1>2. NewWindow \in Windows
  BY <1>1 DEF Windows, WellFormed
<1>3. \A t : ~HasTab(NewWindow, t)
  BY <1>1 DEF HasTab
<1>4. ASSUME NEW ts
      PROVE  RemoveAll(NewWindow, ts) = NewWindow
  <2>1. PICK f : f[0] = NewWindow /\ RemoveAll(NewWindow, ts) = f[Len(NewWindow.tabs)]
    BY <1>2, RemoveAllSteps
  <2>. QED BY <1>1, <2>1
<1>. QED BY <1>2, <1>3, <1>4

\* What a window shows, as a set.
LEMMA ShownTabs ==
    ASSUME NEW w \in Windows
    PROVE  /\ \A t : t \in ToSet(w.tabs) <=> HasTab(w, t)
           /\ w.tabs = <<>> <=> ToSet(w.tabs) = {}
           /\ w.tabs # <<>> => HasTab(w, ActiveTab(w))
<1>1. w.tabs \in Seq(Tabs) /\ WellFormed(w)
  BY DEF Windows
<1>2. \A t : t \in ToSet(w.tabs) <=> HasTab(w, t)
  BY <1>1 DEF ToSet, HasTab
<1>3. w.tabs # <<>> => HasTab(w, ActiveTab(w))
  BY <1>1 DEF WellFormed, HasTab, ActiveTab
<1>4. w.tabs = <<>> => ToSet(w.tabs) = {}
  BY DEF ToSet
<1>. QED BY <1>2, <1>3, <1>4

\* save_and_then_set_active notes a tab of the window, moving notes none.
LEMMA SetActiveNotes ==
    ASSUME NEW w \in Windows, NEW i \in 1..Len(w.tabs)
    PROVE  /\ SaveAndThenSetActive(w, i) \in Windows
           /\ \A t : HasTab(SaveAndThenSetActive(w, i), t) <=> HasTab(w, t)
           /\ \/ SaveAndThenSetActive(w, i).last = w.last
              \/ HasTab(w, SaveAndThenSetActive(w, i).last)
<1>1. /\ SaveAndThenSetActive(w, i) \in Windows
      /\ SaveAndThenSetActive(w, i).tabs = w.tabs
  BY SetActiveCorrect
<1>2. \A t : HasTab(SaveAndThenSetActive(w, i), t) <=> HasTab(w, t)
  BY <1>1 DEF HasTab
<1>3. SaveAndThenSetActive(w, i).last = w.last \/ SaveAndThenSetActive(w, i).last = ActiveTab(w)
  BY DEF SaveAndThenSetActive, Windows
<1>4. w.tabs # <<>>
  <2>1. w.tabs = <<>> => Len(w.tabs) = 0
    OBVIOUS
  <2>. QED BY <2>1
<1>. QED BY <1>1, <1>2, <1>3, <1>4, ShownTabs

LEMMA MoveNotes ==
    ASSUME NEW w \in Windows, NEW i \in 1..Len(w.tabs)
    PROVE  MoveActive(w, i).last = w.last
<1>1. w.active \in 1..Len(w.tabs)
  <2>1. w.tabs = <<>> => Len(w.tabs) = 0
    OBVIOUS
  <2>. QED BY <2>1 DEF Windows, WellFormed
<1>. DEFINE t == w.tabs[w.active]
            v == RemoveIdx(w, w.active)
<1>2. HasTab(w, t)
  BY <1>1 DEF HasTab
<1>3. IndexOf(w, t) = w.active
  <2>1. IndexOf(w, t) \in 1..Len(w.tabs) /\ w.tabs[IndexOf(w, t)] = t
    BY <1>2, IndexOfFacts
  <2>. QED BY <1>1, <2>1 DEF Windows, WellFormed
<1>4. RemoveTabId(w, t) = v
  BY <1>2, <1>3 DEF RemoveTabId
<1>5. v.last = w.last /\ v \in Windows
  BY <1>1, <1>4, RemoveKeepsLast, RemoveIdxCorrect
<1>6. MoveActive(w, i) = [[v EXCEPT !.tabs = InsertAt(@, i, ActiveTab(w))] EXCEPT !.active = i]
  BY DEF MoveActive, InsertTab
<1>. HIDE DEF v
<1>. QED BY <1>5, <1>6 DEF Windows

-----------------------------------------------------------------------------
(***************************************************************************)
(* What holds of the registry.                                             *)
(***************************************************************************)
\* The registries there are.
Registry ==
    [open : SUBSET WindowIds, tabs : SUBSET TabIds, panes : SUBSET PaneIds,
     win : [WindowIds -> Windows], tree : [TabIds -> SUBSET PaneIds],
     ids : [win : WindowIds, tab : TabIds, pane : PaneIds]]

NotesTabs(m)    == \A w \in WindowIds : m.win[w].last \in TabIds \cup {NoTab}

\* No window is left with tabs when it goes: an id that is not open has none.
ClosedIsNew(m)  == \A w \in WindowIds \ m.open : m.win[w] = NewWindow

\* MapsAgree and WindowsWellFormed, of all windows.
ShownIsKnown(m) == \A w \in WindowIds : ToSet(m.win[w].tabs) \subseteq m.tabs
ShownOnce(m)    == \A v, w \in WindowIds, t \in TabIds :
                      HasTab(m.win[v], t) /\ HasTab(m.win[w], t) => v = w
TreesApart(m)   == \A s, t \in m.tabs, p \in PaneIds : p \in m.tree[s] /\ p \in m.tree[t] => s = t

\* No tab or pane has an id that is still to be given, not even in the tree of a
\* tab that is gone: a split that resumes may put its pane there.
IdsAreNew(m)    ==
    /\ \A t \in m.tabs : t <= m.ids.tab
    /\ \A t \in TabIds : \A p \in m.tree[t] : p <= m.ids.pane

Sound(m) ==
    /\ m \in Registry /\ NotesTabs(m) /\ ClosedIsNew(m) /\ ShownIsKnown(m) /\ ShownOnce(m)
    /\ TreesApart(m) /\ IdsAreNew(m)

\* The halves of NothingLeaks, in the middle of a step: the panes `gone' are let off,
\* and so are the tabs ts, which are about to go.
InTree(m, gone) == \A p \in m.panes \ gone : \E t \in m.tabs : p \in m.tree[t]
InWindow(m, ts, ls) ==
    \A t \in m.tabs \ ts :
        (\E w \in WindowIds : HasTab(m.win[w], t)) \/ m.tree[t] \cap ls # {}

Tidy(m, rs, ls) == Sound(m) /\ InTree(m, ls \cup rs) /\ InWindow(m, {}, ls)

TasksOk ==
    /\ prune \in BOOLEAN
    /\ removals \in SUBSET PaneIds /\ lost \in SUBSET PaneIds /\ exited \in SUBSET PaneIds

\* A request that waits has a window or a tab to come back to, be it gone by then.
RequestsOk ==
    /\ request \in [Requests -> Request]
    /\ \A r \in Requests :
          /\ request[r].op = "spawn" => request[r].win \in WindowIds
          /\ request[r].op = "split" => request[r].tab \in TabIds

IInv == TasksOk /\ RequestsOk /\ Tidy(mux, removals, lost)

\* Of a sound registry, in terms of HasTab.
LEMMA SoundShown ==
    ASSUME NEW m, Sound(m)
    PROVE  /\ \A w \in WindowIds : \A t : HasTab(m.win[w], t) => t \in m.tabs /\ t \in TabIds
           /\ \A w \in WindowIds : m.win[w] \in Windows
           /\ \A v, w \in WindowIds : \A t : HasTab(m.win[v], t) /\ HasTab(m.win[w], t) => v = w
           /\ \A t : t \in Shown(m) <=> \E w \in WindowIds : HasTab(m.win[w], t)
<1>1. /\ \A w \in WindowIds : m.win[w] \in Windows
      /\ m.tabs \subseteq TabIds /\ m.open \subseteq WindowIds
  BY DEF Sound, Registry
<1>2. \A w \in WindowIds : \A t : HasTab(m.win[w], t) <=> t \in ToSet(m.win[w].tabs)
  BY <1>1, ShownTabs
<1>3. \A w \in WindowIds : \A t : HasTab(m.win[w], t) => t \in m.tabs /\ t \in TabIds
  BY <1>1, <1>2 DEF Sound, ShownIsKnown
<1>4. \A v, w \in WindowIds : \A t : HasTab(m.win[v], t) /\ HasTab(m.win[w], t) => v = w
  BY <1>3 DEF Sound, ShownOnce
<1>5. \A t : t \in Shown(m) <=> \E w \in m.open : HasTab(m.win[w], t)
  BY <1>1, <1>2 DEF Shown
<1>6. \A w \in WindowIds : \A t : HasTab(m.win[w], t) => w \in m.open
  BY NewWindowFacts DEF Sound, ClosedIsNew
<1>. QED BY <1>1, <1>3, <1>4, <1>5, <1>6

\* ... and what makes one sound.
LEMMA SoundFrom ==
    ASSUME NEW m, m \in Registry, NotesTabs(m), ClosedIsNew(m), TreesApart(m), IdsAreNew(m),
           \A w \in WindowIds : \A t : HasTab(m.win[w], t) => t \in m.tabs,
           \A v, w \in WindowIds : \A t : HasTab(m.win[v], t) /\ HasTab(m.win[w], t) => v = w
    PROVE  Sound(m)
<1>1. \A w \in WindowIds : m.win[w] \in Windows
  BY DEF Registry
<1>2. ShownIsKnown(m)
  BY <1>1, ShownTabs DEF ShownIsKnown
<1>3. ShownOnce(m)
  BY DEF ShownOnce
<1>. QED BY <1>2, <1>3 DEF Sound

-----------------------------------------------------------------------------
(***************************************************************************)
(* What the changes of the registry keep.                                  *)
(***************************************************************************)
\* remove_tab_internal: the tabs are in no window any more, the other tabs where
\* they were, and no pane is left without a tab.
LEMMA RemoveTabsKeeps ==
    ASSUME NEW m, Sound(m), NEW ts \in SUBSET TabIds
    PROVE  LET r == RemoveTabs(m, ts)
           IN  /\ Sound(r)
               /\ r.open = m.open /\ r.tabs = m.tabs \ ts /\ r.tree = m.tree /\ r.ids = m.ids
               /\ r.panes \subseteq m.panes
               /\ \A w \in WindowIds : \A t :
                      HasTab(r.win[w], t) <=> HasTab(m.win[w], t) /\ t \notin ts
               /\ \A gone : InTree(m, gone) => InTree(r, gone)
               /\ \A ls : InWindow(m, ts, ls) => InWindow(r, {}, ls)
<1>. DEFINE r == RemoveTabs(m, ts)
            known == ts \cap m.tabs
<1>1. m \in Registry
  BY DEF Sound
<1>2. /\ \A w \in WindowIds : m.win[w] \in Windows
      /\ \A w \in WindowIds : \A t : HasTab(m.win[w], t) => t \in m.tabs /\ t \in TabIds
      /\ \A v, w \in WindowIds : \A t : HasTab(m.win[v], t) /\ HasTab(m.win[w], t) => v = w
  BY SoundShown
<1>3. \A w \in WindowIds :
         /\ RemoveAll(m.win[w], known) \in Windows
         /\ \A t : HasTab(RemoveAll(m.win[w], known), t) <=> HasTab(m.win[w], t) /\ t \notin known
         /\ RemoveAll(m.win[w], known).last = m.win[w].last
  BY <1>2, RemoveAllCorrect
<1>4. /\ r.open = m.open /\ r.tabs = m.tabs \ ts /\ r.tree = m.tree /\ r.ids = m.ids
      /\ r.panes = m.panes \ UNION {m.tree[t] : t \in known}
      /\ r.win = [w \in WindowIds |-> RemoveAll(m.win[w], known)]
  BY <1>1 DEF RemoveTabs, Registry
<1>5. \A w \in WindowIds : r.win[w] = RemoveAll(m.win[w], known)
  BY <1>4
<1>6. r \in Registry
  <2>1. [w \in WindowIds |-> RemoveAll(m.win[w], known)] \in [WindowIds -> Windows]
    BY <1>3
  <2>. DEFINE win == [w \in WindowIds |-> RemoveAll(m.win[w], known)]
  <2>2. r = [[[m EXCEPT !.tabs = @ \ known] EXCEPT !.panes = @ \ UNION {m.tree[t] : t \in known}]
                EXCEPT !.win = win]
    BY DEF RemoveTabs
  <2>. HIDE DEF win, r
  <2>. QED BY <1>1, <2>1, <2>2 DEF Registry, win
<1>. HIDE DEF r
<1>7. \A w \in WindowIds : \A t : HasTab(r.win[w], t) <=> HasTab(m.win[w], t) /\ t \notin ts
  <2>1. SUFFICES ASSUME NEW w \in WindowIds, NEW t
                 PROVE  HasTab(r.win[w], t) <=> HasTab(m.win[w], t) /\ t \notin ts
    OBVIOUS
  <2>2. HasTab(r.win[w], t) <=> HasTab(m.win[w], t) /\ t \notin known
    BY <1>3, <1>5
  <2>3. HasTab(m.win[w], t) => t \in m.tabs
    BY <1>2
  <2>. QED BY <2>2, <2>3
<1>8. Sound(r)
  <2>1. NotesTabs(r)
    BY <1>3, <1>5 DEF NotesTabs, Sound
  <2>2. ClosedIsNew(r)
    BY <1>4, <1>5, NewWindowFacts DEF ClosedIsNew, Sound
  <2>3. TreesApart(r)
    BY <1>4 DEF TreesApart, Sound
  <2>4. IdsAreNew(r)
    BY <1>4 DEF IdsAreNew, Sound
  <2>5. \A w \in WindowIds : \A t : HasTab(r.win[w], t) => t \in r.tabs
    BY <1>2, <1>4, <1>7
  <2>6. \A v, w \in WindowIds : \A t : HasTab(r.win[v], t) /\ HasTab(r.win[w], t) => v = w
    BY <1>2, <1>7
  <2>. QED BY <1>6, <2>1, <2>2, <2>3, <2>4, <2>5, <2>6, SoundFrom
<1>9. \A gone : InTree(m, gone) => InTree(r, gone)
  BY <1>1, <1>4 DEF InTree, Registry
<1>10. \A ls : InWindow(m, ts, ls) => InWindow(r, {}, ls)
  BY <1>4, <1>7 DEF InWindow
<1>. QED BY <1>4, <1>7, <1>8, <1>9, <1>10 DEF r

\* remove_window_internal: the windows are closed and their tabs are gone.
LEMMA RemoveWindowsKeeps ==
    ASSUME NEW m, Sound(m), NEW ws \in SUBSET WindowIds
    PROVE  LET r == RemoveWindows(m, ws)
           IN  /\ Sound(r)
               /\ r.tabs \subseteq m.tabs /\ r.tree = m.tree /\ r.ids = m.ids
               /\ \A gone : InTree(m, gone) => InTree(r, gone)
               /\ \A ls : InWindow(m, {}, ls) => InWindow(r, {}, ls)
<1>. DEFINE r  == RemoveWindows(m, ws)
            ts == UNION {ToSet(m.win[w].tabs) : w \in ws \cap m.open}
            c  == [m EXCEPT !.open = @ \ ws,
                            !.win = [w \in WindowIds |-> IF w \in ws THEN NewWindow ELSE @[w]]]
<1>1. m \in Registry /\ m.open \subseteq WindowIds
  BY DEF Sound, Registry
<1>2. /\ \A w \in WindowIds : m.win[w] \in Windows
      /\ \A w \in WindowIds : \A t : HasTab(m.win[w], t) => t \in m.tabs /\ t \in TabIds
      /\ \A v, w \in WindowIds : \A t : HasTab(m.win[v], t) /\ HasTab(m.win[w], t) => v = w
  BY SoundShown
<1>3. \A t : t \in ts <=> \E w \in ws \cap m.open : HasTab(m.win[w], t)
  BY <1>1, <1>2, ShownTabs
<1>4. ts \in SUBSET TabIds
  BY <1>1, <1>2, <1>3
<1>5. r = RemoveTabs(c, ts)
  BY DEF RemoveWindows
<1>6. /\ c.open = m.open \ ws /\ c.tabs = m.tabs /\ c.panes = m.panes
      /\ c.tree = m.tree /\ c.ids = m.ids
      /\ c.win = [w \in WindowIds |-> IF w \in ws THEN NewWindow ELSE m.win[w]]
  BY <1>1 DEF Registry
<1>7. \A w \in WindowIds : c.win[w] = IF w \in ws THEN NewWindow ELSE m.win[w]
  BY <1>6
<1>8. c \in Registry
  <2>. DEFINE win == [w \in WindowIds |-> IF w \in ws THEN NewWindow ELSE m.win[w]]
  <2>1. win \in [WindowIds -> Windows]
    BY <1>2, NewWindowFacts
  <2>2. c = [[m EXCEPT !.open = @ \ ws] EXCEPT !.win = win]
    BY <1>1 DEF Registry
  <2>. HIDE DEF win, c
  <2>. QED BY <1>1, <2>1, <2>2 DEF Registry
<1>. HIDE DEF c, ts, r
<1>9. \A w \in WindowIds : \A t : HasTab(c.win[w], t) <=> HasTab(m.win[w], t) /\ w \notin ws
  BY <1>2, <1>7, NewWindowFacts
<1>10. Sound(c)
  <2>1. NotesTabs(c)
    BY <1>7 DEF NotesTabs, Sound, NewWindow
  <2>2. ClosedIsNew(c)
    BY <1>6, <1>7 DEF ClosedIsNew, Sound
  <2>3. TreesApart(c) /\ IdsAreNew(c)
    BY <1>6 DEF TreesApart, IdsAreNew, Sound
  <2>4. \A w \in WindowIds : \A t : HasTab(c.win[w], t) => t \in c.tabs
    BY <1>2, <1>6, <1>9
  <2>5. \A v, w \in WindowIds : \A t : HasTab(c.win[v], t) /\ HasTab(c.win[w], t) => v = w
    BY <1>2, <1>9
  <2>. QED BY <1>8, <2>1, <2>2, <2>3, <2>4, <2>5, SoundFrom
<1>11. \A ls : InWindow(m, {}, ls) => InWindow(c, ts, ls)
  <2>1. SUFFICES ASSUME NEW ls, InWindow(m, {}, ls), NEW t \in m.tabs, t \notin ts
                 PROVE  (\E w \in WindowIds : HasTab(c.win[w], t)) \/ m.tree[t] \cap ls # {}
    BY <1>6 DEF InWindow
  <2>2. CASE m.tree[t] \cap ls # {}
    BY <2>2
  <2>3. CASE \E w \in WindowIds : HasTab(m.win[w], t)
    <3>1. PICK w \in WindowIds : HasTab(m.win[w], t)
      BY <2>3
    <3>2. w \in m.open
      BY <3>1, NewWindowFacts DEF Sound, ClosedIsNew
    <3>3. w \notin ws
      BY <1>3, <2>1, <3>1, <3>2
    <3>. QED BY <1>9, <3>1, <3>3
  <2>. QED BY <2>1, <2>2, <2>3 DEF InWindow
<1>12. \A gone : InTree(m, gone) => InTree(c, gone)
  BY <1>6 DEF InTree
<1>13. /\ Sound(r)
       /\ r.tabs = c.tabs \ ts /\ r.tree = c.tree /\ r.ids = c.ids
       /\ \A gone : InTree(c, gone) => InTree(r, gone)
       /\ \A ls : InWindow(c, ts, ls) => InWindow(r, {}, ls)
  BY <1>4, <1>5, <1>10, RemoveTabsKeeps
<1>. QED BY <1>6, <1>11, <1>12, <1>13 DEF r

\* What one registry has become of another by removing: panes left trees, and
\* tabs the map.
Shrunk(m, r) ==
    /\ r.tabs \subseteq m.tabs /\ r.ids = m.ids
    /\ \A t \in TabIds : r.tree[t] \subseteq m.tree[t]

\* prune_dead_windows: the panes that leave their tabs are those whose removal is
\* queued, and no tab is left without a window.
LEMMA PruneKeeps ==
    ASSUME NEW m, Sound(m), NEW skips
    PROVE  LET r    == Prune(m, skips)
               left == (UNION {GonePanes(m, t) : t \in TabIds}) \ skips
           IN  /\ Sound(r) /\ Shrunk(m, r)
               /\ \A gone : InTree(m, gone) => InTree(r, gone \cup left)
               /\ \A ls : InWindow(m, {}, ls) => InWindow(r, {}, ls)
<1>. DEFINE r    == Prune(m, skips)
            left == (UNION {GonePanes(m, t) : t \in TabIds}) \ skips
            tree == [t \in TabIds |-> m.tree[t] \ (GonePanes(m, t) \ skips)]
            dead == {t \in TabIds : tree[t] \subseteq exited}
            win  == [w \in WindowIds |-> RemoveAll(RemoveAll(m.win[w], dead), TabIds \ m.tabs)]
            c    == [m EXCEPT !.tree = tree, !.win = win]
            ws   == {w \in m.open : win[w].tabs = <<>>}
<1>1. m \in Registry /\ m.open \subseteq WindowIds /\ m.tree \in [TabIds -> SUBSET PaneIds]
      /\ m.tabs \subseteq TabIds
  BY DEF Sound, Registry
<1>2. /\ \A w \in WindowIds : m.win[w] \in Windows
      /\ \A w \in WindowIds : \A t : HasTab(m.win[w], t) => t \in m.tabs /\ t \in TabIds
      /\ \A v, w \in WindowIds : \A t : HasTab(m.win[v], t) /\ HasTab(m.win[w], t) => v = w
      /\ \A t : t \in Shown(m) <=> \E w \in WindowIds : HasTab(m.win[w], t)
  BY SoundShown
<1>3. r = RemoveWindows(RemoveTabs(c, dead), ws)
  BY DEF Prune
<1>4. \A t \in TabIds : tree[t] = m.tree[t] \ (GonePanes(m, t) \ skips)
  OBVIOUS
<1>5. dead \in SUBSET TabIds /\ ws \in SUBSET WindowIds
  BY <1>1
<1>6. \A w \in WindowIds :
         /\ win[w] \in Windows /\ win[w].last = m.win[w].last
         /\ m.win[w] = NewWindow => win[w] = NewWindow
         /\ \A t : HasTab(win[w], t) <=> HasTab(m.win[w], t) /\ t \notin dead
  <2>1. SUFFICES ASSUME NEW w \in WindowIds
                 PROVE  /\ win[w] \in Windows /\ win[w].last = m.win[w].last
                        /\ m.win[w] = NewWindow => win[w] = NewWindow
                        /\ \A t : HasTab(win[w], t) <=> HasTab(m.win[w], t) /\ t \notin dead
    OBVIOUS
  <2>. DEFINE v == RemoveAll(m.win[w], dead)
  <2>2. win[w] = RemoveAll(v, TabIds \ m.tabs)
    OBVIOUS
  <2>. HIDE DEF win, dead
  <2>3. /\ v \in Windows /\ v.last = m.win[w].last
        /\ \A t : HasTab(v, t) <=> HasTab(m.win[w], t) /\ t \notin dead
    BY <1>2, RemoveAllCorrect
  <2>4. m.win[w] = NewWindow => win[w] = NewWindow
    BY <2>2, NewWindowFacts
  <2>. HIDE DEF v
  <2>5. /\ win[w] \in Windows /\ win[w].last = v.last
        /\ \A t : HasTab(win[w], t) <=> HasTab(v, t) /\ t \notin TabIds \ m.tabs
    BY <2>2, <2>3, RemoveAllCorrect
  <2>6. \A t : HasTab(m.win[w], t) => t \notin TabIds \ m.tabs
    BY <1>2
  <2>. QED BY <2>3, <2>4, <2>5, <2>6
<1>7. win \in [WindowIds -> Windows] /\ tree \in [TabIds -> SUBSET PaneIds]
  <2>1. win \in [WindowIds -> Windows]
    <3>. DEFINE e(w) == RemoveAll(RemoveAll(m.win[w], dead), TabIds \ m.tabs)
    <3>1. \A w \in WindowIds : e(w) \in Windows
      BY <1>6
    <3>. HIDE DEF e, dead
    <3>2. [w \in WindowIds |-> e(w)] \in [WindowIds -> Windows]
      BY <3>1
    <3>. QED BY <3>2 DEF e
  <2>2. tree \in [TabIds -> SUBSET PaneIds]
    BY <1>1
  <2>. QED BY <2>1, <2>2
<1>. HIDE DEF tree, win, dead, ws, r
<1>8. /\ c \in Registry /\ c.open = m.open /\ c.tabs = m.tabs /\ c.panes = m.panes
      /\ c.ids = m.ids /\ c.tree = tree /\ c.win = win
  BY <1>1, <1>7 DEF Registry
<1>. HIDE DEF c
<1>9. Sound(c)
  <2>1. NotesTabs(c)
    BY <1>6, <1>8 DEF NotesTabs, Sound
  <2>2. ClosedIsNew(c)
    BY <1>6, <1>8 DEF ClosedIsNew, Sound
  <2>3. TreesApart(c) /\ IdsAreNew(c)
    BY <1>1, <1>4, <1>8 DEF TreesApart, IdsAreNew, Sound
  <2>4. \A w \in WindowIds : \A t : HasTab(c.win[w], t) => t \in c.tabs
    BY <1>2, <1>6, <1>8
  <2>5. \A v, w \in WindowIds : \A t : HasTab(c.win[v], t) /\ HasTab(c.win[w], t) => v = w
    BY <1>2, <1>6, <1>8
  <2>. QED BY <1>8, <2>1, <2>2, <2>3, <2>4, <2>5, SoundFrom
<1>10. \A gone : InTree(m, gone) => InTree(c, gone \cup left)
  <2>1. SUFFICES ASSUME NEW gone, InTree(m, gone), NEW p \in m.panes, p \notin gone, p \notin left
                 PROVE  \E t \in m.tabs : p \in tree[t]
    BY <1>8 DEF InTree
  <2>2. PICK t \in m.tabs : p \in m.tree[t]
    BY <2>1 DEF InTree
  <2>3. t \in TabIds /\ p \notin GonePanes(m, t) \ skips
    BY <1>1, <2>1
  <2>. QED BY <1>4, <2>2, <2>3
<1>11. \A ls : InWindow(m, {}, ls) => InWindow(c, dead, ls)
  <2>1. SUFFICES ASSUME NEW ls, InWindow(m, {}, ls), NEW t \in m.tabs, t \notin dead
                 PROVE  (\E w \in WindowIds : HasTab(win[w], t)) \/ tree[t] \cap ls # {}
    BY <1>8 DEF InWindow
  <2>2. CASE \E w \in WindowIds : HasTab(m.win[w], t)
    BY <1>6, <2>1, <2>2
  <2>3. CASE ~ \E w \in WindowIds : HasTab(m.win[w], t)
    <3>1. m.tree[t] \cap ls # {}
      BY <2>1, <2>3 DEF InWindow
    <3>2. GonePanes(m, t) = {}
      BY <1>2, <2>3 DEF GonePanes
    <3>3. tree[t] = m.tree[t]
      BY <1>1, <1>4, <3>2
    <3>. QED BY <3>1, <3>3
  <2>. QED BY <2>2, <2>3
<1>. DEFINE d == RemoveTabs(c, dead)
<1>12. /\ Sound(d) /\ d.tabs = c.tabs \ dead /\ d.tree = c.tree /\ d.ids = c.ids
       /\ \A gone : InTree(c, gone) => InTree(d, gone)
       /\ \A ls : InWindow(c, dead, ls) => InWindow(d, {}, ls)
  BY <1>5, <1>9, RemoveTabsKeeps
<1>. HIDE DEF d, left
<1>13. /\ Sound(r) /\ r.tabs \subseteq d.tabs /\ r.tree = d.tree /\ r.ids = d.ids
       /\ \A gone : InTree(d, gone) => InTree(r, gone)
       /\ \A ls : InWindow(d, {}, ls) => InWindow(r, {}, ls)
  BY <1>3, <1>5, <1>12, RemoveWindowsKeeps DEF d
<1>14. Shrunk(m, r)
  BY <1>4, <1>8, <1>12, <1>13 DEF Shrunk
<1>15. \A gone : InTree(m, gone) => InTree(r, gone \cup left)
  BY <1>10, <1>12, <1>13
<1>16. \A ls : InWindow(m, {}, ls) => InWindow(r, {}, ls)
  BY <1>11, <1>12, <1>13
<1>. QED BY <1>13, <1>14, <1>15, <1>16 DEF r, left

\* ... or it does nothing.
LEMMA PrunedKeeps ==
    ASSUME NEW m, Sound(m), NEW after \in Pruned(m)
    PROVE  /\ Sound(after[1]) /\ Shrunk(m, after[1]) /\ after[2] \in SUBSET PaneIds
           /\ \A gone : InTree(m, gone) => InTree(after[1], gone \cup after[2])
           /\ \A ls : InWindow(m, {}, ls) => InWindow(after[1], {}, ls)
<1>1. CASE Activity
  <2>1. after[1] = m /\ after[2] = {}
    BY <1>1 DEF Pruned
  <2>2. Shrunk(m, m)
    BY DEF Shrunk
  <2>3. \A gone : gone \cup {} = gone
    OBVIOUS
  <2>. QED BY <2>1, <2>2, <2>3
<1>2. CASE ~Activity
  <2>1. PICK skips : /\ after[1] = Prune(m, skips)
                     /\ after[2] = (UNION {GonePanes(m, t) : t \in TabIds}) \ skips
    BY <1>2 DEF Pruned
  <2>2. \A t \in TabIds : GonePanes(m, t) \subseteq PaneIds
    BY DEF Sound, Registry, GonePanes
  <2>3. after[2] \in SUBSET PaneIds
    BY <2>1, <2>2
  <2>. QED BY <2>1, <2>3, PruneKeeps
<1>. QED BY <1>1, <1>2

\* The prune at the end of a step.
LEMMA ThenPruneKeeps ==
    ASSUME NEW m, Sound(m), NEW queued \in SUBSET PaneIds,
           InTree(m, lost \cup queued), InWindow(m, {}, lost), ThenPrune(m, queued)
    PROVE  /\ Sound(mux') /\ removals' \in SUBSET PaneIds
           /\ InTree(mux', lost \cup removals') /\ InWindow(mux', {}, lost)
<1>1. PICK after \in Pruned(m) : mux' = after[1] /\ removals' = queued \cup after[2]
  BY DEF ThenPrune
<1>2. (lost \cup queued) \cup after[2] = lost \cup removals'
  BY <1>1
<1>. QED BY <1>1, <1>2, PrunedKeeps

\* A window's own affairs: another active tab, or another order.
LEMMA WindowKeeps ==
    ASSUME NEW m, Sound(m), NEW w \in m.open, NEW v \in Windows,
           v.last \in TabIds \cup {NoTab}, \A t : HasTab(v, t) <=> HasTab(m.win[w], t)
    PROVE  LET r == [m EXCEPT !.win[w] = v]
           IN  /\ Sound(r)
               /\ \A gone : InTree(m, gone) => InTree(r, gone)
               /\ \A ls : InWindow(m, {}, ls) => InWindow(r, {}, ls)
<1>. DEFINE r == [m EXCEPT !.win[w] = v]
<1>1. m \in Registry /\ w \in WindowIds /\ m.win \in [WindowIds -> Windows]
  BY DEF Sound, Registry
<1>2. /\ r \in Registry /\ r.open = m.open /\ r.tabs = m.tabs /\ r.panes = m.panes
      /\ r.tree = m.tree /\ r.ids = m.ids
      /\ \A x \in WindowIds : r.win[x] = IF x = w THEN v ELSE m.win[x]
  <2>. DEFINE win == [m.win EXCEPT ![w] = v]
  <2>1. /\ win \in [WindowIds -> Windows]
        /\ \A x \in WindowIds : win[x] = IF x = w THEN v ELSE m.win[x]
    BY <1>1
  <2>2. r = [m EXCEPT !.win = win]
    OBVIOUS
  <2>. HIDE DEF win, r
  <2>. QED BY <1>1, <2>1, <2>2 DEF Registry
<1>. HIDE DEF r
<1>3. \A x \in WindowIds : \A t : HasTab(r.win[x], t) <=> HasTab(m.win[x], t)
  BY <1>2
<1>4. Sound(r)
  <2>1. NotesTabs(r) /\ ClosedIsNew(r)
    BY <1>2 DEF NotesTabs, ClosedIsNew, Sound
  <2>2. TreesApart(r) /\ IdsAreNew(r)
    BY <1>2 DEF TreesApart, IdsAreNew, Sound
  <2>3. \A x \in WindowIds : \A t : HasTab(r.win[x], t) => t \in r.tabs
    BY <1>2, <1>3, SoundShown
  <2>4. \A x, y \in WindowIds : \A t : HasTab(r.win[x], t) /\ HasTab(r.win[y], t) => x = y
    BY <1>3, SoundShown
  <2>. QED BY <1>2, <2>1, <2>2, <2>3, <2>4, SoundFrom
<1>5. \A gone : InTree(m, gone) => InTree(r, gone)
  BY <1>2 DEF InTree
<1>6. \A ls : InWindow(m, {}, ls) => InWindow(r, {}, ls)
  BY <1>2, <1>3 DEF InWindow
<1>. QED BY <1>4, <1>5, <1>6 DEF r

\* A new tab u gets the pane p, which leaves the tab it was in.  If u is put into a
\* window, that is w.
GivesTab(m, r, w, u, p) ==
    /\ u = m.ids.tab + 1 /\ r.ids.tab = u /\ r.tabs = m.tabs \cup {u}
    /\ p <= r.ids.pane /\ m.ids.pane <= r.ids.pane /\ r.panes = m.panes \cup {p}
    /\ r.tree[u] = {p} /\ \A s \in m.tabs : r.tree[s] = m.tree[s] \ {p}
    /\ \A s \in TabIds : s # u => r.tree[s] \subseteq m.tree[s]
    /\ \A s \in m.tabs : p \in m.tree[s] => \E x \in WindowIds : HasTab(m.win[x], s)
    /\ m.open \subseteq r.open /\ (w \in r.open \/ r.win[w] = m.win[w])
    /\ \A x \in WindowIds : x # w => r.win[x] = m.win[x]
    /\ r.win[w].last \in TabIds \cup {NoTab}
    /\ \A s : HasTab(r.win[w], s) => HasTab(m.win[w], s) \/ s = u
    /\ \A s : HasTab(m.win[w], s) => HasTab(r.win[w], s)

LEMMA NewTabKeeps ==
    ASSUME NEW m, Sound(m), NEW r \in Registry, NEW w \in WindowIds, NEW u \in TabIds,
           NEW p \in PaneIds, GivesTab(m, r, w, u, p)
    PROVE  /\ Sound(r)
           /\ \A gone : InTree(m, gone) => InTree(r, gone)
           /\ \A ls : InWindow(m, {}, ls) => InWindow(r, {u}, ls)
<1>. USE DEF GivesTab
<1>1. m \in Registry /\ m.tabs \subseteq TabIds /\ m.ids.tab \in Nat /\ m.ids.pane \in Nat
  <2>1. MaxTabs \in Nat /\ MaxPanes \in Nat
    BY BoundsAssumption
  <2>. QED BY <2>1 DEF Sound, Registry, TabIds, PaneIds
<1>2. \A t \in m.tabs : t \in Nat /\ t <= m.ids.tab /\ t # u
  <2>1. \A t \in TabIds : t \in Nat
    BY BoundsAssumption DEF TabIds
  <2>. QED BY <1>1, <2>1 DEF Sound, IdsAreNew
<1>3. /\ \A x \in WindowIds : \A t : HasTab(m.win[x], t) => t \in m.tabs /\ t \in TabIds
      /\ \A x, y \in WindowIds : \A t : HasTab(m.win[x], t) /\ HasTab(m.win[y], t) => x = y
  BY SoundShown
<1>4. \A x \in WindowIds : \A t :
         /\ HasTab(r.win[x], t) => HasTab(m.win[x], t) \/ (t = u /\ x = w)
         /\ HasTab(m.win[x], t) => HasTab(r.win[x], t)
  OBVIOUS
<1>5. Sound(r)
  <2>1. NotesTabs(r)
    BY DEF NotesTabs, Sound
  <2>2. ClosedIsNew(r)
    BY DEF ClosedIsNew, Sound
  <2>3. TreesApart(r)
    <3>1. SUFFICES ASSUME NEW s \in r.tabs, NEW t \in r.tabs, NEW q \in PaneIds,
                          q \in r.tree[s], q \in r.tree[t]
                   PROVE  s = t
      BY DEF TreesApart
    <3>2. CASE s = u \/ t = u
      BY <1>1, <1>2, <3>1, <3>2
    <3>3. CASE s # u /\ t # u
      BY <1>1, <3>1, <3>3 DEF Sound, TreesApart
    <3>. QED BY <3>2, <3>3
  <2>4. IdsAreNew(r)
    <3>1. \A t \in r.tabs : t <= r.ids.tab
      BY <1>1, <1>2
    <3>2. \A q \in PaneIds : q <= m.ids.pane => q <= r.ids.pane
      <4>1. \A q \in PaneIds : q \in Nat
        BY BoundsAssumption DEF PaneIds
      <4>2. r.ids.pane \in Nat
        BY <4>1 DEF Registry
      <4>. QED BY <1>1, <4>1, <4>2
    <3>3. ASSUME NEW t \in TabIds, NEW q \in r.tree[t]
          PROVE  q <= r.ids.pane
      <4>1. CASE t = u
        BY <3>3, <4>1
      <4>2. CASE t # u
        <5>1. q \in m.tree[t] /\ q \in PaneIds
          BY <1>1, <3>3, <4>2 DEF Registry
        <5>2. q <= m.ids.pane
          BY <5>1 DEF Sound, IdsAreNew
        <5>. QED BY <3>2, <5>1, <5>2
      <4>. QED BY <4>1, <4>2
    <3>. QED BY <3>1, <3>3 DEF IdsAreNew
  <2>5. \A x \in WindowIds : \A t : HasTab(r.win[x], t) => t \in r.tabs
    BY <1>3, <1>4
  <2>6. \A x, y \in WindowIds : \A t : HasTab(r.win[x], t) /\ HasTab(r.win[y], t) => x = y
    <3>1. SUFFICES ASSUME NEW x \in WindowIds, NEW y \in WindowIds, NEW t,
                          HasTab(r.win[x], t), HasTab(r.win[y], t)
                   PROVE  x = y
      OBVIOUS
    <3>2. ~HasTab(m.win[x], u) /\ ~HasTab(m.win[y], u)
      BY <1>2, <1>3
    <3>. QED BY <1>3, <1>4, <3>1, <3>2
  <2>. QED BY <2>1, <2>2, <2>3, <2>4, <2>5, <2>6, SoundFrom
<1>6. ASSUME NEW gone, InTree(m, gone)
      PROVE  InTree(r, gone)
  <2>1. SUFFICES ASSUME NEW q \in r.panes, q \notin gone
                 PROVE  \E t \in r.tabs : q \in r.tree[t]
    BY DEF InTree
  <2>2. CASE q = p
    BY <2>2
  <2>3. CASE q # p
    <3>1. PICK t \in m.tabs : q \in m.tree[t]
      BY <1>6, <2>1, <2>3 DEF InTree
    <3>. QED BY <2>3, <3>1
  <2>. QED BY <2>2, <2>3
<1>7. ASSUME NEW ls, InWindow(m, {}, ls)
      PROVE  InWindow(r, {u}, ls)
  <2>1. SUFFICES ASSUME NEW t \in m.tabs
                 PROVE  (\E x \in WindowIds : HasTab(r.win[x], t)) \/ r.tree[t] \cap ls # {}
    BY DEF InWindow
  <2>2. CASE \E x \in WindowIds : HasTab(m.win[x], t)
    BY <1>4, <2>2
  <2>3. CASE ~ \E x \in WindowIds : HasTab(m.win[x], t)
    <3>1. m.tree[t] \cap ls # {} /\ p \notin m.tree[t]
      BY <1>7, <2>1, <2>3 DEF InWindow
    <3>2. r.tree[t] = m.tree[t] \ {p}
      OBVIOUS
    <3>. QED BY <3>1, <3>2
  <2>. QED BY <2>2, <2>3
<1>. QED BY <1>5, <1>6, <1>7

\* A pane q that is in no registered tab goes into the tree of t, or into none.
GetsPane(m, r, t, q) ==
    /\ \A s \in m.tabs : q \notin m.tree[s]
    /\ r.open = m.open /\ r.tabs = m.tabs /\ r.win = m.win /\ r.ids.tab = m.ids.tab
    /\ r.panes \subseteq m.panes \cup {q} /\ q <= r.ids.pane /\ m.ids.pane <= r.ids.pane
    /\ \A s \in TabIds : s # t => r.tree[s] = m.tree[s]
    /\ r.tree[t] \in {m.tree[t], m.tree[t] \cup {q}}

\* That leaves the registry sound, and q in its tab if the mux still has the tab.
LEMMA NewPaneKeeps ==
    ASSUME NEW m, Sound(m), NEW r \in Registry, NEW t \in TabIds, NEW q \in PaneIds,
           GetsPane(m, r, t, q)
    PROVE  /\ Sound(r)
           /\ \A gone : InTree(m, gone \cup {q}) => InTree(r, gone \cup {q})
           /\ \A gone : InTree(m, gone \cup {q}) /\ q \in r.tree[t] /\ t \in m.tabs
                          => InTree(r, gone)
           /\ \A ls : InWindow(m, {}, ls) => InWindow(r, {}, ls)
<1>. USE DEF GetsPane
<1>1. m \in Registry /\ m.tabs \subseteq TabIds /\ m.ids.pane \in Nat /\ r.ids.pane \in Nat
  <2>1. MaxPanes \in Nat
    BY BoundsAssumption
  <2>. QED BY <2>1 DEF Sound, Registry, PaneIds
<1>2. \A s \in TabIds : /\ m.tree[s] \subseteq r.tree[s]
                        /\ r.tree[s] \subseteq m.tree[s] \cup (IF s = t THEN {q} ELSE {})
  OBVIOUS
<1>3. Sound(r)
  <2>1. NotesTabs(r) /\ ClosedIsNew(r)
    BY DEF NotesTabs, ClosedIsNew, Sound
  <2>2. TreesApart(r)
    BY <1>1, <1>2 DEF TreesApart, Sound
  <2>3. IdsAreNew(r)
    <3>1. ASSUME NEW s \in TabIds, NEW p \in r.tree[s]
          PROVE  p <= r.ids.pane
      <4>1. CASE p = q
        BY <4>1
      <4>2. CASE p # q
        <5>1. p \in m.tree[s]
          BY <1>2, <4>2
        <5>2. p <= m.ids.pane /\ p \in PaneIds
          BY <1>1, <5>1 DEF Sound, IdsAreNew, Registry
        <5>3. p \in Nat
          BY <5>2, BoundsAssumption DEF PaneIds
        <5>. QED BY <1>1, <5>2, <5>3
      <4>. QED BY <4>1, <4>2
    <3>2. \A s \in r.tabs : s <= r.ids.tab
      BY DEF Sound, IdsAreNew
    <3>. QED BY <3>1, <3>2 DEF IdsAreNew
  <2>4. \A x \in WindowIds : \A s : HasTab(r.win[x], s) => s \in r.tabs
    BY SoundShown
  <2>5. \A x, y \in WindowIds : \A s : HasTab(r.win[x], s) /\ HasTab(r.win[y], s) => x = y
    BY SoundShown
  <2>. QED BY <2>1, <2>2, <2>3, <2>4, <2>5, SoundFrom
<1>4. \A gone : InTree(m, gone \cup {q}) => InTree(r, gone \cup {q})
  BY <1>1, <1>2 DEF InTree
<1>5. \A gone : InTree(m, gone \cup {q}) /\ q \in r.tree[t] /\ t \in m.tabs => InTree(r, gone)
  BY <1>1, <1>2 DEF InTree
<1>6. \A ls : InWindow(m, {}, ls) => InWindow(r, {}, ls)
  BY <1>1, <1>2 DEF InWindow
<1>. QED BY <1>3, <1>4, <1>5, <1>6

\* A pane leaves the tree of a tab that a window shows.
LEMMA LeavesTree ==
    ASSUME NEW m, Sound(m), NEW s \in m.tabs, s \in Shown(m), NEW q
    PROVE  LET r == [m EXCEPT !.tree[s] = @ \ {q}]
           IN  /\ Sound(r) /\ Shrunk(m, r) /\ r.tabs = m.tabs /\ q \notin r.tree[s]
               /\ \A gone : InTree(m, gone) => InTree(r, gone \cup {q})
               /\ \A ls : InWindow(m, {}, ls) => InWindow(r, {}, ls)
<1>. DEFINE r == [m EXCEPT !.tree[s] = @ \ {q}]
<1>1. m \in Registry /\ s \in TabIds /\ m.tree \in [TabIds -> SUBSET PaneIds]
  BY DEF Sound, Registry
<1>2. /\ r \in Registry /\ r.open = m.open /\ r.tabs = m.tabs /\ r.panes = m.panes
      /\ r.win = m.win /\ r.ids = m.ids
      /\ \A t \in TabIds : r.tree[t] = IF t = s THEN m.tree[t] \ {q} ELSE m.tree[t]
  <2>. DEFINE tree == [m.tree EXCEPT ![s] = @ \ {q}]
  <2>1. /\ tree \in [TabIds -> SUBSET PaneIds]
        /\ \A t \in TabIds : tree[t] = IF t = s THEN m.tree[t] \ {q} ELSE m.tree[t]
    BY <1>1
  <2>2. r = [m EXCEPT !.tree = tree]
    OBVIOUS
  <2>. HIDE DEF tree, r
  <2>. QED BY <1>1, <2>1, <2>2 DEF Registry
<1>. HIDE DEF r
<1>3. PICK x \in WindowIds : HasTab(m.win[x], s)
  BY SoundShown
<1>4. Sound(r)
  <2>1. NotesTabs(r) /\ ClosedIsNew(r)
    BY <1>2 DEF NotesTabs, ClosedIsNew, Sound
  <2>2. TreesApart(r) /\ IdsAreNew(r)
    BY <1>1, <1>2 DEF TreesApart, IdsAreNew, Sound, Registry
  <2>3. \A w \in WindowIds : \A t : HasTab(r.win[w], t) => t \in r.tabs
    BY <1>2, SoundShown
  <2>4. \A v, w \in WindowIds : \A t : HasTab(r.win[v], t) /\ HasTab(r.win[w], t) => v = w
    BY <1>2, SoundShown
  <2>. QED BY <1>2, <2>1, <2>2, <2>3, <2>4, SoundFrom
<1>5. \A gone : InTree(m, gone) => InTree(r, gone \cup {q})
  BY <1>1, <1>2 DEF InTree, Registry
<1>6. \A ls : InWindow(m, {}, ls) => InWindow(r, {}, ls)
  <2>1. \A t \in m.tabs : t # s => r.tree[t] = m.tree[t]
    BY <1>1, <1>2 DEF Registry
  <2>. QED BY <1>2, <1>3, <2>1 DEF InWindow
<1>. QED BY <1>1, <1>2, <1>4, <1>5, <1>6 DEF Shrunk, r

\* Panes leave the map.
LEMMA RemovePanesKeeps ==
    ASSUME NEW m, Sound(m), NEW ps
    PROVE  LET r == RemovePanes(m, ps)
           IN  /\ Sound(r)
               /\ \A gone, rest : InTree(m, gone) /\ gone \subseteq rest \cup ps => InTree(r, rest)
               /\ \A ls : InWindow(m, {}, ls) => InWindow(r, {}, ls)
<1>. DEFINE r == RemovePanes(m, ps)
<1>1. m \in Registry
  BY DEF Sound
<1>2. /\ r \in Registry /\ r.open = m.open /\ r.tabs = m.tabs /\ r.panes = m.panes \ ps
      /\ r.win = m.win /\ r.ids = m.ids /\ r.tree = m.tree
  BY <1>1 DEF RemovePanes, Registry
<1>. HIDE DEF r
<1>3. Sound(r)
  <2>1. NotesTabs(r) /\ ClosedIsNew(r) /\ TreesApart(r) /\ IdsAreNew(r)
    BY <1>2 DEF NotesTabs, ClosedIsNew, TreesApart, IdsAreNew, Sound
  <2>. QED BY <1>2, <2>1, SoundShown, SoundFrom
<1>4. \A gone, rest : InTree(m, gone) /\ gone \subseteq rest \cup ps => InTree(r, rest)
  BY <1>2 DEF InTree
<1>5. \A ls : InWindow(m, {}, ls) => InWindow(r, {}, ls)
  BY <1>2 DEF InWindow
<1>. QED BY <1>3, <1>4, <1>5 DEF r

\* A number that is one more than the last id given.
LEMMA NextIds ==
    ASSUME NEW m, Sound(m)
    PROVE  /\ m.ids.tab < MaxTabs => m.ids.tab + 1 \in TabIds /\ m.ids.tab + 1 \in Tabs
           /\ m.ids.pane < MaxPanes =>
                 /\ m.ids.pane + 1 \in PaneIds /\ m.ids.pane <= m.ids.pane + 1
                 /\ \A t \in TabIds : m.ids.pane + 1 \notin m.tree[t]
           /\ m.ids.tab + 1 \notin m.tabs
           /\ m.ids.win < MaxWindows => m.ids.win + 1 \in WindowIds
<1>1. m.ids.tab \in TabIds /\ m.ids.pane \in PaneIds /\ m.ids.win \in WindowIds
      /\ m.tabs \subseteq TabIds /\ \A t \in TabIds : m.tree[t] \subseteq PaneIds
  BY DEF Sound, Registry
<1>2. MaxTabs \in Nat /\ MaxPanes \in Nat /\ MaxWindows \in Nat
  BY BoundsAssumption
<1>3. m.ids.tab \in Nat /\ m.ids.pane \in Nat /\ m.ids.win \in Nat
  BY <1>1, <1>2 DEF TabIds, PaneIds, WindowIds
<1>4. \A t \in m.tabs : t \in Nat /\ t <= m.ids.tab
  BY <1>1, <1>2 DEF Sound, IdsAreNew, TabIds
<1>5. \A t \in TabIds : \A p \in m.tree[t] : p \in Nat /\ p <= m.ids.pane
  BY <1>1, <1>2 DEF Sound, IdsAreNew, PaneIds
<1>6. m.ids.tab + 1 \notin m.tabs
  BY <1>3, <1>4
<1>7. \A t \in TabIds : m.ids.pane + 1 \notin m.tree[t]
  BY <1>3, <1>5
<1>. QED BY <1>2, <1>3, <1>6, <1>7 DEF TabIds, PaneIds, WindowIds, Tabs, NoTab

-----------------------------------------------------------------------------
(***************************************************************************)
(* The steps.                                                              *)
(***************************************************************************)
\* A request that was not made.
LEMMA FreshIsRequest ==
    Fresh \in Request
<1>1. 0 \in 0..MaxWindows /\ 0 \in 0..MaxTabs /\ 0 \in 0..MaxPanes
  BY BoundsAssumption
<1>. QED BY <1>1 DEF Fresh, Request

\* The requests while one begins ...
LEMMA Begins ==
    ASSUME IInv, NEW r \in Requests, NEW q \in Request,
           request' = [request EXCEPT ![r] = q],
           q.op = "spawn" => q.win \in WindowIds, q.op = "split" => q.tab \in TabIds
    PROVE  RequestsOk'
BY DEF IInv, RequestsOk

\* A window with no tab yet.
LEMMA SpawnWindowStep ==
    ASSUME IInv, NEW r \in Requests, NEW gui \in BOOLEAN, SpawnWindow(r, gui)
    PROVE  IInv'
<1>. DEFINE w == mux.ids.win + 1
<1>1. /\ request[r].op = "new" /\ mux.ids.win < MaxWindows
      /\ mux' = [mux EXCEPT !.ids.win = w, !.open = @ \cup {w}]
      /\ request' = [request EXCEPT ![r] = [Fresh EXCEPT !.op = "spawn", !.win = w, !.gui = gui]]
      /\ prune' = TRUE /\ UNCHANGED <<removals, exited, lost>>
  BY DEF SpawnWindow
<1>2. Sound(mux) /\ mux \in Registry /\ w \in WindowIds
  BY <1>1, NextIds DEF IInv, Tidy, Sound
<1>. HIDE DEF w
<1>3. /\ mux' \in Registry /\ mux'.tabs = mux.tabs /\ mux'.panes = mux.panes
      /\ mux'.win = mux.win /\ mux'.tree = mux.tree /\ mux.open \subseteq mux'.open
      /\ mux'.ids.tab = mux.ids.tab /\ mux'.ids.pane = mux.ids.pane
  BY <1>1, <1>2 DEF Registry
<1>4. Sound(mux')
  <2>1. NotesTabs(mux') /\ ClosedIsNew(mux') /\ TreesApart(mux') /\ IdsAreNew(mux')
    BY <1>2, <1>3 DEF NotesTabs, ClosedIsNew, TreesApart, IdsAreNew, Sound
  <2>. QED BY <1>2, <1>3, <2>1, SoundShown, SoundFrom
<1>5. Tidy(mux', removals', lost')
  BY <1>1, <1>3, <1>4 DEF IInv, Tidy, InTree, InWindow
<1>6. RequestsOk'
  <2>. DEFINE q == [Fresh EXCEPT !.op = "spawn", !.win = w, !.gui = gui]
  <2>1. w \in 0..MaxWindows
    BY <1>2, BoundsAssumption DEF WindowIds
  <2>2. q \in Request /\ q.op = "spawn" /\ q.win = w
    BY <2>1, FreshIsRequest DEF Request
  <2>. HIDE DEF q
  <2>3. request' = [request EXCEPT ![r] = q]
    BY <1>1 DEF q
  <2>. QED BY <1>2, <2>2, <2>3, Begins
<1>. QED BY <1>1, <1>5, <1>6 DEF IInv, TasksOk

\* ... or ends.
LEMMA Ends ==
    ASSUME IInv, NEW r \in Requests, Finish(r), EndActivity(r)
    PROVE  RequestsOk' /\ prune' \in BOOLEAN
<1>. DEFINE q == [Fresh EXCEPT !.op = "done"]
<1>1. q \in Request /\ q.op = "done"
  BY FreshIsRequest DEF Request
<1>2. request' = [request EXCEPT ![r] = q]
  BY DEF Finish
<1>. HIDE DEF q
<1>4. RequestsOk'
  BY <1>1, <1>2, Begins
<1>5. prune' \in BOOLEAN
  BY DEF IInv, TasksOk, RequestsOk, Request, EndActivity
<1>. QED BY <1>4, <1>5

\* The new tab is in the window it was meant for, or its pane is lost.
LEMMA SpawnDoneStep ==
    ASSUME IInv, NEW r \in Requests, SpawnDone(r)
    PROVE  IInv'
<1>. DEFINE t == mux.ids.tab + 1
            p == mux.ids.pane + 1
            w == request[r].win
            v == PushTab(mux.win[w], t)
            m == [mux EXCEPT !.ids.tab = t, !.ids.pane = p,
                             !.tabs = @ \cup {t}, !.panes = @ \cup {p}, !.tree[t] = {p}]
            x == SaveAndThenSetActive(v, Len(v.tabs))
<1>1. /\ request[r].op = "spawn" /\ mux.ids.tab < MaxTabs /\ mux.ids.pane < MaxPanes
      /\ \/ w \in mux.open /\ mux' = [m EXCEPT !.win[w] = x] /\ UNCHANGED lost
         \/ w \notin mux.open /\ mux' = m /\ lost' = lost \cup {p}
      /\ Finish(r) /\ EndActivity(r) /\ UNCHANGED <<removals, exited>>
  BY DEF SpawnDone
<1>2. /\ Sound(mux) /\ mux \in Registry /\ w \in WindowIds
      /\ t \in TabIds /\ t \in Tabs /\ p \in PaneIds /\ mux.ids.pane <= p /\ t \notin mux.tabs
      /\ \A s \in TabIds : p \notin mux.tree[s]
      /\ mux.win[w] \in Windows
      /\ mux.tree \in [TabIds -> SUBSET PaneIds] /\ mux.win \in [WindowIds -> Windows]
      /\ mux.tabs \subseteq TabIds
  BY <1>1, NextIds DEF IInv, Tidy, Sound, RequestsOk, Registry
<1>. HIDE DEF t, p, w
<1>3. /\ ~HasTab(mux.win[w], t)
      /\ \A s : HasTab(mux.win[w], s) => s \in TabIds
  BY <1>2, SoundShown
<1>4. /\ x \in Windows /\ \A s : HasTab(x, s) <=> HasTab(mux.win[w], s) \/ s = t
      /\ x.last \in TabIds \cup {NoTab}
  <2>1. /\ v \in Windows /\ v.last = mux.win[w].last
        /\ \A s : HasTab(v, s) <=> HasTab(mux.win[w], s) \/ s = t
        /\ Len(v.tabs) \in 1..Len(v.tabs)
    BY <1>2, <1>3, PushTabCorrect, PushTabAdds
  <2>. HIDE DEF v
  <2>2. /\ x \in Windows /\ \A s : HasTab(x, s) <=> HasTab(v, s)
        /\ x.last = v.last \/ HasTab(v, x.last)
    BY <2>1, SetActiveNotes
  <2>. HIDE DEF x
  <2>3. v.last \in TabIds \cup {NoTab}
    BY <1>2, <2>1 DEF Sound, NotesTabs
  <2>. QED BY <1>2, <1>3, <2>1, <2>2, <2>3
<1>. HIDE DEF x, v
<1>5. /\ m \in Registry /\ m.tabs = mux.tabs \cup {t} /\ m.panes = mux.panes \cup {p}
      /\ m.ids.tab = t /\ m.ids.pane = p /\ m.open = mux.open /\ m.win = mux.win
      /\ \A s \in TabIds : m.tree[s] = IF s = t THEN {p} ELSE mux.tree[s]
  <2>. DEFINE tree == [mux.tree EXCEPT ![t] = {p}]
              ids == [[mux.ids EXCEPT !.tab = t] EXCEPT !.pane = p]
  <2>1. /\ tree \in [TabIds -> SUBSET PaneIds]
        /\ \A s \in TabIds : tree[s] = IF s = t THEN {p} ELSE mux.tree[s]
    BY <1>2
  <2>2. ids \in [win : WindowIds, tab : TabIds, pane : PaneIds] /\ ids.tab = t /\ ids.pane = p
    BY <1>2 DEF Registry
  <2>3. m = [[[[mux EXCEPT !.ids = ids] EXCEPT !.tabs = @ \cup {t}] EXCEPT !.panes = @ \cup {p}]
                EXCEPT !.tree = tree]
    BY <1>2 DEF Registry
  <2>. HIDE DEF tree, ids, m
  <2>. QED BY <1>2, <2>1, <2>2, <2>3 DEF Registry
<1>. HIDE DEF m
<1>6. /\ mux' \in Registry /\ mux'.tabs = m.tabs /\ mux'.panes = m.panes /\ mux'.ids = m.ids
      /\ mux'.open = m.open /\ mux'.tree = m.tree
      /\ \A y \in WindowIds : mux'.win[y] = IF y = w /\ w \in mux.open THEN x ELSE mux.win[y]
  <2>1. CASE w \in mux.open
    <3>. DEFINE win == [mux.win EXCEPT ![w] = x]
    <3>1. /\ win \in [WindowIds -> Windows]
          /\ \A y \in WindowIds : win[y] = IF y = w THEN x ELSE mux.win[y]
      BY <1>2, <1>4
    <3>2. mux' = [m EXCEPT !.win = win]
      BY <1>1, <1>5, <2>1
    <3>. HIDE DEF win
    <3>. QED BY <1>5, <2>1, <3>1, <3>2 DEF Registry
  <2>2. CASE w \notin mux.open
    BY <1>1, <1>5, <2>2
  <2>. QED BY <2>1, <2>2
<1>. DEFINE n == mux'
<1>. HIDE DEF n
<1>7. /\ Sound(n)
      /\ \A gone : InTree(mux, gone) => InTree(n, gone)
      /\ \A ls : InWindow(mux, {}, ls) => InWindow(n, {t}, ls)
  <2>1. /\ n \in Registry /\ n.tabs = mux.tabs \cup {t} /\ n.ids.tab = t
        /\ n.panes = mux.panes \cup {p} /\ p <= n.ids.pane /\ mux.ids.pane <= n.ids.pane
        /\ t = mux.ids.tab + 1 /\ n.tree[t] = {p} /\ mux.open \subseteq n.open
    BY <1>2, <1>5, <1>6 DEF n, t, PaneIds
  <2>2. \A s \in mux.tabs : n.tree[s] = mux.tree[s] \ {p}
    BY <1>2, <1>5, <1>6 DEF n
  <2>3. \A s \in TabIds : s # t => n.tree[s] \subseteq mux.tree[s]
    BY <1>5, <1>6 DEF n
  <2>4. \A s \in mux.tabs : p \in mux.tree[s] => \E y \in WindowIds : HasTab(mux.win[y], s)
    BY <1>2
  <2>5. /\ w \in n.open \/ n.win[w] = mux.win[w]
        /\ \A y \in WindowIds : y # w => n.win[y] = mux.win[y]
    BY <1>2, <1>5, <1>6 DEF n
  <2>6. /\ n.win[w].last \in TabIds \cup {NoTab}
        /\ \A s : HasTab(n.win[w], s) => HasTab(mux.win[w], s) \/ s = t
        /\ \A s : HasTab(mux.win[w], s) => HasTab(n.win[w], s)
    BY <1>2, <1>4, <1>6 DEF n, Sound, NotesTabs
  <2>7. GivesTab(mux, n, w, t, p)
    BY <2>1, <2>2, <2>3, <2>4, <2>5, <2>6 DEF GivesTab
  <2>. QED BY <1>2, <2>1, <2>7, NewTabKeeps
<1>8. Tidy(mux', removals', lost')
  <2>1. InTree(mux', lost' \cup removals')
    BY <1>1, <1>7 DEF IInv, Tidy, InTree, n
  <2>2. InWindow(mux', {t}, lost)
    BY <1>7 DEF IInv, Tidy, n
  <2>3. InWindow(mux', {}, lost')
    <3>1. CASE w \in mux.open
      <4>1. HasTab(mux'.win[w], t) /\ lost' = lost
        BY <1>1, <1>2, <1>4, <1>6, <3>1
      <4>. QED BY <1>2, <2>2, <4>1 DEF InWindow
    <3>2. CASE w \notin mux.open
      <4>1. lost' = lost \cup {p} /\ mux'.tree[t] = {p}
        BY <1>1, <1>2, <1>5, <1>6, <3>2
      <4>. QED BY <2>2, <4>1 DEF InWindow
    <3>. QED BY <3>1, <3>2
  <2>. QED BY <1>7, <2>1, <2>3 DEF Tidy, n
<1>9. TasksOk' /\ RequestsOk'
  BY <1>1, <1>2, Ends DEF IInv, TasksOk
<1>. QED BY <1>8, <1>9 DEF IInv

\* The new pane is in a tab that the mux has, or lost.
LEMMA SplitDoneStep ==
    ASSUME IInv, NEW r \in Requests, NEW accepted \in BOOLEAN, SplitDone(r, accepted)
    PROVE  IInv'
<1>. DEFINE q == mux.ids.pane + 1
            t == request[r].tab
            split == accepted /\ request[r].pane \in mux.tree[t]
<1>1. /\ request[r].op = "split" /\ mux.ids.pane < MaxPanes
      /\ mux' = [mux EXCEPT !.ids.pane = q, !.panes = @ \cup {q},
                            !.tree[t] = IF split THEN @ \cup {q} ELSE @]
      /\ lost' = IF split /\ t \in mux.tabs THEN lost ELSE lost \cup {q}
      /\ Finish(r) /\ EndActivity(r) /\ UNCHANGED <<removals, exited>>
  BY DEF SplitDone
<1>2. /\ Sound(mux) /\ mux \in Registry /\ t \in TabIds
      /\ q \in PaneIds /\ mux.ids.pane <= q /\ \A s \in TabIds : q \notin mux.tree[s]
      /\ mux.tree \in [TabIds -> SUBSET PaneIds] /\ mux.tabs \subseteq TabIds
  BY <1>1, NextIds DEF IInv, Tidy, Sound, RequestsOk, Registry
<1>. HIDE DEF q, t, split
<1>3. /\ mux' \in Registry /\ mux'.tabs = mux.tabs /\ mux'.panes = mux.panes \cup {q}
      /\ mux'.ids.tab = mux.ids.tab /\ mux'.ids.pane = q
      /\ mux'.open = mux.open /\ mux'.win = mux.win
      /\ \A s \in TabIds : s # t => mux'.tree[s] = mux.tree[s]
      /\ mux'.tree[t] = IF split THEN mux.tree[t] \cup {q} ELSE mux.tree[t]
  <2>. DEFINE tree == [mux.tree EXCEPT ![t] = IF split THEN @ \cup {q} ELSE @]
              ids == [mux.ids EXCEPT !.pane = q]
  <2>1. /\ tree \in [TabIds -> SUBSET PaneIds]
        /\ \A s \in TabIds : s # t => tree[s] = mux.tree[s]
        /\ tree[t] = IF split THEN mux.tree[t] \cup {q} ELSE mux.tree[t]
    BY <1>2
  <2>2. /\ ids \in [win : WindowIds, tab : TabIds, pane : PaneIds]
        /\ ids.tab = mux.ids.tab /\ ids.pane = q
    BY <1>2 DEF Registry
  <2>3. mux' = [[[mux EXCEPT !.ids = ids] EXCEPT !.panes = @ \cup {q}] EXCEPT !.tree = tree]
    BY <1>1, <1>2 DEF Registry
  <2>. HIDE DEF tree, ids
  <2>. QED BY <1>2, <2>1, <2>2, <2>3 DEF Registry
<1>. DEFINE n == mux'
<1>. HIDE DEF n
<1>4. GetsPane(mux, n, t, q)
  <2>1. /\ n.panes \subseteq mux.panes \cup {q} /\ q <= n.ids.pane /\ mux.ids.pane <= n.ids.pane
        /\ n.tree[t] \in {mux.tree[t], mux.tree[t] \cup {q}}
    BY <1>2, <1>3 DEF n, PaneIds
  <2>2. \A s \in mux.tabs : q \notin mux.tree[s]
    BY <1>2
  <2>. QED BY <1>3, <2>1, <2>2 DEF GetsPane, n
<1>7. Sound(mux) /\ n \in Registry /\ t \in TabIds /\ q \in PaneIds
  BY <1>2, <1>3 DEF n
<1>8. Sound(n) /\ \A ls : InWindow(mux, {}, ls) => InWindow(n, {}, ls)
  BY <1>4, <1>7, NewPaneKeeps
<1>9. \A gone : InTree(mux, gone \cup {q}) => InTree(n, gone \cup {q})
  BY <1>4, <1>7, NewPaneKeeps
<1>10. \A gone : InTree(mux, gone \cup {q}) /\ q \in n.tree[t] /\ t \in mux.tabs => InTree(n, gone)
  BY <1>4, <1>7, NewPaneKeeps
<1>5. Tidy(mux', removals', lost')
  <2>1. InTree(mux, (lost \cup removals) \cup {q})
    BY DEF IInv, Tidy, InTree
  <2>2. InTree(n, lost' \cup removals')
    <3>1. CASE split /\ t \in mux.tabs
      <4>1. q \in n.tree[t] /\ lost' = lost /\ removals' = removals
        BY <1>1, <1>3, <3>1 DEF n
      <4>. QED BY <1>10, <2>1, <3>1, <4>1
    <3>2. CASE ~(split /\ t \in mux.tabs)
      <4>1. lost' \cup removals' = (lost \cup removals) \cup {q}
        BY <1>1, <3>2
      <4>. QED BY <1>9, <2>1, <4>1
    <3>. QED BY <3>1, <3>2
  <2>3. InWindow(n, {}, lost')
    BY <1>1, <1>8 DEF IInv, Tidy, InWindow
  <2>. QED BY <1>8, <2>2, <2>3 DEF Tidy, n
<1>6. TasksOk' /\ RequestsOk'
  BY <1>1, <1>2, Ends DEF IInv, TasksOk
<1>. QED BY <1>5, <1>6 DEF IInv

\* The tab of a pane, as resolve_pane_id finds it.
LEMMA TabOfPane ==
    ASSUME NEW m, Sound(m), NEW p, NEW t \in TabsOf(m, p)
    PROVE  /\ t \in m.tabs /\ t \in TabIds /\ t \in Shown(m) /\ p \in m.tree[t] /\ p \in PaneIds
           /\ p <= m.ids.pane /\ \E x \in WindowIds : HasTab(m.win[x], t)
           /\ \A s \in m.tabs : p \in m.tree[s] => s = t
<1>1. t \in m.tabs /\ t \in Shown(m) /\ p \in m.tree[t]
  BY DEF TabsOf
<1>2. t \in TabIds /\ p \in PaneIds
  BY <1>1 DEF Sound, Registry
<1>. QED BY <1>1, <1>2, SoundShown DEF Sound, IdsAreNew, TreesApart

\* The part of the invariant that a prune at the end of a step takes care of.
LEMMA ThenPruneStep ==
    ASSUME IInv, NEW m, Sound(m), NEW queued \in SUBSET PaneIds,
           InTree(m, lost \cup queued), InWindow(m, {}, lost),
           ThenPrune(m, queued), UNCHANGED <<exited, request, lost>>, prune' \in BOOLEAN
    PROVE  IInv'
<1>1. /\ Sound(mux') /\ removals' \in SUBSET PaneIds
      /\ InTree(mux', lost \cup removals') /\ InWindow(mux', {}, lost)
  BY ThenPruneKeeps
<1>2. Tidy(mux', removals', lost')
  BY <1>1 DEF Tidy
<1>3. RequestsOk'
  BY DEF IInv, RequestsOk
<1>4. TasksOk'
  BY <1>1 DEF IInv, TasksOk
<1>. QED BY <1>2, <1>3, <1>4 DEF IInv

\* The pane is never without a tab, and the tab it leaves goes if it was the last.
LEMMA MovePaneStep ==
    ASSUME IInv, NEW p \in PaneIds, NEW w \in WindowIds, MovePane(p, w)
    PROVE  IInv'
<1>. DEFINE u     == mux.ids.tab + 1
            isNew == w \notin mux.open
            moved(t) == MoveToNewTab(mux, p, t, w)
            emptied(t) == moved(t).tree[t] \subseteq exited
            left(t) == IF emptied(t) THEN RemoveTabs(moved(t), {t}) ELSE moved(t)
<1>1. PICK t \in TabsOf(mux, p) :
         /\ mux.ids.tab < MaxTabs
         /\ prune' = (prune \/ isNew)
         /\ \/ ThenPrune(left(t), removals)
            \/ mux' = left(t) /\ UNCHANGED removals
  BY DEF MovePane
<1>2. UNCHANGED <<exited, request, lost>>
  BY DEF MovePane
<1>. DEFINE n == moved(t)
            v == PushTab(mux.win[w], u)
<1>3. /\ Sound(mux) /\ mux \in Registry /\ u \in TabIds /\ u \in Tabs /\ u \notin mux.tabs
      /\ mux.win[w] \in Windows
      /\ mux.tree \in [TabIds -> SUBSET PaneIds] /\ mux.win \in [WindowIds -> Windows]
      /\ mux.tabs \subseteq TabIds /\ mux.ids.pane \in Nat
  <2>1. Sound(mux) /\ mux \in Registry
    BY DEF IInv, Tidy, Sound
  <2>2. mux.ids.pane \in Nat
    BY <2>1, BoundsAssumption DEF Registry, PaneIds
  <2>. QED BY <1>1, <2>1, <2>2, NextIds DEF Registry
<1>4. /\ t \in mux.tabs /\ t \in TabIds /\ p \in mux.tree[t] /\ p <= mux.ids.pane /\ t # u
      /\ \E x \in WindowIds : HasTab(mux.win[x], t)
      /\ \A s \in mux.tabs : p \in mux.tree[s] => s = t
  BY <1>1, <1>3, TabOfPane
<1>5. /\ v \in Windows /\ v.last = mux.win[w].last
      /\ \A s : HasTab(v, s) <=> HasTab(mux.win[w], s) \/ s = u
  <2>1. ~HasTab(mux.win[w], u)
    BY <1>3, SoundShown
  <2>. HIDE DEF u
  <2>. QED BY <1>3, <2>1, PushTabCorrect, PushTabAdds
<1>6. /\ n \in Registry /\ n.tabs = mux.tabs \cup {u} /\ n.panes = mux.panes \cup {p}
      /\ n.ids.tab = u /\ n.ids.pane = mux.ids.pane /\ n.open = mux.open \cup {w}
      /\ \A x \in WindowIds : n.win[x] = IF x = w THEN v ELSE mux.win[x]
      /\ \A s \in TabIds : n.tree[s] = IF s = u THEN {p}
                                       ELSE IF s = t THEN mux.tree[t] \ {p} ELSE mux.tree[s]
  <2>. DEFINE tree == [[mux.tree EXCEPT ![t] = @ \ {p}] EXCEPT ![u] = {p}]
              ids == [win |-> IF isNew THEN w ELSE mux.ids.win, tab |-> u, pane |-> mux.ids.pane]
              win == [mux.win EXCEPT ![w] = v]
  <2>. HIDE DEF u, v
  <2>1. /\ tree \in [TabIds -> SUBSET PaneIds]
        /\ \A s \in TabIds : tree[s] = IF s = u THEN {p}
                                       ELSE IF s = t THEN mux.tree[t] \ {p} ELSE mux.tree[s]
    BY <1>3, <1>4
  <2>2. /\ ids \in [win : WindowIds, tab : TabIds, pane : PaneIds]
        /\ ids.tab = u /\ ids.pane = mux.ids.pane
    BY <1>3 DEF Registry
  <2>3. /\ win \in [WindowIds -> Windows]
        /\ \A x \in WindowIds : win[x] = IF x = w THEN v ELSE mux.win[x]
    BY <1>3, <1>5
  <2>4. n = [open |-> mux.open \cup {w}, tabs |-> mux.tabs \cup {u}, panes |-> mux.panes \cup {p},
             win |-> win, tree |-> tree, ids |-> ids]
    BY DEF v, u, MoveToNewTab
  <2>. HIDE DEF tree, ids, win, n
  <2>5. /\ n.tabs = mux.tabs \cup {u} /\ n.panes = mux.panes \cup {p}
        /\ n.open = mux.open \cup {w} /\ n.win = win /\ n.tree = tree /\ n.ids = ids
    BY <2>4
  <2>6. n \in Registry
    BY <1>3, <2>1, <2>2, <2>3, <2>4 DEF Registry
  <2>. QED BY <2>1, <2>2, <2>3, <2>5, <2>6
<1>. HIDE DEF v
<1>7. /\ Sound(n)
      /\ \A gone : InTree(mux, gone) => InTree(n, gone)
      /\ \A ls : InWindow(mux, {}, ls) => InWindow(n, {u}, ls)
  <2>. HIDE DEF n, moved, isNew
  <2>1. /\ n.tabs = mux.tabs \cup {u} /\ n.ids.tab = u /\ u = mux.ids.tab + 1
        /\ n.panes = mux.panes \cup {p} /\ p <= n.ids.pane /\ mux.ids.pane <= n.ids.pane
        /\ n.tree[u] = {p} /\ mux.open \subseteq n.open /\ w \in n.open
    BY <1>3, <1>4, <1>6
  <2>. HIDE DEF u
  <2>2. \A s \in mux.tabs : n.tree[s] = mux.tree[s] \ {p}
    BY <1>3, <1>4, <1>6
  <2>3. \A s \in TabIds : s # u => n.tree[s] \subseteq mux.tree[s]
    BY <1>4, <1>6
  <2>4. \A s \in mux.tabs : p \in mux.tree[s] => \E x \in WindowIds : HasTab(mux.win[x], s)
    BY <1>4
  <2>5. \A x \in WindowIds : x # w => n.win[x] = mux.win[x]
    BY <1>6
  <2>6. /\ n.win[w].last \in TabIds \cup {NoTab}
        /\ \A s : HasTab(n.win[w], s) => HasTab(mux.win[w], s) \/ s = u
        /\ \A s : HasTab(mux.win[w], s) => HasTab(n.win[w], s)
    BY <1>3, <1>5, <1>6 DEF Sound, NotesTabs
  <2>7. GivesTab(mux, n, w, u, p)
    BY <2>1, <2>2, <2>3, <2>4, <2>5, <2>6 DEF GivesTab
  <2>8. Sound(mux) /\ n \in Registry /\ u \in TabIds
    BY <1>3, <1>6
  <2>9. Sound(n)
    BY <2>7, <2>8, NewTabKeeps
  <2>10. \A gone : InTree(mux, gone) => InTree(n, gone)
    BY <2>7, <2>8, NewTabKeeps
  <2>11. \A ls : InWindow(mux, {}, ls) => InWindow(n, {u}, ls)
    BY <2>7, <2>8, NewTabKeeps
  <2>. QED BY <2>9, <2>10, <2>11
<1>8. HasTab(n.win[w], u)
  BY <1>5, <1>6
<1>. HIDE DEF n, u, moved
<1>9. InTree(n, lost \cup removals) /\ InWindow(n, {}, lost)
  <2>1. InTree(n, lost \cup removals) /\ InWindow(n, {u}, lost)
    BY <1>7 DEF IInv, Tidy
  <2>. QED BY <1>8, <2>1 DEF InWindow
<1>10. /\ Sound(left(t)) /\ InTree(left(t), lost \cup removals) /\ InWindow(left(t), {}, lost)
  <2>1. CASE ~emptied(t)
    BY <1>7, <1>9, <2>1 DEF n
  <2>2. CASE emptied(t)
    <3>1. left(t) = RemoveTabs(n, {t}) /\ {t} \in SUBSET TabIds
      BY <1>4, <2>2 DEF n
    <3>2. InWindow(n, {t}, lost)
      BY <1>9 DEF InWindow
    <3>. HIDE DEF left
    <3>. QED BY <1>7, <1>9, <3>1, <3>2, RemoveTabsKeeps
  <2>. QED BY <2>1, <2>2
<1>11. prune' \in BOOLEAN
  BY <1>1 DEF IInv, TasksOk
<1>. HIDE DEF left
<1>12. CASE ThenPrune(left(t), removals)
  BY <1>2, <1>10, <1>11, <1>12, ThenPruneStep DEF IInv, TasksOk
<1>13. CASE mux' = left(t) /\ UNCHANGED removals
  BY <1>2, <1>10, <1>11, <1>13 DEF IInv, TasksOk, RequestsOk, Tidy
<1>. QED BY <1>1, <1>12, <1>13

\* Between its two tabs q is in none, and a prune may come then; whatever that took
\* away, q is in no registered tab when it is put beside p, or refused.
LEMMA SplitMoveStep ==
    ASSUME IInv, NEW p \in PaneIds, NEW q \in PaneIds, NEW accepted \in BOOLEAN,
           SplitMove(p, q, accepted)
    PROVE  IInv'
<1>. DEFINE moved(s)   == [mux EXCEPT !.tree[s] = @ \ {q}]
            emptied(s) == moved(s).tree[s] \subseteq exited
            without(s) == IF emptied(s) THEN RemoveTabs(moved(s), {s}) ELSE moved(s)
<1>1. PICK t \in TabsOf(mux, p), s \in TabsOf(mux, q) :
         \E after \in IF emptied(s) THEN Pruned(without(s)) ELSE {<<without(s), {}>>} :
            LET m == after[1]
                split == accepted /\ p \in m.tree[t]
            IN  /\ mux' = [m EXCEPT !.tree[t] = IF split THEN @ \cup {q} ELSE @]
                /\ removals' = removals \cup after[2]
                /\ lost' = IF split /\ t \in m.tabs THEN lost ELSE lost \cup {q}
  BY DEF SplitMove
<1>2. PICK after \in IF emptied(s) THEN Pruned(without(s)) ELSE {<<without(s), {}>>} :
            LET m == after[1]
                split == accepted /\ p \in m.tree[t]
            IN  /\ mux' = [m EXCEPT !.tree[t] = IF split THEN @ \cup {q} ELSE @]
                /\ removals' = removals \cup after[2]
                /\ lost' = IF split /\ t \in m.tabs THEN lost ELSE lost \cup {q}
  BY <1>1
<1>. DEFINE m == after[1]
            split == accepted /\ p \in m.tree[t]
            c == moved(s)
            d == without(s)
<1>3. /\ mux' = [m EXCEPT !.tree[t] = IF split THEN @ \cup {q} ELSE @]
      /\ removals' = removals \cup after[2]
      /\ lost' = IF split /\ t \in m.tabs THEN lost ELSE lost \cup {q}
      /\ UNCHANGED <<prune, exited, request>>
  BY <1>2 DEF SplitMove
<1>4. /\ Sound(mux) /\ s \in mux.tabs /\ s \in TabIds /\ s \in Shown(mux) /\ t \in TabIds
      /\ q <= mux.ids.pane /\ \A x \in mux.tabs : q \in mux.tree[x] => x = s
  BY TabOfPane DEF IInv, Tidy
<1>5. /\ Sound(c) /\ Shrunk(mux, c) /\ q \notin c.tree[s]
      /\ \A gone : InTree(mux, gone) => InTree(c, gone \cup {q})
      /\ \A ls : InWindow(mux, {}, ls) => InWindow(c, {}, ls)
  BY <1>4, LeavesTree
<1>. HIDE DEF c, moved, m
<1>6. /\ Sound(d) /\ Shrunk(c, d)
      /\ \A gone : InTree(c, gone) => InTree(d, gone)
      /\ \A ls : InWindow(c, {}, ls) => InWindow(d, {}, ls)
  <2>1. CASE ~emptied(s)
    <3>1. d = c
      BY <2>1 DEF c
    <3>. QED BY <1>5, <3>1 DEF Shrunk
  <2>2. CASE emptied(s)
    <3>1. d = RemoveTabs(c, {s}) /\ {s} \in SUBSET TabIds
      BY <1>4, <2>2 DEF c
    <3>2. \A ls : InWindow(c, {}, ls) => InWindow(c, {s}, ls)
      BY DEF InWindow
    <3>. HIDE DEF d
    <3>3. /\ Sound(d) /\ d.tabs = c.tabs \ {s} /\ d.tree = c.tree /\ d.ids = c.ids
          /\ \A gone : InTree(c, gone) => InTree(d, gone)
          /\ \A ls : InWindow(c, {s}, ls) => InWindow(d, {}, ls)
      BY <1>5, <3>1, RemoveTabsKeeps
    <3>. QED BY <3>2, <3>3 DEF Shrunk
  <2>. QED BY <2>1, <2>2
<1>7. /\ Sound(m) /\ Shrunk(d, m) /\ after[2] \in SUBSET PaneIds
      /\ \A gone : InTree(d, gone) => InTree(m, gone \cup after[2])
      /\ \A ls : InWindow(d, {}, ls) => InWindow(m, {}, ls)
  <2>1. CASE ~emptied(s)
    <3>1. m = d /\ after[2] = {}
      BY <1>2, <2>1 DEF m
    <3>2. \A gone : gone \cup {} = gone
      OBVIOUS
    <3>. QED BY <1>6, <3>1, <3>2 DEF Shrunk
  <2>2. CASE emptied(s)
    <3>1. after \in Pruned(d)
      BY <1>2, <2>2
    <3>. HIDE DEF d
    <3>. QED BY <1>6, <3>1, PrunedKeeps DEF m
  <2>. QED BY <2>1, <2>2
<1>. HIDE DEF d, without, emptied
<1>8. /\ m \in Registry /\ m.tree \in [TabIds -> SUBSET PaneIds]
      /\ m.ids.pane = mux.ids.pane /\ m.ids.pane \in Nat
      /\ \A x \in m.tabs : q \notin m.tree[x]
  <2>1. m \in Registry
    BY <1>7 DEF Sound
  <2>2. m.tabs \subseteq TabIds
    BY <2>1 DEF Registry
  <2>3. /\ m.tabs \subseteq mux.tabs /\ m.ids = mux.ids
        /\ \A x \in TabIds : m.tree[x] \subseteq c.tree[x] /\ c.tree[x] \subseteq mux.tree[x]
    BY <1>5, <1>6, <1>7 DEF Shrunk
  <2>4. \A x \in m.tabs : q \notin m.tree[x]
    BY <1>4, <1>5, <2>2, <2>3
  <2>. QED BY <2>1, <2>3, <2>4, BoundsAssumption DEF Registry, PaneIds
<1>. DEFINE n == mux'
<1>9. /\ n \in Registry /\ n.open = m.open /\ n.tabs = m.tabs /\ n.win = m.win /\ n.ids = m.ids
      /\ n.panes = m.panes /\ \A x \in TabIds : x # t => n.tree[x] = m.tree[x]
      /\ n.tree[t] = IF split THEN m.tree[t] \cup {q} ELSE m.tree[t]
  <2>. HIDE DEF split
  <2>. DEFINE tree == [m.tree EXCEPT ![t] = IF split THEN @ \cup {q} ELSE @]
  <2>1. /\ tree \in [TabIds -> SUBSET PaneIds]
        /\ \A x \in TabIds : x # t => tree[x] = m.tree[x]
        /\ tree[t] = IF split THEN m.tree[t] \cup {q} ELSE m.tree[t]
    BY <1>4, <1>8
  <2>2. n = [m EXCEPT !.tree = tree]
    BY <1>3
  <2>. HIDE DEF tree, n
  <2>. QED BY <1>8, <2>1, <2>2 DEF Registry
<1>. HIDE DEF n, split
<1>10. GetsPane(m, n, t, q)
  <2>1. n.panes \subseteq m.panes \cup {q}
    BY <1>9
  <2>2. /\ n.ids.tab = m.ids.tab /\ q <= n.ids.pane /\ m.ids.pane <= n.ids.pane
    BY <1>4, <1>8, <1>9
  <2>3. n.tree[t] \in {m.tree[t], m.tree[t] \cup {q}}
    BY <1>9
  <2>. QED BY <1>8, <1>9, <2>1, <2>2, <2>3 DEF GetsPane
<1>15. Sound(m) /\ n \in Registry /\ t \in TabIds /\ q \in PaneIds
  BY <1>4, <1>7, <1>9
<1>16. Sound(n) /\ \A ls : InWindow(m, {}, ls) => InWindow(n, {}, ls)
  BY <1>10, <1>15, NewPaneKeeps
<1>17. \A gone : InTree(m, gone \cup {q}) => InTree(n, gone \cup {q})
  BY <1>10, <1>15, NewPaneKeeps
<1>18. \A gone : InTree(m, gone \cup {q}) /\ q \in n.tree[t] /\ t \in m.tabs => InTree(n, gone)
  BY <1>10, <1>15, NewPaneKeeps
<1>11. InTree(m, (lost \cup removals') \cup {q})
  <2>1. InTree(m, ((lost \cup removals) \cup {q}) \cup after[2])
    BY <1>5, <1>6, <1>7 DEF IInv, Tidy
  <2>2. ((lost \cup removals) \cup {q}) \cup after[2] = (lost \cup removals') \cup {q}
    BY <1>3
  <2>. QED BY <2>1, <2>2
<1>12. InTree(n, lost' \cup removals')
  <2>1. CASE split /\ t \in m.tabs
    <3>1. q \in n.tree[t] /\ lost' = lost
      BY <1>3, <1>9, <2>1
    <3>. QED BY <1>18, <1>11, <2>1, <3>1
  <2>2. CASE ~(split /\ t \in m.tabs)
    <3>1. lost' \cup removals' = (lost \cup removals') \cup {q}
      BY <1>3, <2>2
    <3>. QED BY <1>17, <1>11, <3>1
  <2>. QED BY <2>1, <2>2
<1>13. InWindow(n, {}, lost')
  <2>1. InWindow(n, {}, lost)
    BY <1>5, <1>6, <1>7, <1>16 DEF IInv, Tidy
  <2>. QED BY <1>3, <2>1 DEF InWindow
<1>14. TasksOk' /\ RequestsOk'
  BY <1>3, <1>7 DEF IInv, TasksOk, RequestsOk
<1>. QED BY <1>16, <1>12, <1>13, <1>14 DEF IInv, Tidy, n

\* A step in one window.
LEMMA WindowStep ==
    ASSUME IInv, NEW w \in mux.open, NEW v \in Windows,
           v.last \in TabIds \cup {NoTab}, \A t : HasTab(v, t) <=> HasTab(mux.win[w], t),
           mux' = [mux EXCEPT !.win[w] = v], UNCHANGED <<prune, removals, exited, request, lost>>
    PROVE  IInv'
<1>1. /\ Sound(mux')
      /\ \A gone : InTree(mux, gone) => InTree(mux', gone)
      /\ \A ls : InWindow(mux, {}, ls) => InWindow(mux', {}, ls)
  BY WindowKeeps DEF IInv, Tidy
<1>2. Tidy(mux', removals', lost')
  BY <1>1 DEF IInv, Tidy
<1>. QED BY <1>2 DEF IInv, TasksOk, RequestsOk

LEMMA InitInv ==
    Init => IInv
<1>. SUFFICES ASSUME Init PROVE IInv
  OBVIOUS
<1>. DEFINE win == [w \in WindowIds |-> IF w = 1 THEN PushTab(NewWindow, 1) ELSE NewWindow]
            tree == [t \in TabIds |-> IF t = 1 THEN {1} ELSE {}]
            ids == [win |-> 1, tab |-> 1, pane |-> 1]
<1>1. mux = [open |-> {1}, tabs |-> {1}, panes |-> {1}, win |-> win, tree |-> tree, ids |-> ids]
  BY DEF Init
<1>2. 1 \in WindowIds /\ 1 \in TabIds /\ 1 \in PaneIds
  BY BoundsAssumption DEF WindowIds, TabIds, PaneIds
<1>3. /\ PushTab(NewWindow, 1) \in Windows /\ PushTab(NewWindow, 1).last = NewWindow.last
      /\ \A t : HasTab(PushTab(NewWindow, 1), t) <=> t = 1
  BY NewWindowFacts, PushTabCorrect, PushTabAdds DEF Tabs, NoTab
<1>4. /\ win \in [WindowIds -> Windows]
      /\ \A w \in WindowIds : \A t : HasTab(win[w], t) <=> w = 1 /\ t = 1
  BY <1>3, NewWindowFacts
<1>5. /\ \A w \in WindowIds : win[w].last = NoTab
      /\ \A w \in WindowIds : w # 1 => win[w] = NewWindow
  BY <1>3 DEF NewWindow
<1>6. /\ tree \in [TabIds -> SUBSET PaneIds] /\ tree[1] = {1}
      /\ \A t \in TabIds : tree[t] \subseteq {1}
  BY <1>2
<1>7. ids \in [win : WindowIds, tab : TabIds, pane : PaneIds] /\ ids.tab = 1 /\ ids.pane = 1
  BY <1>2
<1>. HIDE DEF win, tree, ids
<1>8. /\ mux \in Registry /\ mux.open = {1} /\ mux.tabs = {1} /\ mux.panes = {1}
      /\ mux.win = win /\ mux.tree = tree /\ mux.ids = ids
  BY <1>1, <1>2, <1>4, <1>6, <1>7 DEF Registry
<1>9. Sound(mux)
  <2>1. NotesTabs(mux) /\ ClosedIsNew(mux)
    BY <1>5, <1>8 DEF NotesTabs, ClosedIsNew
  <2>2. TreesApart(mux) /\ IdsAreNew(mux)
    BY <1>6, <1>7, <1>8 DEF TreesApart, IdsAreNew
  <2>3. \A w \in WindowIds : \A t : HasTab(mux.win[w], t) => t \in mux.tabs
    BY <1>4, <1>8
  <2>4. \A v, w \in WindowIds : \A t : HasTab(mux.win[v], t) /\ HasTab(mux.win[w], t) => v = w
    BY <1>4, <1>8
  <2>. QED BY <1>8, <2>1, <2>2, <2>3, <2>4, SoundFrom
<1>10. Tidy(mux, removals, lost)
  <2>1. InTree(mux, lost \cup removals)
    BY <1>6, <1>8 DEF InTree
  <2>2. InWindow(mux, {}, lost)
    BY <1>2, <1>4, <1>8 DEF InWindow
  <2>. QED BY <1>9, <2>1, <2>2 DEF Tidy
<1>11. RequestsOk
  BY FreshIsRequest DEF Init, RequestsOk, Fresh
<1>. QED BY <1>10, <1>11 DEF Init, IInv, TasksOk

LEMMA NextInv ==
    IInv /\ [Next]_vars => IInv'
<1>. SUFFICES ASSUME IInv, [Next]_vars PROVE IInv'
  OBVIOUS
<1>0. /\ Sound(mux) /\ InTree(mux, lost \cup removals) /\ InWindow(mux, {}, lost)
      /\ removals \in SUBSET PaneIds /\ lost \in SUBSET PaneIds /\ prune \in BOOLEAN
  BY DEF IInv, Tidy, TasksOk
<1>1. ASSUME NEW r \in Requests, NEW gui \in BOOLEAN, NEW w \in WindowIds, SpawnTab(r, w, gui)
      PROVE  IInv'
  <2>. DEFINE q == [Fresh EXCEPT !.op = "spawn", !.win = w, !.gui = gui]
  <2>1. w \in 0..MaxWindows
    BY BoundsAssumption DEF WindowIds
  <2>2. q \in Request /\ q.op = "spawn" /\ q.win = w
    BY <2>1, FreshIsRequest DEF Request
  <2>3. request' = [request EXCEPT ![r] = q]
    BY <1>1 DEF SpawnTab
  <2>. HIDE DEF q
  <2>4. RequestsOk'
    BY <2>2, <2>3, Begins
  <2>. QED BY <1>1, <2>4 DEF SpawnTab, IInv, TasksOk, Tidy
<1>2. ASSUME NEW r \in Requests, NEW gui \in BOOLEAN, NEW p \in PaneIds, SplitPane(r, p, gui)
      PROVE  IInv'
  <2>1. PICK t \in TabsOf(mux, p) :
           request' = [request EXCEPT ![r] =
              [Fresh EXCEPT !.op = "split", !.tab = t, !.pane = p, !.gui = gui]]
    BY <1>2 DEF SplitPane
  <2>. DEFINE q == [Fresh EXCEPT !.op = "split", !.tab = t, !.pane = p, !.gui = gui]
  <2>2. t \in TabIds
    BY <1>0, TabOfPane
  <2>3. t \in 0..MaxTabs /\ p \in 0..MaxPanes
    BY <2>2, BoundsAssumption DEF TabIds, PaneIds
  <2>4. q \in Request /\ q.op = "split" /\ q.tab = t
    BY <2>3, FreshIsRequest DEF Request
  <2>5. request' = [request EXCEPT ![r] = q]
    BY <2>1
  <2>. HIDE DEF q
  <2>6. RequestsOk'
    BY <2>2, <2>4, <2>5, Begins
  <2>. QED BY <1>2, <2>6 DEF SplitPane, IInv, TasksOk, Tidy
<1>3. ASSUME NEW r \in Requests, RequestFails(r)
      PROVE  IInv'
  <2>1. RequestsOk' /\ prune' \in BOOLEAN
    BY <1>3, Ends DEF RequestFails
  <2>. QED BY <1>3, <2>1 DEF RequestFails, IInv, TasksOk, Tidy
<1>4. ASSUME NEW p \in PaneIds, ChildExit(p)
      PROVE  IInv'
  BY <1>4 DEF ChildExit, IInv, TasksOk, Tidy, RequestsOk
<1>5. ASSUME NEW p \in PaneIds, OnRemove(p)
      PROVE  IInv'
  <2>. DEFINE m == RemovePanes(mux, {p})
  <2>1. /\ Sound(m) /\ InTree(m, lost \cup (removals \ {p})) /\ InWindow(m, {}, lost)
    <3>1. lost \cup removals \subseteq (lost \cup (removals \ {p})) \cup {p}
      OBVIOUS
    <3>. QED BY <1>0, <3>1, RemovePanesKeeps
  <2>2. removals \ {p} \in SUBSET PaneIds
    BY <1>0
  <2>3. /\ ThenPrune(m, removals \ {p}) /\ UNCHANGED <<exited, request, lost>> /\ prune' \in BOOLEAN
    BY <1>0, <1>5 DEF OnRemove
  <2>. HIDE DEF m
  <2>. QED BY <2>1, <2>2, <2>3, ThenPruneStep
<1>6. ASSUME NEW p \in PaneIds, ClosePane(p)
      PROVE  IInv'
  <2>. DEFINE m == RemovePanes(mux, {p})
  <2>1. /\ Sound(m) /\ InTree(m, lost \cup removals) /\ InWindow(m, {}, lost)
    BY <1>0, RemovePanesKeeps
  <2>2. /\ ThenPrune(m, removals) /\ UNCHANGED <<exited, request, lost>> /\ prune' \in BOOLEAN
    BY <1>0, <1>6 DEF ClosePane
  <2>. HIDE DEF m
  <2>. QED BY <1>0, <2>1, <2>2, ThenPruneStep
<1>7. ASSUME NEW p \in PaneIds, NEW w \in WindowIds, KillPane(w, p)
      PROVE  IInv'
  <2>. DEFINE t == ActiveTab(mux.win[w])
  <2>1. /\ p \in mux.tree[t] /\ mux' = [mux EXCEPT !.tree[t] = @ \ {p}]
        /\ removals' = removals \cup {p} /\ UNCHANGED <<prune, exited, request, lost>>
        /\ mux.win[w].tabs # <<>>
    BY <1>7 DEF KillPane
  <2>2. HasTab(mux.win[w], t)
    BY <1>0, <2>1, SoundShown, ShownTabs
  <2>3. t \in mux.tabs /\ t \in Shown(mux)
    BY <1>0, <2>2, SoundShown
  <2>. HIDE DEF t
  <2>4. /\ Sound(mux')
        /\ \A gone : InTree(mux, gone) => InTree(mux', gone \cup {p})
        /\ \A ls : InWindow(mux, {}, ls) => InWindow(mux', {}, ls)
    BY <1>0, <2>1, <2>3, LeavesTree
  <2>5. (lost \cup removals) \cup {p} = lost' \cup removals'
    BY <2>1
  <2>6. Tidy(mux', removals', lost')
    BY <1>0, <2>1, <2>4, <2>5 DEF Tidy
  <2>. QED BY <2>1, <2>6 DEF IInv, TasksOk, RequestsOk
<1>8. ASSUME NEW t \in TabIds, RemoveTab(t)
      PROVE  IInv'
  <2>. DEFINE m == RemoveTabs(mux, {t})
  <2>1. InWindow(mux, {t}, lost)
    BY <1>0 DEF InWindow
  <2>2. /\ Sound(m) /\ InTree(m, lost \cup removals) /\ InWindow(m, {}, lost)
    BY <1>0, <2>1, RemoveTabsKeeps, {t} \in SUBSET TabIds
  <2>3. /\ ThenPrune(m, removals) /\ UNCHANGED <<exited, request, lost>> /\ prune' \in BOOLEAN
    BY <1>0, <1>8 DEF RemoveTab
  <2>. HIDE DEF m
  <2>. QED BY <1>0, <2>2, <2>3, ThenPruneStep
<1>9. ASSUME NEW w \in WindowIds, KillWindow(w)
      PROVE  IInv'
  <2>. DEFINE m == RemoveWindows(mux, {w})
  <2>1. /\ Sound(m) /\ InTree(m, lost \cup removals) /\ InWindow(m, {}, lost)
    BY <1>0, RemoveWindowsKeeps, {w} \in SUBSET WindowIds
  <2>2. /\ ThenPrune(m, removals) /\ UNCHANGED <<exited, request, lost>> /\ prune' \in BOOLEAN
    BY <1>0, <1>9 DEF KillWindow
  <2>. HIDE DEF m
  <2>. QED BY <1>0, <2>1, <2>2, ThenPruneStep
<1>10. ASSUME NEW w \in WindowIds, NEW i \in 1..MaxTabs, ActivateTab(w, i)
       PROVE  IInv'
  <2>. DEFINE v == SaveAndThenSetActive(mux.win[w], i)
  <2>1. mux.win[w] \in Windows /\ w \in mux.open /\ i \in 1..Len(mux.win[w].tabs)
    <3>1. mux.win[w] \in Windows /\ w \in mux.open /\ i <= Len(mux.win[w].tabs)
      BY <1>0, <1>10, SoundShown DEF ActivateTab
    <3>2. Len(mux.win[w].tabs) \in Nat /\ i \in Nat /\ i >= 1
      BY <3>1, BoundsAssumption DEF Windows
    <3>. QED BY <3>1, <3>2
  <2>2. /\ v \in Windows /\ \A t : HasTab(v, t) <=> HasTab(mux.win[w], t)
        /\ v.last = mux.win[w].last \/ HasTab(mux.win[w], v.last)
    BY <2>1, SetActiveNotes
  <2>3. v.last \in TabIds \cup {NoTab}
    BY <1>0, <2>2, SoundShown DEF Sound, NotesTabs
  <2>4. mux' = [mux EXCEPT !.win[w] = v] /\ UNCHANGED <<prune, removals, exited, request, lost>>
    BY <1>10 DEF ActivateTab
  <2>. HIDE DEF v
  <2>. QED BY <2>1, <2>2, <2>3, <2>4, WindowStep
<1>11. ASSUME NEW w \in WindowIds, NEW i \in 1..MaxTabs, MoveTab(w, i)
       PROVE  IInv'
  <2>. DEFINE v == MoveActive(mux.win[w], i)
  <2>1. mux.win[w] \in Windows /\ w \in mux.open /\ i \in 1..Len(mux.win[w].tabs)
    <3>1. mux.win[w] \in Windows /\ w \in mux.open /\ i <= Len(mux.win[w].tabs)
      BY <1>0, <1>11, SoundShown DEF MoveTab
    <3>2. Len(mux.win[w].tabs) \in Nat /\ i \in Nat /\ i >= 1
      BY <3>1, BoundsAssumption DEF Windows
    <3>. QED BY <3>1, <3>2
  <2>2. /\ v \in Windows /\ \A t : HasTab(v, t) <=> HasTab(mux.win[w], t)
        /\ v.last = mux.win[w].last
    BY <2>1, MoveActiveCorrect, MoveNotes
  <2>3. v.last \in TabIds \cup {NoTab}
    BY <1>0, <2>2 DEF Sound, NotesTabs
  <2>4. mux' = [mux EXCEPT !.win[w] = v] /\ UNCHANGED <<prune, removals, exited, request, lost>>
    BY <1>11 DEF MoveTab
  <2>. HIDE DEF v
  <2>. QED BY <2>1, <2>2, <2>3, <2>4, WindowStep
<1>12. ASSUME OnPrune
       PROVE  IInv'
  <2>1. ThenPrune(mux, removals) /\ UNCHANGED <<exited, request, lost>> /\ prune' \in BOOLEAN
    BY <1>12 DEF OnPrune
  <2>. QED BY <1>0, <2>1, ThenPruneStep
<1>13. CASE UNCHANGED vars
  BY <1>13 DEF vars, IInv, TasksOk, RequestsOk, Tidy
<1>. QED
  BY <1>1, <1>2, <1>3, <1>4, <1>5, <1>6, <1>7, <1>8, <1>9, <1>10, <1>11, <1>12, <1>13,
     SpawnWindowStep, SpawnDoneStep, SplitDoneStep, MovePaneStep, SplitMoveStep
     DEF Next, RequestEnds

\* The registry is tidy between any two steps: whatever the requests that waited find
\* when they resume, and whatever a prune skips or an Activity puts off.  What a
\* split refuses after the fact, and what comes too late, is in `lost'.
THEOREM Invariant == Spec => []IInv
<1>1. Init => IInv
  BY InitInv
<1>2. IInv /\ [Next]_vars => IInv'
  BY NextInv
<1>. QED BY <1>1, <1>2, PTL DEF Spec

\* Since tabs are in a window once, there are no more than ids of tabs.
LEMMA WindowTypes ==
    ASSUME NEW w \in Windows, \A t : HasTab(w, t) => t \in TabIds, w.last \in TabIds \cup {NoTab}
    PROVE  w \in Window
<1>1. /\ w.tabs \in Seq(Tabs) /\ Len(w.tabs) \in Nat
      /\ w \in [tabs : Seq(Tabs), active : Nat, last : Nat]
  BY DEF Windows
<1>2. w.tabs \in Seq(TabIds)
  <2>1. \A i \in 1..Len(w.tabs) : w.tabs[i] \in TabIds
    BY DEF HasTab
  <2>. QED BY <1>1, <2>1, ElementOfSeq
<1>3. w.active \in 1..MaxTabs
  <2>1. MaxTabs \in Nat /\ 1 <= MaxTabs
    BY BoundsAssumption
  <2>2. Len(w.tabs) <= MaxTabs
    BY <2>1, TabsFit DEF TabIds
  <2>3. w.active \in 1..Len(w.tabs) \/ w.active = 1
    BY DEF Windows, WellFormed
  <2>. QED BY <1>1, <2>1, <2>2, <2>3
<1>. QED BY <1>1, <1>2, <1>3 DEF Window

\* Every variable has its type; the active index of a window stays within the bound
\* because its tabs are distinct.
THEOREM TypeCorrect == Spec => []TypeOK
<1>1. IInv => TypeOK
  <2>. SUFFICES ASSUME IInv PROVE TypeOK
    OBVIOUS
  <2>1. Sound(mux) /\ mux \in Registry
    BY DEF IInv, Tidy, Sound
  <2>2. mux.win \in [WindowIds -> Window]
    <3>1. \A w \in WindowIds : mux.win[w] \in Window
      BY <2>1, SoundShown, WindowTypes DEF Sound, NotesTabs
    <3>. QED BY <2>1, <3>1 DEF Registry
  <2>3. mux.ids.win <= MaxWindows /\ mux.ids.tab <= MaxTabs /\ mux.ids.pane <= MaxPanes
    BY <2>1, BoundsAssumption DEF Registry, WindowIds, TabIds, PaneIds
  <2>. QED BY <2>1, <2>2, <2>3 DEF TypeOK, Registry, IInv, TasksOk, RequestsOk
<1>. QED BY <1>1, Invariant, PTL

\* No assert of window.rs fails, in any window, and no tab is in two windows.
THEOREM AllWellFormed == Spec => []WindowsWellFormed
<1>1. IInv => WindowsWellFormed
  <2>. SUFFICES ASSUME IInv PROVE WindowsWellFormed
    OBVIOUS
  <2>1. Sound(mux) /\ mux.open \subseteq WindowIds
    BY DEF IInv, Tidy, Sound, Registry
  <2>2. \A w \in WindowIds : mux.win[w] \in Windows /\ WellFormed(mux.win[w])
    BY <2>1, SoundShown DEF Windows
  <2>3. ASSUME NEW v \in mux.open, NEW w \in mux.open, v # w
        PROVE  ToSet(mux.win[v].tabs) \cap ToSet(mux.win[w].tabs) = {}
    BY <2>1, <2>2, <2>3, SoundShown, ShownTabs
  <2>. QED BY <2>2, <2>3 DEF WindowsWellFormed
<1>. QED BY <1>1, Invariant, PTL

\* The windows show registered tabs only, and a pane is in one of them at most.
THEOREM MapsAlwaysAgree == Spec => []MapsAgree
<1>1. IInv => MapsAgree
  <2>. SUFFICES ASSUME IInv PROVE MapsAgree
    OBVIOUS
  <2>1. Sound(mux) /\ mux.tabs \subseteq TabIds /\ mux.tree \in [TabIds -> SUBSET PaneIds]
    BY DEF IInv, Tidy, Sound, Registry
  <2>2. Shown(mux) \subseteq mux.tabs
    BY <2>1, SoundShown
  <2>3. \A s, t \in mux.tabs : s # t => mux.tree[s] \cap mux.tree[t] = {}
    BY <2>1 DEF Sound, TreesApart
  <2>. QED BY <2>2, <2>3 DEF MapsAgree
<1>. QED BY <1>1, Invariant, PTL

\* A pane of the mux is in a registered tab or about to be removed, and a registered
\* tab is in a window, but for the panes of requests that came too late and those that
\* a split refused when they were already registered or out of their tab.
THEOREM NoLeaks == Spec => []NothingLeaks
<1>1. IInv => NothingLeaks
  BY SoundShown DEF IInv, Tidy, InTree, InWindow, NothingLeaks
<1>. QED BY <1>1, Invariant, PTL
=============================================================================

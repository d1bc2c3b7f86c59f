-------------------------- MODULE PaneStreamProofs --------------------------
(***************************************************************************)
(* Proofs about the way of a pane's output (PaneStream), for every bound,  *)
(* size and kind of output: that it is performed in order and nothing is   *)
(* lost on the way, that synchronized output is atomic, that the buffer    *)
(* keeps its caps and that no frame gets stuck.                            *)
(*                                                                         *)
(* What is left of a sequence is a matter of induction.  The induction is  *)
(* about the set of the sequences for which a fact holds (SeqInduction).   *)
(***************************************************************************)
EXTENDS PaneStream, SequenceTheorems, WellFoundedInduction, TLAPS

PtyTypes ==
  /\ produced \in Seq(Item) /\ pty \in Seq(Item)
  /\ exited \in BOOLEAN /\ hangup \in BOOLEAN /\ ptyErr \in BOOLEAN

ReaderTypes ==
  /\ readerPc \in ReaderPc /\ rbuf \in Seq(Item)
  /\ exitWhy \in {"none", "nostart", "dead", "eof", "fatal", "write"}
  /\ txOpen \in BOOLEAN

SockTypes == sock \in Seq(Item) /\ Len(sock) <= SockCap

ParserTypes ==
  /\ parserPc \in ParserPc /\ resume \in {"check", "parse", "last"}
  /\ chunk \in Seq(Item) /\ nread \in 0..ReadMax /\ Len(chunk) <= nread
  /\ actions \in Seq(Item) /\ actionSize \in Nat
  /\ hold \in BOOLEAN /\ holdAged \in BOOLEAN

NotifyTypes == fired \in BOOLEAN /\ pending \in BOOLEAN /\ notice \in BOOLEAN

PaneTypes ==
  /\ dead \in BOOLEAN /\ pane \in {"registered", "unregistered", "gone"}
  /\ applied \in Seq(Item) /\ rescued \in Seq(Item)
  /\ told \in 0..Len(applied) /\ drawn \in 0..Len(applied)
  /\ coalesced \in BOOLEAN /\ followUp \in BOOLEAN /\ missed \in BOOLEAN

Types == PtyTypes /\ ReaderTypes /\ SockTypes /\ ParserTypes /\ NotifyTypes /\ PaneTypes

\* Where the parser goes next, notified or not.
Bound(pcs) == parserPc \in pcs \/ (parserPc = "notify" /\ resume \in pcs)
ReaderOver == readerPc \in {"close", "join", "done"}

\* The reader holds output only while it writes, the parser a chunk only while it
\* parses.
Holders ==
  /\ readerPc # "write" => rbuf = <<>>
  /\ ~ Bound({"parse"}) => chunk = <<>>
  /\ parserPc = "unborn" <=> readerPc = "start"
  /\ parserPc = "unborn" => applied = <<>> /\ actions = <<>> /\ sock = <<>> /\ ~ pending

\* Why the reader left, and what is true then.
Reasons ==
  /\ readerPc \in {"start", "loop", "poll"} => exitWhy = "none"
  /\ readerPc = "write" => exitWhy \in {"none", "fatal"}
  /\ exitWhy = "eof" => pty = <<>> /\ hangup
  /\ ~ txOpen => readerPc \in {"join", "done"}

\* The parser of a registered pane ends after the reader has written all it had.
Ends ==
  /\ dead /\ pane = "registered" => ReaderOver
  /\ Bound({"drain", "drained", "leave", "last", "done"}) /\ pane = "registered" => ReaderOver
  /\ Bound({"drained", "leave", "last", "done"}) /\ pane = "registered" => sock = <<>>
  /\ Bound({"drained", "last", "done"}) => actions = <<>>

\* The parser drains after the flag is set, and a reader that polls after that wrote
\* its last before: once the pty hung up under it nothing is left behind.
NoneLeft ==
  /\ Bound({"drain", "drained", "leave", "last", "done"}) => dead \/ exitWhy = "nostart"
  /\ Bound({"drained", "leave", "last", "done"}) /\ (readerPc = "poll" \/ exitWhy = "eof") =>
       sock = <<>>

\* What was performed and what is under way, in order.  Join is a name for the
\* provers, which are better at this when it is all they know of concatenation.
Join(s, t) == s \o t
Coming == Join(actions, Join(chunk, Join(sock, rbuf)))
Flow == Join(applied, Join(Coming, pty))

\* Of a pane that is there nothing is lost, doubled or out of order, unless the
\* reader could not get rid of what it had read.
Conserved == pane # "gone" /\ exitWhy \notin Lossy => Flow = produced

\* Everything performed, posted or under way; of the kinds ks it begins what was
\* produced, and what is missing is in the pty unless the reader lost it.
All == Join(applied, Join(rescued, Coming))
OrderOf(ks) ==
  \E t \in Seq(Item) : /\ Join(Only(All, ks), t) = Only(produced, ks)
                       /\ exitWhy \notin Lossy => t = Only(pty, ks)

\* Alerts are posted for a pane that is gone only; it shows what it was shown.
Ordered ==
  /\ produced \in Seq({x \in Item : x.k \in Kinds})
  /\ pane # "gone" => rescued = <<>> /\ OrderOf(Kinds)
  /\ pane = "gone" => \E t \in Seq(Item) : Join(FromChild(applied), t) = produced
  /\ OrderOf({"var"})

\* What the parser keeps is no more than action_size says.
Counted ==
  /\ Bound({"unborn", "check", "wait", "settle"}) => nread = 0
  /\ Bound({"check", "wait", "parse", "settle"}) =>
       Len(actions) + Len(chunk) <= actionSize + nread
  /\ parserPc = "settle" => ~ hold
  /\ parserPc = "notify" /\ resume = "check" => actions = <<>>
  /\ BufferBounded

\* Unless synchronized output is on or the stream at its end, what was performed
\* and what the parser keeps for the next time leave no frame open.
Frames ==
  \/ pane = "gone" \/ hold
  \/ Bound({"drain", "drained", "leave", "last", "done"})
  \/ ~ OpenFrame(Join(applied, actions))

IInv ==
  /\ Types /\ Holders /\ Reasons /\ Ends /\ NoneLeft /\ Conserved /\ Ordered /\ Counted
  /\ Frames /\ NoStuckFrame

-----------------------------------------------------------------------------
(***************************************************************************)
(* Sequences.                                                              *)
(***************************************************************************)
\* A read cuts a sequence in two.
LEMMA Cut ==
  ASSUME NEW S, NEW s \in Seq(S), NEW n \in 0..Len(s)
  PROVE  /\ Front(s, n) \in Seq(S) /\ Len(Front(s, n)) = n
         /\ Rest(s, n) \in Seq(S) /\ Len(Rest(s, n)) = Len(s) - n
         /\ \A i \in 1..n : Front(s, n)[i] = s[i]
         /\ \A i \in 1..(Len(s) - n) : Rest(s, n)[i] = s[n + i]
BY DEF Front, Rest

LEMMA JoinTypes ==
  ASSUME NEW S, NEW s \in Seq(S), NEW t \in Seq(S)
  PROVE  /\ Join(s, t) \in Seq(S) /\ Len(Join(s, t)) = Len(s) + Len(t)
         /\ Join(s, <<>>) = s /\ Join(<<>>, t) = t
BY DEF Join

LEMMA JoinIndex ==
  ASSUME NEW S, NEW s \in Seq(S), NEW t \in Seq(S), NEW i \in 1..(Len(s) + Len(t))
  PROVE  Join(s, t)[i] = IF i <= Len(s) THEN s[i] ELSE t[i - Len(s)]
BY DEF Join

LEMMA CutInTwo ==
  ASSUME NEW S, NEW s \in Seq(S), NEW n \in 0..Len(s)
  PROVE  Join(Front(s, n), Rest(s, n)) = s
<1>. DEFINE f == Front(s, n)
            g == Rest(s, n)
<1>1. /\ f \in Seq(S) /\ Len(f) = n /\ g \in Seq(S) /\ Len(g) = Len(s) - n
      /\ \A i \in 1..n : f[i] = s[i]
      /\ \A i \in 1..(Len(s) - n) : g[i] = s[n + i]
      /\ Len(s) \in Nat
  BY Cut, LenProperties
<1>. HIDE DEF f, g
<1>2. Join(f, g) \in Seq(S) /\ Len(Join(f, g)) = Len(s)
  <2>1. Join(f, g) \in Seq(S) /\ Len(Join(f, g)) = Len(f) + Len(g)
    BY <1>1, JoinTypes
  <2>. QED BY <1>1, <2>1
<1>3. ASSUME NEW i \in 1..Len(s)
      PROVE  Join(f, g)[i] = s[i]
  <2>0. i \in 1..(Len(f) + Len(g))
    BY <1>1
  <2>1. Join(f, g)[i] = IF i <= n THEN f[i] ELSE g[i - n]
    BY <1>1, <2>0, JoinIndex
  <2>2. CASE i <= n
    BY <1>1, <2>1, <2>2
  <2>3. CASE i > n
    <3>1. i - n \in 1..(Len(s) - n) /\ n + (i - n) = i
      BY <1>1, <2>3
    <3>. QED BY <1>1, <2>1, <2>3, <3>1
  <2>. QED BY <2>2, <2>3, <1>1
<1>4. Join(f, g) = s
  BY <1>2, <1>3, SeqEqual
<1>. QED BY <1>4 DEF f, g

LEMMA HeadFirst ==
  ASSUME NEW S, NEW s \in Seq(S), s # <<>>
  PROVE  /\ <<Head(s)>> \in Seq(S) /\ Tail(s) \in Seq(S) /\ Join(<<Head(s)>>, Tail(s)) = s
         /\ Head(s) \in S /\ Len(Tail(s)) = Len(s) - 1 /\ Len(s) \in Nat \ {0}
<1>1. Head(s) \in S /\ Tail(s) \in Seq(S) /\ Len(Tail(s)) = Len(s) - 1
  BY HeadTailProperties
<1>2. Len(s) \in Nat \ {0}
  BY LenProperties
<1>3. <<Head(s)>> \o Tail(s) = s
  BY <1>1, <1>2
<1>. QED BY <1>1, <1>2, <1>3 DEF Join

LEMMA JoinAssociative ==
  ASSUME NEW S
  PROVE  \A s, t, u \in Seq(S) : Join(s, Join(t, u)) = Join(Join(s, t), u)
<1>1. \A s, t, u \in Seq(S) : (s \o t) \o u = s \o (t \o u)
  BY ConcatAssociative, SMTT(20)
<1>. QED BY <1>1 DEF Join

\* What passes between two neighbours changes nothing of the whole.
LEMMA Passing ==
  ASSUME NEW S, NEW a \in Seq(S), NEW b \in Seq(S), NEW c \in Seq(S), NEW d \in Seq(S),
         NEW r \in Seq(S), Join(a, b) = Join(c, d)
  PROVE  Join(a, Join(b, r)) = Join(c, Join(d, r))
<1>1. Join(a, Join(b, r)) = Join(Join(a, b), r)
  BY JoinAssociative
<1>2. Join(c, Join(d, r)) = Join(Join(c, d), r)
  BY JoinAssociative
<1>. QED BY <1>1, <1>2

-----------------------------------------------------------------------------
(***************************************************************************)
(* What is left of a sequence.                                             *)
(***************************************************************************)
\* A set of numbers has a least one, ...
LEMMA LeastNat ==
  \A T \in SUBSET Nat : T # {} => \E x \in T : \A y \in T : ~ (y < x)
<1>. DEFINE Less == {p \in Nat \X Nat : p[1] < p[2]}
<1>1. IsWellFoundedOn(Less, Nat)
  BY NatLessThanWellFounded DEF OpToRel
<1>2. SUFFICES ASSUME NEW T \in SUBSET Nat, T # {}
               PROVE  \E x \in T : \A y \in T : ~ (y < x)
  OBVIOUS
<1>3. T \subseteq Nat
  OBVIOUS
<1>. HIDE DEF Less
<1>4. \E x \in T : \A y \in T : ~ (<<y, x>> \in Less)
  BY ONLY <1>1, <1>2, <1>3, WFMin
<1>. QED BY <1>4 DEF Less

\* ... so a set that has 0 and, with a number, the next has all of them.
LEMMA SetInduction ==
  ASSUME NEW n \in Nat, NEW T, 0 \in T, \A k \in 1..n : k - 1 \in T => k \in T
  PROVE  \A k \in 0..n : k \in T
<1>. DEFINE U == {k \in 0..n : k \notin T}
<1>1. SUFFICES ASSUME U # {} PROVE FALSE
  OBVIOUS
<1>2. PICK x \in U : \A y \in U : ~ (y < x)
  <2>1. U \in SUBSET Nat
    OBVIOUS
  <2>. QED BY <1>1, <2>1, LeastNat
<1>3. x \in 0..n /\ x \notin T /\ x # 0
  BY <1>2
<1>4. x - 1 \in 0..n /\ x - 1 < x /\ x \in 1..n
  BY <1>3
<1>5. x - 1 \in T
  BY <1>2, <1>4
<1>. QED BY <1>3, <1>4, <1>5

\* Likewise of sequences: a set that has the empty one and, with a sequence, all
\* that are one longer.
LEMMA SeqInduction ==
  ASSUME NEW S, NEW T, <<>> \in T, \A s \in Seq(S), x \in S : s \in T => Append(s, x) \in T
  PROVE  \A s \in Seq(S) : s \in T
<1>. SUFFICES ASSUME NEW s \in Seq(S) PROVE s \in T
  OBVIOUS
<1>. DEFINE P(k) == SubSeq(s, 1, k)
            K == {k \in 0..Len(s) : P(k) \in T}
<1>0. Len(s) \in Nat /\ \A k \in 1..Len(s) : s[k] \in S
  BY LenProperties
<1>1. P(0) = <<>> /\ P(Len(s)) = s
  OBVIOUS
<1>2. \A k \in 1..Len(s) : P(k - 1) \in Seq(S) /\ P(k) = Append(P(k - 1), s[k])
  BY <1>0
<1>. HIDE DEF P
<1>3. 0 \in K
  BY <1>0, <1>1
<1>4. ASSUME NEW k \in 1..Len(s), k - 1 \in K
      PROVE  k \in K
  <2>1. P(k - 1) \in T /\ s[k] \in S /\ P(k - 1) \in Seq(S)
    BY <1>0, <1>2, <1>4
  <2>2. Append(P(k - 1), s[k]) \in T
    BY <2>1
  <2>3. P(k) \in T
    BY <1>2, <2>2
  <2>4. k \in 0..Len(s)
    BY <1>0
  <2>. QED BY <2>3, <2>4
<1>5. \A k \in 0..Len(s) : k \in K
  <2>. HIDE DEF K
  <2>. QED BY <1>0, <1>3, <1>4, SetInduction
<1>. QED BY <1>0, <1>1, <1>5

\* Only is what it says: its function exists.
LEMMA OnlySteps ==
  ASSUME NEW s \in Seq(Item), NEW ks
  PROVE  \E f : /\ f[0] = <<>> /\ Only(s, ks) = f[Len(s)]
                /\ \A k \in 1..Len(s) :
                      f[k] = IF s[k].k \in ks THEN Append(f[k - 1], s[k]) ELSE f[k - 1]
<1>. DEFINE n == Len(s)
            Step(g, k) == IF k = 0 THEN <<>>
                          ELSE IF s[k].k \in ks THEN Append(g[k - 1], s[k]) ELSE g[k - 1]
            T == {k \in 0..n : \E g : DOMAIN g = 0..k /\ \A j \in 0..k : g[j] = Step(g, j)}
            F(g) == g = [k \in 0..n |-> Step(g, k)]
<1>1. n \in Nat
  BY LenProperties
<1>2. \A k \in 0..n : k \in T
  <2>1. 0 \in T
    <3>. DEFINE g == [k \in 0..0 |-> <<>>]
    <3>1. DOMAIN g = 0..0 /\ \A j \in 0..0 : g[j] = Step(g, j)
      OBVIOUS
    <3>. HIDE DEF Step, g
    <3>. QED BY <1>1, <3>1
  <2>2. ASSUME NEW k \in 1..n, k - 1 \in T
        PROVE  k \in T
    <3>1. PICK g : DOMAIN g = 0..(k - 1) /\ \A j \in 0..(k - 1) : g[j] = Step(g, j)
      BY <2>2
    <3>. DEFINE h == [j \in 0..k |-> IF j = k THEN Step(g, k) ELSE g[j]]
    <3>2. ASSUME NEW j \in 0..k
          PROVE  h[j] = Step(h, j)
      <4>1. CASE j = k
        <5>1. h[j] = Step(g, k) /\ k # 0 /\ h[k - 1] = g[k - 1]
          BY <4>1
        <5>. HIDE DEF h
        <5>. QED BY <4>1, <5>1
      <4>2. CASE j # k
        <5>1. h[j] = g[j] /\ j \in 0..(k - 1) /\ (j # 0 => h[j - 1] = g[j - 1])
          BY <4>2
        <5>. HIDE DEF h
        <5>2. g[j] = Step(g, j)
          BY <5>1, <3>1
        <5>. QED BY <5>1, <5>2
      <4>. QED BY <4>1, <4>2
    <3>3. DOMAIN h = 0..k
      OBVIOUS
    <3>. HIDE DEF h, Step
    <3>. QED BY <3>2, <3>3
  <2>. HIDE DEF T
  <2>. QED BY <1>1, <2>1, <2>2, SetInduction
<1>3. PICK g : DOMAIN g = 0..n /\ \A j \in 0..n : g[j] = Step(g, j)
  <2>1. n \in T
    <3>. HIDE DEF T
    <3>. QED BY <1>1, <1>2
  <2>. HIDE DEF Step, n
  <2>. QED BY <2>1
<1>. DEFINE upTo == CHOOSE h : F(h)
            g2 == [k \in 0..n |-> g[k]]
<1>4. \E h : F(h)
  <2>1. ASSUME NEW k \in 0..n
        PROVE  g2[k] = Step(g2, k)
    <3>1. g2[k] = g[k] /\ (k # 0 => g2[k - 1] = g[k - 1])
      BY <1>1
    <3>. HIDE DEF g2
    <3>. QED BY <1>3, <3>1
  <2>. HIDE DEF Step
  <2>2. g2 = [k \in 0..n |-> Step(g2, k)]
    BY <2>1
  <2>. HIDE DEF g2
  <2>. QED BY <2>2
<1>. HIDE DEF F
<1>5. F(upTo)
  BY <1>4
<1>6. Only(s, ks) = upTo[n]
  BY DEF Only, upTo, F
<1>. HIDE DEF upTo
<1>7. \A k \in 0..n : upTo[k] = Step(upTo, k)
  BY <1>5 DEF F
<1>8. upTo[0] = <<>>
  BY <1>1, <1>7
<1>9. \A k \in 1..n :
         upTo[k] = IF s[k].k \in ks THEN Append(upTo[k - 1], s[k]) ELSE upTo[k - 1]
  BY <1>1, <1>7
<1>. QED BY <1>6, <1>8, <1>9

\* ... so it takes the items one by one.
LEMMA OnlyByOne ==
  ASSUME NEW ks
  PROVE  /\ Only(<<>>, ks) = <<>>
         /\ \A s \in Seq(Item), x \in Item :
               Only(Append(s, x), ks) = IF x.k \in ks THEN Append(Only(s, ks), x) ELSE Only(s, ks)
<1>1. Only(<<>>, ks) = <<>>
  <2>1. ASSUME NEW s \in Seq(Item), Len(s) = 0
        PROVE  Only(s, ks) = <<>>
    <3>1. PICK f : /\ f[0] = <<>> /\ Only(s, ks) = f[Len(s)]
                   /\ \A k \in 1..Len(s) :
                         f[k] = IF s[k].k \in ks THEN Append(f[k - 1], s[k]) ELSE f[k - 1]
      BY OnlySteps
    <3>. QED BY <2>1, <3>1
  <2>. DEFINE e == <<>>
  <2>2. e \in Seq(Item) /\ Len(e) = 0
    OBVIOUS
  <2>. HIDE DEF e
  <2>3. Only(e, ks) = <<>>
    BY <2>1, <2>2
  <2>. QED BY <2>3 DEF e
<1>2. ASSUME NEW s \in Seq(Item), NEW x \in Item
      PROVE  Only(Append(s, x), ks) = IF x.k \in ks THEN Append(Only(s, ks), x) ELSE Only(s, ks)
  <2>. DEFINE t == Append(s, x)
              n == Len(s)
  <2>1. /\ t \in Seq(Item) /\ Len(t) = n + 1 /\ n \in Nat /\ t[n + 1] = x
        /\ \A k \in 1..n : t[k] = s[k]
    BY AppendProperties, LenProperties
  <2>. HIDE DEF t
  <2>2. PICK f : /\ f[0] = <<>> /\ Only(s, ks) = f[Len(s)]
                 /\ \A k \in 1..Len(s) :
                       f[k] = IF s[k].k \in ks THEN Append(f[k - 1], s[k]) ELSE f[k - 1]
    BY OnlySteps
  <2>3. PICK g : /\ g[0] = <<>> /\ Only(t, ks) = g[Len(t)]
                 /\ \A k \in 1..Len(t) :
                       g[k] = IF t[k].k \in ks THEN Append(g[k - 1], t[k]) ELSE g[k - 1]
    BY <2>1, OnlySteps
  <2>4. \A k \in 0..n : g[k] = f[k]
    <3>. DEFINE T == {k \in 0..n : g[k] = f[k]}
    <3>1. 0 \in T
      BY <2>1, <2>2, <2>3
    <3>2. ASSUME NEW k \in 1..n, k - 1 \in T
          PROVE  k \in T
      <4>1. /\ f[k] = IF s[k].k \in ks THEN Append(f[k - 1], s[k]) ELSE f[k - 1]
            /\ g[k] = IF t[k].k \in ks THEN Append(g[k - 1], t[k]) ELSE g[k - 1]
            /\ t[k] = s[k] /\ g[k - 1] = f[k - 1]
        BY <2>1, <2>2, <2>3, <3>2
      <4>. QED BY <2>1, <4>1
    <3>3. \A k \in 0..n : k \in T
      <4>. HIDE DEF T
      <4>. QED BY <2>1, <3>1, <3>2, SetInduction
    <3>. QED BY <3>3
  <2>5. g[n + 1] = IF x.k \in ks THEN Append(g[n], x) ELSE g[n]
    BY <2>1, <2>3
  <2>. QED BY <2>1, <2>2, <2>3, <2>4, <2>5 DEF t
<1>. QED BY <1>1, <1>2

\* What is left is a sequence of items of these kinds.
LEMMA OnlyTypes ==
  ASSUME NEW ks
  PROVE  \A s \in Seq(Item) : Only(s, ks) \in Seq(Item)
<1>. DEFINE T == {s \in Seq(Item) : Only(s, ks) \in Seq(Item)}
<1>1. <<>> \in T
  <2>1. Only(<<>>, ks) = <<>> /\ <<>> \in Seq(Item)
    BY OnlyByOne
  <2>2. Only(<<>>, ks) \in Seq(Item)
    BY <2>1
  <2>. QED BY <2>1, <2>2
<1>2. ASSUME NEW s \in Seq(Item), NEW x \in Item, s \in T
      PROVE  Append(s, x) \in T
  <2>1. Append(s, x) \in Seq(Item) /\ Only(s, ks) \in Seq(Item)
    BY <1>2
  <2>2. Append(Only(s, ks), x) \in Seq(Item)
    BY <2>1
  <2>3. Only(Append(s, x), ks) \in {Append(Only(s, ks), x), Only(s, ks)}
    BY OnlyByOne
  <2>. QED BY <2>1, <2>2, <2>3
<1>3. \A s \in Seq(Item) : s \in T
  <2>. HIDE DEF T
  <2>. QED BY <1>1, <1>2, SeqInduction
<1>. QED BY <1>3

\* It makes no difference whether two sequences are joined before or after.
LEMMA OnlyOfJoin ==
  ASSUME NEW ks
  PROVE  \A s, t \in Seq(Item) : Only(Join(s, t), ks) = Join(Only(s, ks), Only(t, ks))
<1>. SUFFICES ASSUME NEW s \in Seq(Item)
              PROVE  \A t \in Seq(Item) : Only(Join(s, t), ks) = Join(Only(s, ks), Only(t, ks))
  OBVIOUS
<1>. DEFINE T == {t \in Seq(Item) : Only(Join(s, t), ks) = Join(Only(s, ks), Only(t, ks))}
<1>0. Only(s, ks) \in Seq(Item)
  BY OnlyTypes
<1>1. <<>> \in T
  <2>1. Join(s, <<>>) = s /\ Join(Only(s, ks), <<>>) = Only(s, ks) /\ <<>> \in Seq(Item)
    BY <1>0 DEF Join
  <2>. QED BY <2>1, OnlyByOne
<1>2. ASSUME NEW t \in Seq(Item), NEW x \in Item, t \in T
      PROVE  Append(t, x) \in T
  <2>1. \A u, v \in Seq(Item) : Join(u, Append(v, x)) = Append(Join(u, v), x) /\ Join(u, v) \in Seq(Item)
    BY DEF Join
  <2>2. /\ Append(t, x) \in Seq(Item) /\ Only(t, ks) \in Seq(Item)
        /\ Only(Join(s, t), ks) = Join(Only(s, ks), Only(t, ks))
    BY <1>2, OnlyTypes
  <2>3. Join(s, Append(t, x)) = Append(Join(s, t), x) /\ Join(s, t) \in Seq(Item)
    BY <2>1
  <2>4. Only(Join(s, Append(t, x)), ks) =
           IF x.k \in ks THEN Append(Only(Join(s, t), ks), x) ELSE Only(Join(s, t), ks)
    <3>1. \A u \in Seq(Item) :
             Only(Append(u, x), ks) = IF x.k \in ks THEN Append(Only(u, ks), x) ELSE Only(u, ks)
      BY OnlyByOne
    <3>. QED BY <2>3, <3>1
  <2>5. Only(Append(t, x), ks) = IF x.k \in ks THEN Append(Only(t, ks), x) ELSE Only(t, ks)
    BY OnlyByOne
  <2>6. Join(Only(s, ks), Append(Only(t, ks), x)) = Append(Join(Only(s, ks), Only(t, ks)), x)
    BY <1>0, <2>1, <2>2
  <2>. QED BY <2>2, <2>4, <2>5, <2>6
<1>3. \A t \in Seq(Item) : t \in T
  <2>. HIDE DEF T
  <2>. QED BY <1>1, <1>2, SeqInduction
<1>. QED BY <1>3

\* Nothing goes if all are of these kinds, as after the first time.
LEMMA OnlyOfOnly ==
  ASSUME NEW ks
  PROVE  /\ \A s \in Seq(Item) : Only(Only(s, ks), ks) = Only(s, ks)
         /\ \A s \in Seq({x \in Item : x.k \in ks}) : Only(s, ks) = s
<1>1. \A s \in Seq(Item) : Only(Only(s, ks), ks) = Only(s, ks)
  <2>. DEFINE T == {s \in Seq(Item) : Only(Only(s, ks), ks) = Only(s, ks)}
  <2>1. <<>> \in T
    BY OnlyByOne
  <2>2. ASSUME NEW s \in Seq(Item), NEW x \in Item, s \in T
        PROVE  Append(s, x) \in T
    <3>1. Append(s, x) \in Seq(Item) /\ Only(s, ks) \in Seq(Item) /\ Only(Only(s, ks), ks) = Only(s, ks)
      BY <2>2, OnlyTypes
    <3>2. Only(Append(s, x), ks) = IF x.k \in ks THEN Append(Only(s, ks), x) ELSE Only(s, ks)
      BY OnlyByOne
    <3>3. Only(Append(Only(s, ks), x), ks) =
             IF x.k \in ks THEN Append(Only(Only(s, ks), ks), x) ELSE Only(Only(s, ks), ks)
      BY <3>1, OnlyByOne
    <3>. QED BY <3>1, <3>2, <3>3
  <2>3. \A s \in Seq(Item) : s \in T
    <3>. HIDE DEF T
    <3>. QED BY <2>1, <2>2, SeqInduction
  <2>. QED BY <2>3
<1>2. \A s \in Seq({x \in Item : x.k \in ks}) : Only(s, ks) = s
  <2>. DEFINE S == {x \in Item : x.k \in ks}
              T == {s \in Seq(Item) : Only(s, ks) = s}
  <2>1. <<>> \in T
    BY OnlyByOne
  <2>2. ASSUME NEW s \in Seq(S), NEW x \in S, s \in T
        PROVE  Append(s, x) \in T
    <3>1. s \in Seq(Item) /\ x \in Item /\ x.k \in ks /\ Only(s, ks) = s
      BY <2>2
    <3>2. Append(s, x) \in Seq(Item)
      BY <3>1
    <3>3. Only(Append(s, x), ks) = Append(Only(s, ks), x)
      BY <3>1, OnlyByOne
    <3>. QED BY <3>1, <3>2, <3>3
  <2>3. \A s \in Seq(S) : s \in T
    <3>. HIDE DEF S, T
    <3>. QED BY <2>1, <2>2, SeqInduction
  <2>. QED BY <2>3
<1>. QED BY <1>1, <1>2
-----------------------------------------------------------------------------
(***************************************************************************)
(* The types.                                                              *)
(***************************************************************************)
LEMMA SendTypes ==
  ASSUME PaneTypes, NEW batch \in Seq(Item), SendActions(batch), UNCHANGED <<pane, windowVars>>
  PROVE  PaneTypes'
<1>1. CASE pane # "gone"
  <2>1. /\ applied' = applied \o batch /\ dead' = dead /\ rescued' = rescued
        /\ applied \in Seq(Item) /\ rescued \in Seq(Item)
        /\ told \in 0..Len(applied) /\ drawn \in 0..Len(applied)
    BY <1>1 DEF SendActions, PaneTypes
  <2>2. /\ applied \o batch \in Seq(Item) /\ Len(applied \o batch) = Len(applied) + Len(batch)
        /\ Len(applied) \in Nat /\ Len(batch) \in Nat
    BY <2>1, ConcatProperties, LenProperties
  <2>3. told \in 0..Len(applied') /\ drawn \in 0..Len(applied')
    BY <2>1, <2>2
  <2>. QED BY <2>1, <2>2, <2>3 DEF PaneTypes, windowVars
<1>2. CASE pane = "gone"
  <2>1. /\ rescued' = rescued \o Only(batch, {"var"}) /\ dead' = TRUE /\ applied' = applied
        /\ rescued \in Seq(Item)
    BY <1>2 DEF SendActions, PaneTypes
  <2>2. Only(batch, {"var"}) \in Seq(Item)
    BY OnlyTypes
  <2>3. rescued' \in Seq(Item)
    BY <2>1, <2>2, ConcatProperties
  <2>. QED BY <2>1, <2>3 DEF PaneTypes, windowVars
<1>. QED BY <1>1, <1>2

\* Parts whose variables stay.
LEMMA TypesOfRest ==
  /\ PtyTypes /\ UNCHANGED childVars => PtyTypes'
  /\ ReaderTypes /\ UNCHANGED readerVars => ReaderTypes'
  /\ SockTypes /\ UNCHANGED sock => SockTypes'
  /\ ParserTypes /\ UNCHANGED <<parserPc, resume, chunk, nread, actions, actionSize, holdVars>> =>
       ParserTypes'
  /\ NotifyTypes /\ UNCHANGED notifyVars => NotifyTypes'
  /\ PaneTypes /\ UNCHANGED <<dead, pane, applied, rescued, windowVars>> => PaneTypes'
<1>1. PtyTypes /\ UNCHANGED childVars => PtyTypes'
  BY DEF PtyTypes, childVars
<1>2. ReaderTypes /\ UNCHANGED readerVars => ReaderTypes'
  BY DEF ReaderTypes, readerVars
<1>3. SockTypes /\ UNCHANGED sock => SockTypes'
  BY DEF SockTypes
<1>4. ParserTypes /\ UNCHANGED <<parserPc, resume, chunk, nread, actions, actionSize, holdVars>> =>
        ParserTypes'
  BY DEF ParserTypes, holdVars
<1>5. NotifyTypes /\ UNCHANGED notifyVars => NotifyTypes'
  BY DEF NotifyTypes, notifyVars
<1>6. PaneTypes /\ UNCHANGED <<dead, pane, applied, rescued, windowVars>> => PaneTypes'
  BY DEF PaneTypes, windowVars
<1>. QED BY <1>1, <1>2, <1>3, <1>4, <1>5, <1>6

LEMMA EnvironmentTypes ==
  ASSUME Types, Environment \/ HoldAges \/ Window
  PROVE  Types'
<1>. USE TypesOfRest DEF Types, shownVars
<1>1. ASSUME NEW k \in Kinds, Output(k)
      PROVE  Types'
  <2>1. [id |-> Len(produced) + 1, k |-> k] \in Item
    <3>1. Len(produced) + 1 \in 0..MaxOut
      BY <1>1, LenProperties, MaxOutAssumption DEF Output, PtyTypes
    <3>. QED BY <3>1 DEF Item
  <2>2. produced' \in Seq(Item) /\ pty' \in Seq(Item)
    BY <1>1, <2>1, AppendProperties DEF Output, PtyTypes
  <2>3. PtyTypes'
    BY <1>1, <2>2 DEF Output, PtyTypes
  <2>. QED BY <1>1, <2>3 DEF Output
<1>2. CASE ChildExit \/ Hangup \/ PtyError
  <2>1. PtyTypes'
    BY <1>2 DEF ChildExit, Hangup, PtyError, PtyTypes
  <2>. QED BY <1>2, <2>1 DEF ChildExit, Hangup, PtyError
<1>3. CASE RemovePane \/ DropPane
  <2>1. PaneTypes'
    BY <1>3 DEF RemovePane, DropPane, PaneTypes, windowVars
  <2>. QED BY <1>3, <2>1 DEF RemovePane, DropPane
<1>4. CASE HoldAges
  <2>1. ParserTypes'
    BY <1>4 DEF HoldAges, ParserTypes
  <2>. QED BY <1>4, <2>1 DEF HoldAges
<1>5. CASE Window
  <2>1. Len(applied) \in 0..Len(applied)
    BY LenProperties DEF PaneTypes
  <2>2. NotifyTypes' /\ PaneTypes'
    BY <1>5, <2>1 DEF Window, OnOutput, FollowUp, Repaint, NotifyTypes, PaneTypes, notifyVars
  <2>. QED BY <1>5, <2>2 DEF Window, OnOutput, FollowUp, Repaint
<1>. QED BY <1>1, <1>2, <1>3, <1>4, <1>5 DEF Environment

LEMMA ReaderTypesStay ==
  ASSUME Types, Reader
  PROVE  Types'
<1>. USE TypesOfRest DEF Types, shownVars
<1>1. CASE ReaderStart
  <2>1. ReaderTypes' /\ ParserTypes'
    BY <1>1 DEF ReaderStart, ReaderTypes, ParserTypes, ReaderPc, ParserPc, holdVars
  <2>. QED BY <1>1, <2>1 DEF ReaderStart
<1>2. CASE ReaderCheck \/ ReaderTimeout \/ ReaderEof \/ ReaderClose \/ ReaderJoin
  <2>1. ReaderTypes'
    BY <1>2 DEF ReaderCheck, ReaderTimeout, ReaderEof, ReaderClose, ReaderJoin, ReaderTypes, ReaderPc
  <2>. QED BY <1>2, <2>1 DEF ReaderCheck, ReaderTimeout, ReaderEof, ReaderClose, ReaderJoin
<1>3. CASE ReaderSignal
  <2>1. ReaderTypes' /\ PaneTypes'
    BY <1>3 DEF ReaderSignal, ReaderTypes, PaneTypes, ReaderPc, windowVars
  <2>. QED BY <1>3, <2>1 DEF ReaderSignal
<1>4. ASSUME NEW n \in 1..ReadMax, ReaderRead(n)
      PROVE  Types'
  <2>1. n \in 0..Len(pty) /\ pty \in Seq(Item)
    BY <1>4, LenProperties, SizesAssumption DEF ReaderRead, PtyTypes
  <2>2. rbuf' \in Seq(Item) /\ pty' \in Seq(Item)
    BY <1>4, <2>1, Cut DEF ReaderRead
  <2>3. PtyTypes' /\ ReaderTypes'
    BY <1>4, <2>2 DEF ReaderRead, PtyTypes, ReaderTypes, ReaderPc
  <2>. QED BY <1>4, <2>3 DEF ReaderRead
<1>5. CASE ReaderFatal
  <2>1. <<Disconnected>> \in Seq(Item)
    BY MaxOutAssumption DEF Disconnected, Item
  <2>2. ReaderTypes'
    BY <1>5, <2>1 DEF ReaderFatal, ReaderTypes, ReaderPc
  <2>. QED BY <1>5, <2>2 DEF ReaderFatal
<1>6. CASE ReaderWrite
  <2>1. /\ Len(rbuf) \in Nat /\ Len(sock) \in Nat /\ Len(sock) < SockCap /\ SockCap \in Nat
        /\ rbuf \in Seq(Item) /\ sock \in Seq(Item)
    BY <1>6, LenProperties, SizesAssumption DEF ReaderWrite, ReaderTypes, SockTypes
  <2>2. PICK n \in 0..Len(rbuf) :
           /\ n <= SockCap - Len(sock)
           /\ sock' = sock \o Front(rbuf, n) /\ rbuf' = Rest(rbuf, n)
           /\ readerPc' \in {"write", "exit", "loop"}
    <3>. DEFINE n == IF Len(rbuf) < SockCap - Len(sock) THEN Len(rbuf) ELSE SockCap - Len(sock)
    <3>1. n \in 0..Len(rbuf) /\ n <= SockCap - Len(sock)
      BY <2>1
    <3>2. sock' = sock \o Front(rbuf, n) /\ rbuf' = Rest(rbuf, n)
      BY <1>6 DEF ReaderWrite
    <3>3. readerPc' \in {"write", "exit", "loop"}
      BY <1>6 DEF ReaderWrite
    <3>. QED BY <3>1, <3>2, <3>3
  <2>3. Front(rbuf, n) \in Seq(Item) /\ Len(Front(rbuf, n)) = n /\ rbuf' \in Seq(Item)
    BY <2>1, <2>2, Cut
  <2>4. sock' \in Seq(Item) /\ Len(sock') <= SockCap
    BY <2>1, <2>2, <2>3, ConcatProperties
  <2>5. ReaderTypes' /\ SockTypes'
    BY <1>6, <2>2, <2>3, <2>4 DEF ReaderWrite, ReaderTypes, SockTypes, ReaderPc
  <2>. QED BY <1>6, <2>5 DEF ReaderWrite
<1>7. CASE ReaderWriteError
  <2>1. ReaderTypes'
    BY <1>7, EmptySeq DEF ReaderWriteError, ReaderTypes, ReaderPc
  <2>. QED BY <1>7, <2>1 DEF ReaderWriteError
<1>. QED BY <1>1, <1>2, <1>3, <1>4, <1>5, <1>6, <1>7 DEF Reader

\* What a parser that sends keeps of its types.
LEMMA SendKeepsTypes ==
  ASSUME Types, NEW batch \in Seq(Item), SendActions(batch), ParserTypes',
         UNCHANGED <<childVars, readerVars, notifyVars, pane, windowVars>>, SockTypes'
  PROVE  Types'
BY SendTypes, TypesOfRest DEF Types

LEMMA ParseTypes ==
  ASSUME Types, ParseBsu \/ ParseEsu \/ ParseOther
  PROVE  Types'
<1>. USE TypesOfRest DEF Types
<1>1. /\ chunk \in Seq(Item) /\ actions \in Seq(Item) /\ chunk # <<>> /\ nread \in Nat
      /\ Len(chunk) <= nread
  BY SizesAssumption DEF ParseBsu, ParseEsu, ParseOther, ParserTypes
<1>2. /\ <<Head(chunk)>> \in Seq(Item) /\ Append(actions, Head(chunk)) \in Seq(Item)
      /\ Tail(chunk) \in Seq(Item) /\ Len(Tail(chunk)) <= nread
  <2>1. /\ Head(chunk) \in Item /\ Tail(chunk) \in Seq(Item) /\ Len(Tail(chunk)) = Len(chunk) - 1
        /\ <<Head(chunk)>> \in Seq(Item) /\ Len(chunk) \in Nat
    BY <1>1, HeadFirst
  <2>2. Append(actions, Head(chunk)) \in Seq(Item)
    BY <1>1, <2>1, AppendProperties
  <2>. QED BY <1>1, <2>1, <2>2
<1>3. CASE ParseBsu
  <2>1. ParserTypes'
    <3>1. /\ parserPc' \in ParserPc /\ resume' \in {"check", "parse", "last"}
          /\ actionSize' \in Nat
      BY <1>3 DEF ParseBsu, ParserTypes, ParserPc
    <3>2. /\ chunk' = Tail(chunk) /\ nread' = nread /\ actions' = <<Head(chunk)>>
          /\ hold' = TRUE /\ holdAged' = FALSE
      BY <1>3 DEF ParseBsu
    <3>. QED BY <1>2, <3>1, <3>2 DEF ParserTypes
  <2>2. CASE actions = <<>>
    <3>1. UNCHANGED <<childVars, readerVars, sock, notifyVars, pane, windowVars, shownVars, dead>>
      BY <1>3, <2>2 DEF ParseBsu
    <3>. QED BY <2>1, <3>1 DEF shownVars
  <2>3. CASE actions # <<>>
    <3>1. SendActions(actions) /\ UNCHANGED <<childVars, readerVars, sock, notifyVars, pane, windowVars>>
      BY <1>3, <2>3 DEF ParseBsu
    <3>. QED BY <1>1, <2>1, <3>1, SendKeepsTypes
  <2>. QED BY <2>2, <2>3
<1>4. CASE ParseEsu
  <2>1. ParserTypes'
    BY <1>2, <1>4, EmptySeq DEF ParseEsu, ParserTypes, ParserPc
  <2>2. /\ SendActions(Append(actions, Head(chunk)))
        /\ UNCHANGED <<childVars, readerVars, sock, notifyVars, pane, windowVars>>
    BY <1>4 DEF ParseEsu
  <2>. QED BY <1>2, <2>1, <2>2, SendKeepsTypes
<1>5. CASE ParseOther
  <2>1. ParserTypes'
    BY <1>2, <1>5 DEF ParseOther, ParserTypes, ParserPc, holdVars
  <2>. QED BY <1>5, <2>1 DEF ParseOther, shownVars
<1>. QED BY <1>3, <1>4, <1>5

LEMMA ParserTypesStay ==
  ASSUME Types, Parser
  PROVE  Types'
<1>. USE TypesOfRest DEF Types
<1>0. ReadMax \in Nat /\ nread \in 0..ReadMax /\ actionSize \in Nat /\ <<>> \in Seq(Item)
  BY SizesAssumption, EmptySeq DEF ParserTypes
<1>1. CASE ParserCheck \/ ParserKeep \/ ParserSettle \/ ParserCoalesce
  <2>1. ParserTypes'
    BY <1>0, <1>1 DEF ParserCheck, ParserKeep, ParserSettle, ParserCoalesce, ParserTypes, ParserPc,
       holdVars
  <2>. QED BY <1>1, <2>1 DEF ParserCheck, ParserKeep, ParserSettle, ParserCoalesce, shownVars
<1>2. CASE ParserTimeout \/ ParserNotify \/ ParserLast \/ DrainNotify
  <2>1. NotifyTypes' /\ ParserTypes'
    BY <1>2 DEF ParserTimeout, ParserNotify, ParserLast, DrainNotify, Flush, MaybeNotify, NotifyTypes,
       ParserTypes, ParserPc, holdVars
  <2>. QED BY <1>2, <2>1 DEF ParserTimeout, ParserNotify, ParserLast, DrainNotify, shownVars
<1>3. ASSUME NEW n \in 1..ReadMax, ParserRead(n) \/ DrainRead(n)
      PROVE  Types'
  <2>1. n \in 0..Len(sock) /\ sock \in Seq(Item) /\ Len(sock) <= SockCap /\ SockCap \in Nat
    BY <1>0, <1>3, LenProperties, SizesAssumption DEF ParserRead, DrainRead, SockTypes
  <2>2. /\ Front(sock, n) \in Seq(Item) /\ Len(Front(sock, n)) = n
        /\ Rest(sock, n) \in Seq(Item) /\ Len(Rest(sock, n)) = Len(sock) - n
    BY <2>1, Cut
  <2>3. SockTypes'
    <3>1. sock' = Rest(sock, n)
      BY <1>3 DEF ParserRead, DrainRead
    <3>. QED BY <2>1, <2>2, <3>1, LenProperties DEF SockTypes
  <2>4. ParserTypes'
    <3>1. CASE ParserRead(n)
      BY <1>0, <2>2, <3>1 DEF ParserRead, ParserTypes, ParserPc, holdVars
    <3>2. CASE DrainRead(n)
      <4>1. actions \o Front(sock, n) \in Seq(Item)
        BY <2>2, ConcatProperties DEF ParserTypes
      <4>. QED BY <3>2, <4>1 DEF DrainRead, ParserTypes, holdVars
    <3>. QED BY <1>3, <3>1, <3>2
  <2>. QED BY <1>3, <2>3, <2>4 DEF ParserRead, DrainRead, shownVars
<1>4. CASE ParserForce \/ ParserSend
  <2>1. ParserTypes'
    <3>1. /\ parserPc' = "notify" /\ resume' = "check" /\ actions' = <<>> /\ actionSize' = 0
          /\ hold' = hold /\ holdAged' \in BOOLEAN /\ chunk' = chunk
          /\ nread' = nread \/ (nread' = 0 /\ chunk = <<>>)
      BY <1>4 DEF ParserForce, ParserSend, ParserTypes, holdVars
    <3>2. nread' \in 0..ReadMax /\ Len(chunk') <= nread'
      BY <1>0, <3>1 DEF ParserTypes
    <3>. QED BY <1>0, <3>1, <3>2 DEF ParserTypes, ParserPc
  <2>2. /\ SendActions(actions) /\ actions \in Seq(Item)
        /\ UNCHANGED <<childVars, readerVars, sock, notifyVars, pane, windowVars>>
    BY <1>4 DEF ParserForce, ParserSend, ParserTypes
  <2>. QED BY <2>1, <2>2, SendKeepsTypes
<1>5. CASE DrainSend \/ ParserLeave
  <2>1. ParserTypes'
    BY <1>0, <1>5 DEF DrainSend, ParserLeave, ParserTypes, ParserPc, holdVars
  <2>2. /\ SendActions(actions) \/ UNCHANGED <<shownVars, dead>>
        /\ UNCHANGED <<childVars, readerVars, sock, notifyVars, pane, windowVars>>
        /\ actions \in Seq(Item)
    BY <1>5 DEF DrainSend, ParserLeave, ParserTypes
  <2>. QED BY <2>1, <2>2, SendKeepsTypes DEF shownVars
<1>6. CASE ParserEof
  <2>1. ParserTypes' /\ PaneTypes'
    BY <1>6 DEF ParserEof, ParserTypes, PaneTypes, ParserPc, holdVars, shownVars, windowVars
  <2>. QED BY <1>6, <2>1 DEF ParserEof
<1>. QED BY <1>1, <1>2, <1>3, <1>4, <1>5, <1>6, ParseTypes DEF Parser

LEMMA TypesStay ==
  ASSUME Types, [Next]_vars
  PROVE  Types'
<1>1. CASE UNCHANGED vars
  BY <1>1, TypesOfRest DEF Types, vars, shownVars
<1>. QED BY <1>1, EnvironmentTypes, ReaderTypesStay, ParserTypesStay DEF Next

-----------------------------------------------------------------------------
(***************************************************************************)
(* Where the threads stand.                                                *)
(***************************************************************************)
\* What the actions outside the threads leave alone.
LEMMA OutsideLeaves ==
  ASSUME Environment \/ HoldAges \/ Window \/ UNCHANGED vars
  PROVE  UNCHANGED <<readerVars, sock, parserPc, resume, chunk, nread, actions, actionSize, applied,
                     pending>>
BY DEF Environment, Output, ChildExit, Hangup, PtyError, RemovePane, DropPane, HoldAges, Window, OnOutput, FollowUp, Repaint,
   vars, notifyVars, shownVars

LEMMA HoldersByReader ==
  ASSUME Types, Holders, Reader
  PROVE  Holders'
<1>. USE DEF Holders, Bound, notifyVars, shownVars
<1>1. CASE ReaderStart
  BY <1>1 DEF ReaderStart
<1>2. CASE ReaderCheck \/ ReaderTimeout \/ ReaderEof \/ ReaderSignal \/ ReaderClose \/ ReaderJoin
  BY <1>2 DEF ReaderCheck, ReaderTimeout, ReaderEof, ReaderSignal, ReaderClose, ReaderJoin
<1>3. ASSUME NEW n \in 1..ReadMax, ReaderRead(n) PROVE Holders'
  BY <1>3 DEF ReaderRead
<1>4. CASE ReaderFatal \/ ReaderWriteError
  BY <1>4 DEF ReaderFatal, ReaderWriteError
<1>5. CASE ReaderWrite
  <2>1. readerPc' # "write" => rbuf' = <<>>
    <3>. DEFINE n == IF Len(rbuf) < SockCap - Len(sock) THEN Len(rbuf) ELSE SockCap - Len(sock)
    <3>1. SUFFICES ASSUME readerPc' # "write" PROVE rbuf' = <<>>
      OBVIOUS
    <3>2. /\ Len(rbuf) \in Nat /\ Len(sock) \in Nat /\ SockCap \in Nat /\ Len(sock) < SockCap
          /\ rbuf \in Seq(Item)
      BY <1>5, LenProperties, SizesAssumption DEF ReaderWrite, Types, ReaderTypes, SockTypes
    <3>3. ~ (n < Len(rbuf)) /\ rbuf' = Rest(rbuf, n)
      BY <1>5, <3>1 DEF ReaderWrite
    <3>4. n = Len(rbuf)
      BY <3>2, <3>3
    <3>5. Rest(rbuf, Len(rbuf)) = <<>>
      BY <3>2 DEF Rest
    <3>. QED BY <3>3, <3>4, <3>5
  <2>2. readerPc = "write" /\ readerPc' \in {"write", "exit", "loop"} /\ parserPc # "unborn"
    BY <1>5 DEF ReaderWrite
  <2>3. UNCHANGED <<parserPc, resume, chunk>>
    BY <1>5 DEF ReaderWrite
  <2>. QED BY <2>1, <2>2, <2>3
<1>. QED BY <1>1, <1>2, <1>3, <1>4, <1>5 DEF Reader

LEMMA HoldersByParser ==
  ASSUME Types, Holders, Parser
  PROVE  Holders'
<1>. USE DEF Holders, Bound, readerVars
<1>1. readerPc' = readerPc /\ rbuf' = rbuf
  BY DEF Parser, ParserCheck, ParserTimeout, ParserEof, ParserRead, DrainRead, ParseBsu, ParseEsu,
     ParseOther, ParserForce, ParserKeep, ParserSettle, ParserCoalesce, ParserSend, ParserNotify,
     DrainSend, DrainNotify, ParserLeave, ParserLast
<1>2. parserPc # "unborn" /\ parserPc' # "unborn"
  BY DEF Types, ParserTypes, Parser, ParserCheck, ParserTimeout, ParserEof, ParserRead, DrainRead,
     ParseBsu, ParseEsu, ParseOther, ParserForce, ParserKeep, ParserSettle, ParserCoalesce, ParserSend,
     ParserNotify, DrainSend, DrainNotify, ParserLeave, ParserLast
<1>3. ~ Bound({"parse"})' => chunk' = <<>>
  <2>1. CASE UNCHANGED chunk /\ chunk = <<>>
    BY <2>1
  <2>2. CASE ParseBsu \/ ParseEsu \/ ParseOther
    BY <2>2 DEF ParseBsu, ParseEsu, ParseOther
  <2>3. ASSUME NEW n \in 1..ReadMax, ParserRead(n) PROVE Bound({"parse"})'
    BY <2>3 DEF ParserRead
  <2>4. CASE ParserNotify /\ resume = "parse"
    BY <2>4 DEF ParserNotify
  <2>5. CASE ~ (ParseBsu \/ ParseEsu \/ ParseOther \/ (ParserNotify /\ resume = "parse")
                \/ \E n \in 1..ReadMax : ParserRead(n))
    <3>1. UNCHANGED chunk
      BY <2>5 DEF Parser, ParserCheck, ParserTimeout, ParserEof, DrainRead, ParserForce, ParserKeep,
         ParserSettle, ParserCoalesce, ParserSend, ParserNotify, DrainSend, DrainNotify, ParserLeave,
         ParserLast
    <3>2. chunk = <<>>
      BY <2>5 DEF Parser, ParserCheck, ParserTimeout, ParserEof, DrainRead, ParserForce, ParserKeep,
         ParserSettle, ParserCoalesce, ParserSend, ParserNotify, DrainSend, DrainNotify, ParserLeave,
         ParserLast
    <3>. QED BY <3>1, <3>2
  <2>. QED BY <2>2, <2>3, <2>4, <2>5
<1>. QED BY <1>1, <1>2, <1>3

LEMMA HoldersStay ==
  ASSUME Types, Holders, [Next]_vars
  PROVE  Holders'
<1>1. CASE Environment \/ HoldAges \/ Window \/ UNCHANGED vars
  BY <1>1, OutsideLeaves DEF Holders, Bound, readerVars
<1>. QED BY <1>1, HoldersByReader, HoldersByParser DEF Next

LEMMA ReasonsStay ==
  ASSUME Types, Holders, Reasons, [Next]_vars
  PROVE  Reasons'
<1>. USE DEF Reasons
<1>1. ASSUME NEW k \in Kinds, Output(k) PROVE Reasons'
  BY <1>1 DEF Output, readerVars
<1>2. CASE ChildExit \/ Hangup \/ PtyError
  BY <1>2 DEF ChildExit, Hangup, PtyError, readerVars
<1>3. CASE UNCHANGED <<readerVars, childVars>>
  BY <1>3 DEF readerVars, childVars
<1>4. CASE RemovePane \/ DropPane \/ HoldAges \/ Window \/ Parser \/ UNCHANGED vars
  BY <1>3, <1>4 DEF RemovePane, DropPane, HoldAges, Window, OnOutput, FollowUp, Repaint, vars, Parser, ParserCheck, ParserTimeout,
     ParserEof, ParserRead, DrainRead, ParseBsu, ParseEsu, ParseOther, ParserForce, ParserKeep,
     ParserSettle, ParserCoalesce, ParserSend, ParserNotify, DrainSend, DrainNotify, ParserLeave,
     ParserLast
<1>5. CASE Reader
  <2>1. CASE ReaderStart \/ ReaderCheck \/ ReaderTimeout \/ ReaderEof
    BY <2>1 DEF ReaderStart, ReaderCheck, ReaderTimeout, ReaderEof, childVars
  <2>2. CASE ReaderSignal \/ ReaderClose \/ ReaderJoin \/ ReaderFatal \/ ReaderWriteError
    BY <2>2 DEF ReaderSignal, ReaderClose, ReaderJoin, ReaderFatal, ReaderWriteError, childVars
  <2>3. ASSUME NEW n \in 1..ReadMax, ReaderRead(n) PROVE Reasons'
    BY <2>3 DEF ReaderRead
  <2>4. CASE ReaderWrite
    <3>1. /\ readerPc = "write" /\ exitWhy' = exitWhy /\ txOpen' = txOpen
          /\ readerPc' = "write" \/ (readerPc' = "exit" /\ exitWhy = "fatal")
             \/ (readerPc' = "loop" /\ exitWhy # "fatal")
      BY <2>4 DEF ReaderWrite
    <3>. QED BY <3>1
  <2>. QED BY <1>5, <2>1, <2>2, <2>3, <2>4 DEF Reader
<1>. QED BY <1>1, <1>2, <1>4, <1>5 DEF Next, Environment

\* The reader never comes back.
LEMMA OverStaysOver ==
  ASSUME Types, [Next]_vars, ReaderOver
  PROVE  ReaderOver' /\ (sock = <<>> => sock' = <<>>)
<1>. USE DEF ReaderOver
<1>1. CASE Reader
  BY <1>1 DEF Reader, ReaderStart, ReaderCheck, ReaderTimeout, ReaderEof, ReaderSignal, ReaderClose,
     ReaderJoin, ReaderFatal, ReaderWriteError, ReaderRead, ReaderWrite
<1>2. CASE Environment \/ HoldAges \/ Window \/ UNCHANGED vars
  BY <1>2, OutsideLeaves DEF readerVars
<1>3. CASE Parser
  <2>1. readerPc' = readerPc
    BY <1>3 DEF Parser, ParserCheck, ParserTimeout, ParserEof, ParserRead, DrainRead, ParseBsu, ParseEsu,
     ParseOther, ParserForce, ParserKeep, ParserSettle, ParserCoalesce, ParserSend, ParserNotify,
     DrainSend, DrainNotify, ParserLeave, ParserLast, readerVars
  <2>2. ASSUME NEW n \in 1..ReadMax, ParserRead(n) \/ DrainRead(n) PROVE sock # <<>>
    BY <2>2 DEF ParserRead, DrainRead
  <2>3. sock' = sock \/ \E n \in 1..ReadMax : ParserRead(n) \/ DrainRead(n)
    BY <1>3 DEF Parser, ParserCheck, ParserTimeout, ParserEof, ParseBsu, ParseEsu,
     ParseOther, ParserForce, ParserKeep, ParserSettle, ParserCoalesce, ParserSend, ParserNotify,
     DrainSend, DrainNotify, ParserLeave, ParserLast
  <2>. QED BY <2>1, <2>2, <2>3
<1>. QED BY <1>1, <1>2, <1>3 DEF Next

LEMMA EndsByReader ==
  ASSUME Types, Holders, Reasons, Ends, Reader
  PROVE  Ends'
<1>. USE DEF Ends, Bound
<1>0. ReaderOver => ReaderOver' /\ (sock = <<>> => sock' = <<>>)
  BY OverStaysOver DEF Next
<1>1. CASE ReaderStart
  BY <1>1 DEF ReaderStart, ReaderOver, Holders
<1>2. CASE ReaderSignal
  BY <1>0, <1>2 DEF ReaderSignal, ReaderOver
<1>3. UNCHANGED <<dead, pane, parserPc, resume, actions>> \/ ReaderStart \/ ReaderSignal
  BY DEF Reader, ReaderCheck, ReaderTimeout, ReaderEof, ReaderClose, ReaderJoin, ReaderFatal,
     ReaderWriteError, ReaderRead, ReaderWrite
<1>. QED BY <1>0, <1>1, <1>2, <1>3

LEMMA EndsByParser ==
  ASSUME Types, Holders, Reasons, Ends, Parser
  PROVE  Ends'
<1>. USE DEF Ends, Bound
<1>0. /\ UNCHANGED <<pane, readerPc>> /\ (ReaderOver <=> ReaderOver')
      /\ (ReaderOver /\ sock = <<>> => sock' = <<>>)
  <2>1. UNCHANGED <<pane, readerPc>>
    BY DEF Parser, ParserCheck, ParserTimeout, ParserEof, ParserRead, DrainRead, ParseBsu, ParseEsu,
       ParseOther, ParserForce, ParserKeep, ParserSettle, ParserCoalesce, ParserSend, ParserNotify,
       DrainSend, DrainNotify, ParserLeave, ParserLast, readerVars
  <2>. QED BY <2>1, OverStaysOver DEF Next, ReaderOver
<1>1. CASE ParserCheck
  BY <1>0, <1>1 DEF ParserCheck
<1>2. CASE ParserEof
  BY <1>0, <1>2 DEF ParserEof, Reasons, ReaderOver
<1>3. CASE ParserTimeout \/ ParserKeep \/ ParserSettle \/ ParserCoalesce \/ ParseOther
  BY <1>0, <1>3 DEF ParserTimeout, ParserKeep, ParserSettle, ParserCoalesce, ParseOther
<1>4. CASE ParseBsu \/ ParseEsu \/ ParserForce \/ ParserSend
  BY <1>0, <1>4 DEF ParseBsu, ParseEsu, ParserForce, ParserSend, SendActions
<1>5. ASSUME NEW n \in 1..ReadMax, ParserRead(n) PROVE Ends'
  BY <1>0, <1>5 DEF ParserRead
<1>6. ASSUME NEW n \in 1..ReadMax, DrainRead(n) PROVE Ends'
  BY <1>0, <1>6 DEF DrainRead
<1>7. CASE DrainSend
  BY <1>0, <1>7 DEF DrainSend, SendActions
<1>8. CASE ParserLeave
  BY <1>0, <1>8 DEF ParserLeave, SendActions
<1>9. CASE ParserNotify
  BY <1>0, <1>9 DEF ParserNotify
<1>10. CASE DrainNotify \/ ParserLast
  BY <1>0, <1>10 DEF DrainNotify, ParserLast
<1>. QED BY <1>1, <1>2, <1>3, <1>4, <1>5, <1>6, <1>7, <1>8, <1>9, <1>10 DEF Parser

LEMMA EndsStay ==
  ASSUME Types, Holders, Reasons, Ends, [Next]_vars
  PROVE  Ends'
<1>1. CASE RemovePane \/ DropPane
  BY <1>1 DEF RemovePane, DropPane, Ends, Bound
<1>2. CASE \/ HoldAges \/ Window \/ UNCHANGED vars \/ ChildExit \/ Hangup \/ PtyError
           \/ \E k \in Kinds : Output(k)
  <2>1. UNCHANGED <<readerVars, dead, pane, sock, parserPc, resume, actions>>
    BY <1>2 DEF HoldAges, Window, OnOutput, FollowUp, Repaint, vars, ChildExit, Hangup, PtyError, Output
  <2>. QED BY <2>1 DEF Ends, Bound, ReaderOver, readerVars
<1>. QED BY <1>1, <1>2, EndsByReader, EndsByParser DEF Next, Environment

\* Only a reader that saw the flag down polls, and the parser leaves with it up.
LEMMA NoneLeftStays ==
  ASSUME Types, Holders, Reasons, NoneLeft, [Next]_vars
  PROVE  NoneLeft'
<1>. USE DEF NoneLeft, Bound
<1>1. CASE Environment \/ HoldAges \/ Window \/ UNCHANGED vars
  <2>1. UNCHANGED <<readerVars, sock, parserPc, resume>> /\ (dead' = dead \/ dead' = TRUE)
    BY <1>1 DEF Environment, Output, ChildExit, Hangup, PtyError, RemovePane, DropPane, HoldAges,
       Window, OnOutput, FollowUp, Repaint, vars, readerVars
  <2>. QED BY <2>1 DEF readerVars
<1>2. CASE Reader
  <2>1. CASE ReaderStart
    BY <2>1 DEF ReaderStart, Holders
  <2>2. CASE ReaderCheck
    BY <2>2 DEF ReaderCheck, Reasons
  <2>3. CASE ReaderEof \/ ReaderTimeout \/ ReaderSignal \/ ReaderClose \/ ReaderJoin
    BY <2>3 DEF ReaderEof, ReaderTimeout, ReaderSignal, ReaderClose, ReaderJoin, Reasons
  <2>4. CASE ReaderFatal \/ ReaderWriteError \/ \E n \in 1..ReadMax : ReaderRead(n)
    BY <2>4 DEF ReaderFatal, ReaderWriteError, ReaderRead, Reasons
  <2>5. CASE ReaderWrite
    BY <2>5 DEF ReaderWrite, Reasons
  <2>. QED BY <1>2, <2>1, <2>2, <2>3, <2>4, <2>5 DEF Reader
<1>3. CASE Parser
  <2>1. UNCHANGED <<readerPc, exitWhy>>
    BY <1>3 DEF Parser, ParserCheck, ParserTimeout, ParserEof, ParserRead, DrainRead, ParseBsu, ParseEsu,
       ParseOther, ParserForce, ParserKeep, ParserSettle, ParserCoalesce, ParserSend, ParserNotify,
       DrainSend, DrainNotify, ParserLeave, ParserLast, readerVars
  <2>2. CASE ParserCheck \/ ParserEof
    BY <2>1, <2>2 DEF ParserCheck, ParserEof
  <2>3. CASE ParserTimeout \/ ParserKeep \/ ParserSettle \/ ParserCoalesce \/ ParseOther
    BY <2>1, <2>3 DEF ParserTimeout, ParserKeep, ParserSettle, ParserCoalesce, ParseOther
  <2>4. CASE ParseBsu \/ ParseEsu \/ ParserForce \/ ParserSend
    BY <2>1, <2>4 DEF ParseBsu, ParseEsu, ParserForce, ParserSend, SendActions
  <2>5. CASE \E n \in 1..ReadMax : ParserRead(n) \/ DrainRead(n)
    BY <2>1, <2>5 DEF ParserRead, DrainRead
  <2>6. CASE DrainSend \/ ParserLeave
    BY <2>1, <2>6 DEF DrainSend, ParserLeave, SendActions
  <2>7. CASE ParserNotify \/ DrainNotify \/ ParserLast
    BY <2>1, <2>7 DEF ParserNotify, DrainNotify, ParserLast
  <2>. QED BY <1>3, <2>2, <2>3, <2>4, <2>5, <2>6, <2>7 DEF Parser
<1>. QED BY <1>1, <1>2, <1>3 DEF Next

-----------------------------------------------------------------------------
(***************************************************************************)
(* Nothing is lost on the way.                                             *)
(***************************************************************************)
\* The ways in which items move from the head of t to the end of s.
LEMMA Moves ==
  ASSUME NEW S, NEW s \in Seq(S), NEW t \in Seq(S)
  PROVE  /\ \A n \in 0..Len(t) : Join(s \o Front(t, n), Rest(t, n)) = Join(s, t)
         /\ t # <<>> => Join(Append(s, Head(t)), Tail(t)) = Join(s, t)
<1>0. \A u, v \in Seq(S) : Join(Join(s, u), v) = Join(s, Join(u, v))
  BY JoinAssociative
<1>1. ASSUME NEW n \in 0..Len(t)
      PROVE  Join(s \o Front(t, n), Rest(t, n)) = Join(s, t)
  <2>1. Front(t, n) \in Seq(S) /\ Rest(t, n) \in Seq(S)
    BY Cut
  <2>2. Join(Front(t, n), Rest(t, n)) = t
    BY CutInTwo
  <2>3. s \o Front(t, n) = Join(s, Front(t, n))
    BY DEF Join
  <2>. QED BY <1>0, <2>1, <2>2, <2>3
<1>2. ASSUME t # <<>>
      PROVE  Join(Append(s, Head(t)), Tail(t)) = Join(s, t)
  <2>1. <<Head(t)>> \in Seq(S) /\ Tail(t) \in Seq(S) /\ Join(<<Head(t)>>, Tail(t)) = t
    BY <1>2, HeadFirst
  <2>2. Head(t) \in S
    BY <1>2, HeadFirst
  <2>3. Append(s, Head(t)) = Join(s, <<Head(t)>>)
    BY <2>2, AppendIsConcat DEF Join
  <2>. DEFINE u == <<Head(t)>>
              v == Tail(t)
  <2>4. u \in Seq(S) /\ v \in Seq(S) /\ Join(u, v) = t
    BY <2>1
  <2>. HIDE DEF u, v
  <2>5. Join(Join(s, u), v) = Join(s, t)
    BY <1>0, <2>4
  <2>. QED BY <2>3, <2>5 DEF u, v
<1>. QED BY <1>1, <1>2

\* Everything under way is a sequence of items.
LEMMA WayTypes ==
  ASSUME Types
  PROVE  /\ applied \in Seq(Item) /\ rescued \in Seq(Item) /\ actions \in Seq(Item)
         /\ chunk \in Seq(Item) /\ sock \in Seq(Item) /\ rbuf \in Seq(Item) /\ pty \in Seq(Item)
         /\ produced \in Seq(Item)
         /\ Join(sock, rbuf) \in Seq(Item) /\ Join(chunk, Join(sock, rbuf)) \in Seq(Item)
         /\ Coming \in Seq(Item)
<1>1. /\ applied \in Seq(Item) /\ rescued \in Seq(Item) /\ actions \in Seq(Item)
      /\ chunk \in Seq(Item) /\ sock \in Seq(Item) /\ rbuf \in Seq(Item) /\ pty \in Seq(Item)
      /\ produced \in Seq(Item)
  BY DEF Types, PtyTypes, ReaderTypes, SockTypes, ParserTypes, PaneTypes
<1>2. Join(sock, rbuf) \in Seq(Item)
  BY <1>1, JoinTypes
<1>3. Join(chunk, Join(sock, rbuf)) \in Seq(Item)
  BY <1>1, <1>2, JoinTypes
<1>4. Coming \in Seq(Item)
  BY <1>1, <1>3, JoinTypes DEF Coming
<1>. QED BY <1>1, <1>2, <1>3, <1>4

LEMMA ComingTypesNext ==
  ASSUME Types'
  PROVE  /\ applied' \in Seq(Item) /\ rescued' \in Seq(Item) /\ pty' \in Seq(Item)
         /\ produced' \in Seq(Item) /\ Coming' \in Seq(Item)
<1>1. /\ applied' \in Seq(Item) /\ rescued' \in Seq(Item) /\ pty' \in Seq(Item)
      /\ produced' \in Seq(Item)
      /\ actions' \in Seq(Item) /\ chunk' \in Seq(Item) /\ sock' \in Seq(Item) /\ rbuf' \in Seq(Item)
  BY DEF Types, PtyTypes, ReaderTypes, SockTypes, ParserTypes, PaneTypes
<1>2. Join(sock', rbuf') \in Seq(Item)
  BY <1>1, JoinTypes
<1>3. Join(chunk', Join(sock', rbuf')) \in Seq(Item)
  BY <1>1, <1>2, JoinTypes
<1>4. Coming' \in Seq(Item)
  BY <1>1, <1>3, JoinTypes DEF Coming
<1>. QED BY <1>1, <1>4

\* Four, joined from the left or from the right.
LEMMA JoinOfFour ==
  \A a, c, s, r \in Seq(Item) : Join(Join(Join(a, c), s), r) = Join(a, Join(c, Join(s, r)))
<1>. SUFFICES ASSUME NEW a \in Seq(Item), NEW c \in Seq(Item), NEW s \in Seq(Item), NEW r \in Seq(Item)
              PROVE  Join(Join(Join(a, c), s), r) = Join(a, Join(c, Join(s, r)))
  OBVIOUS
<1>1. \A x, y, z \in Seq(Item) : Join(x, Join(y, z)) = Join(Join(x, y), z)
  BY JoinAssociative
<1>2. Join(a, c) \in Seq(Item) /\ Join(s, r) \in Seq(Item)
  BY JoinTypes
<1>4. Join(Join(Join(a, c), s), r) = Join(Join(a, c), Join(s, r))
  BY <1>1, <1>2
<1>5. Join(Join(a, c), Join(s, r)) = Join(a, Join(c, Join(s, r)))
  BY <1>1, <1>2
<1>. QED BY <1>4, <1>5

\* The properties' name for what is coming, and the one the provers are better with.
LEMMA InFlightComing ==
  ASSUME Types
  PROVE  InFlight = Coming
<1>1. actions \in Seq(Item) /\ chunk \in Seq(Item) /\ sock \in Seq(Item) /\ rbuf \in Seq(Item)
  BY WayTypes
<1>2. InFlight = Join(Join(Join(actions, chunk), sock), rbuf)
  BY DEF InFlight, Join
<1>. QED BY <1>1, <1>2, JoinOfFour DEF Coming

\* A step that passes items from one place to the next changes nothing of the whole.
LEMMA ComingStays ==
  ASSUME Types, Types',
         \/ Join(actions', chunk') = Join(actions, chunk) /\ UNCHANGED <<sock, rbuf>>
         \/ Join(chunk', sock') = Join(chunk, sock) /\ UNCHANGED <<actions, rbuf>>
         \/ /\ chunk = <<>> /\ chunk' = <<>> /\ Join(actions', sock') = Join(actions, sock)
            /\ UNCHANGED rbuf
         \/ Join(sock', rbuf') = Join(sock, rbuf) /\ UNCHANGED <<actions, chunk>>
  PROVE  Coming' = Coming
<1>0. \A a, b, c, d, r \in Seq(Item) :
        Join(a, b) = Join(c, d) => Join(a, Join(b, r)) = Join(c, Join(d, r))
  BY Passing
<1>1. /\ actions \in Seq(Item) /\ chunk \in Seq(Item) /\ sock \in Seq(Item) /\ rbuf \in Seq(Item)
      /\ actions' \in Seq(Item) /\ chunk' \in Seq(Item) /\ sock' \in Seq(Item)
      /\ Join(sock, rbuf) \in Seq(Item)
  <2>1. /\ actions' \in Seq(Item) /\ chunk' \in Seq(Item) /\ sock' \in Seq(Item)
    BY DEF Types, SockTypes, ParserTypes
  <2>. QED BY <2>1, WayTypes
<1>2. CASE Join(actions', chunk') = Join(actions, chunk) /\ UNCHANGED <<sock, rbuf>>
  <2>. DEFINE r == Join(sock, rbuf)
  <2>1. r \in Seq(Item) /\ Coming = Join(actions, Join(chunk, r)) /\ Coming' = Join(actions', Join(chunk', r))
    BY <1>1, <1>2 DEF Coming
  <2>. HIDE DEF r
  <2>2. Join(actions', Join(chunk', r)) = Join(actions, Join(chunk, r))
    BY <1>0, <1>1, <1>2, <2>1
  <2>. QED BY <2>1, <2>2
<1>3. CASE Join(chunk', sock') = Join(chunk, sock) /\ UNCHANGED <<actions, rbuf>>
  <2>1. Join(chunk', Join(sock', rbuf)) = Join(chunk, Join(sock, rbuf))
    BY <1>0, <1>1, <1>3
  <2>. QED BY <1>3, <2>1 DEF Coming
<1>4. CASE /\ chunk = <<>> /\ chunk' = <<>> /\ Join(actions', sock') = Join(actions, sock)
           /\ UNCHANGED rbuf
  <2>1. Join(actions', Join(sock', rbuf)) = Join(actions, Join(sock, rbuf))
    BY <1>0, <1>1, <1>4
  <2>2. \A s \in Seq(Item) : Join(<<>>, s) = s
    BY JoinTypes
  <2>3. Join(sock', rbuf) \in Seq(Item)
    BY <1>1, JoinTypes
  <2>4. Join(chunk, Join(sock, rbuf)) = Join(sock, rbuf)
    BY <1>1, <1>4, <2>2
  <2>5. Join(chunk', Join(sock', rbuf)) = Join(sock', rbuf)
    BY <1>4, <2>2, <2>3
  <2>. QED BY <1>4, <2>1, <2>4, <2>5 DEF Coming
<1>5. CASE Join(sock', rbuf') = Join(sock, rbuf) /\ UNCHANGED <<actions, chunk>>
  BY <1>5 DEF Coming
<1>. QED BY <1>2, <1>3, <1>4, <1>5

\* ... and a step that sends a takes it from the front.
LEMMA ComingLess ==
  ASSUME Types, Types', NEW a \in Seq(Item),
         Join(a, Join(actions', chunk')) = Join(actions, chunk), UNCHANGED <<sock, rbuf>>
  PROVE  Join(a, Coming') = Coming
<1>. DEFINE r == Join(sock, rbuf)
<1>1. /\ actions \in Seq(Item) /\ chunk \in Seq(Item) /\ r \in Seq(Item)
  BY WayTypes
<1>2. actions' \in Seq(Item) /\ chunk' \in Seq(Item)
  BY DEF Types, ParserTypes
<1>3. Coming = Join(actions, Join(chunk, r)) /\ Coming' = Join(actions', Join(chunk', r))
  BY DEF Coming
<1>. HIDE DEF r
<1>4. \A s, t, u \in Seq(Item) : Join(s, Join(t, u)) = Join(Join(s, t), u)
  BY JoinAssociative
<1>5. Join(actions', Join(chunk', r)) = Join(Join(actions', chunk'), r)
  BY <1>1, <1>2, <1>4
<1>6. Join(actions', chunk') \in Seq(Item)
  BY <1>2, JoinTypes
<1>7. Join(a, Join(Join(actions', chunk'), r)) = Join(Join(a, Join(actions', chunk')), r)
  BY <1>1, <1>4, <1>6
<1>8. Join(Join(actions, chunk), r) = Join(actions, Join(chunk, r))
  BY <1>1, <1>4
<1>. QED BY <1>3, <1>5, <1>7, <1>8

\* What becomes of items that leave the parser.
Performed(b) ==
  IF pane # "gone" THEN applied' = Join(applied, b) /\ rescued' = rescued
                   ELSE applied' = applied /\ rescued' = Join(rescued, Vars(b))

\* The parser sends from the front of what is coming, and keeps the rest.
LEMMA ParserPasses ==
  ASSUME Types, Types', Holders, Parser
  PROVE  /\ UNCHANGED <<childVars, readerVars, pane>>
         /\ \E b \in Seq(Item) : Performed(b) /\ Join(b, Coming') = Coming
<1>1. /\ applied \in Seq(Item) /\ actions \in Seq(Item) /\ chunk \in Seq(Item) /\ sock \in Seq(Item)
      /\ rescued \in Seq(Item) /\ Coming \in Seq(Item)
  BY WayTypes
<1>2. UNCHANGED <<childVars, readerVars, pane>>
  BY DEF Parser, ParserCheck, ParserTimeout, ParserEof, ParserRead, DrainRead, ParseBsu, ParseEsu,
     ParseOther, ParserForce, ParserKeep, ParserSettle, ParserCoalesce, ParserSend, ParserNotify,
     DrainSend, DrainNotify, ParserLeave, ParserLast
<1>3. rbuf' = rbuf
  BY <1>2 DEF readerVars
<1>4. ASSUME NEW a \in Seq(Item), SendActions(a) PROVE Performed(a)
  BY <1>4 DEF SendActions, Performed, Vars, Join
<1>5. ASSUME UNCHANGED <<applied, rescued>>, Coming' = Coming
      PROVE  \E b \in Seq(Item) : Performed(b) /\ Join(b, Coming') = Coming
  <2>1. /\ Join(applied, <<>>) = applied /\ Join(rescued, <<>>) = rescued /\ Join(<<>>, Coming) = Coming
    BY <1>1, JoinTypes
  <2>2. Vars(<<>>) = <<>>
    BY OnlyByOne DEF Vars
  <2>3. Performed(<<>>)
    BY <1>5, <2>1, <2>2 DEF Performed
  <2>. QED BY <1>5, <2>1, <2>3, EmptySeq
<1>6. ASSUME NEW n \in 1..ReadMax, ParserRead(n)
      PROVE  UNCHANGED <<applied, rescued>> /\ Coming' = Coming
  <2>1. /\ chunk = <<>> /\ chunk' = Front(sock, n) /\ sock' = Rest(sock, n)
        /\ n \in 0..Len(sock) /\ UNCHANGED <<applied, rescued, actions>>
    BY <1>1, <1>6, LenProperties, SizesAssumption DEF ParserRead, Holders, Bound, shownVars
  <2>2. Join(chunk', sock') = sock /\ Join(chunk, sock) = sock
    BY <1>1, <2>1, CutInTwo, JoinTypes
  <2>. QED BY <1>3, <2>1, <2>2, ComingStays
<1>7. ASSUME NEW n \in 1..ReadMax, DrainRead(n)
      PROVE  UNCHANGED <<applied, rescued>> /\ Coming' = Coming
  <2>1. /\ chunk = <<>> /\ actions' = actions \o Front(sock, n) /\ sock' = Rest(sock, n)
        /\ n \in 0..Len(sock) /\ UNCHANGED <<applied, rescued, chunk>>
    BY <1>1, <1>7, LenProperties, SizesAssumption DEF DrainRead, Holders, Bound, shownVars
  <2>2. Join(actions', sock') = Join(actions, sock)
    BY <1>1, <2>1, Moves
  <2>. QED BY <1>3, <2>1, <2>2, ComingStays
<1>8. CASE ParseOther
  <2>1. /\ chunk # <<>> /\ actions' = Append(actions, Head(chunk)) /\ chunk' = Tail(chunk)
        /\ UNCHANGED <<applied, rescued, sock>>
    BY <1>8 DEF ParseOther, shownVars
  <2>2. Join(actions', chunk') = Join(actions, chunk)
    BY <1>1, <2>1, Moves
  <2>3. Coming' = Coming
    BY <1>3, <2>1, <2>2, ComingStays
  <2>. QED BY <1>2, <1>5, <2>1, <2>3
<1>9. CASE ParseBsu
  <2>1. /\ chunk # <<>> /\ actions' = <<Head(chunk)>> /\ chunk' = Tail(chunk) /\ sock' = sock
    BY <1>9 DEF ParseBsu
  <2>2. Join(actions', chunk') = chunk
    BY <1>1, <2>1, HeadFirst
  <2>3. CASE actions = <<>>
    <3>1. UNCHANGED <<applied, rescued>>
      BY <1>9, <2>3 DEF ParseBsu, shownVars
    <3>2. Join(actions, chunk) = chunk
      BY <1>1, <2>3, JoinTypes
    <3>3. Coming' = Coming
      BY <1>3, <2>1, <2>2, <3>2, ComingStays
    <3>. QED BY <1>2, <1>5, <3>1, <3>3
  <2>4. CASE actions # <<>>
    <3>1. Performed(actions)
      BY <1>1, <1>4, <1>9, <2>4 DEF ParseBsu
    <3>2. Join(actions, Join(actions', chunk')) = Join(actions, chunk)
      BY <2>2
    <3>. QED BY <1>1, <1>2, <1>3, <2>1, <3>1, <3>2, ComingLess
  <2>. QED BY <2>3, <2>4
<1>10. CASE ParseEsu
  <2>1. /\ chunk # <<>> /\ actions' = <<>> /\ chunk' = Tail(chunk) /\ sock' = sock
        /\ SendActions(Append(actions, Head(chunk)))
    BY <1>10 DEF ParseEsu
  <2>2. Head(chunk) \in Item /\ Tail(chunk) \in Seq(Item)
    BY <1>1, <2>1, HeadFirst
  <2>3. Append(actions, Head(chunk)) \in Seq(Item)
    BY <1>1, <2>2, AppendProperties
  <2>4. Join(actions', chunk') = Tail(chunk)
    BY <2>1, <2>2, JoinTypes
  <2>5. Join(Append(actions, Head(chunk)), Tail(chunk)) = Join(actions, chunk)
    BY <1>1, <2>1, Moves
  <2>6. Join(Append(actions, Head(chunk)), Join(actions', chunk')) = Join(actions, chunk)
    BY <2>4, <2>5
  <2>7. Performed(Append(actions, Head(chunk)))
    BY <1>4, <2>1, <2>3
  <2>8. Join(Append(actions, Head(chunk)), Coming') = Coming
    BY <1>3, <2>1, <2>3, <2>6, ComingLess
  <2>. QED BY <1>2, <2>3, <2>7, <2>8
<1>11. CASE ParserForce \/ ParserSend \/ DrainSend \/ ParserLeave
  <2>1. /\ chunk' = chunk /\ sock' = sock /\ actions' = <<>>
        /\ SendActions(actions) \/ (actions = <<>> /\ UNCHANGED <<applied, rescued>>)
    BY <1>11 DEF ParserForce, ParserSend, DrainSend, ParserLeave, shownVars
  <2>2. CASE SendActions(actions)
    <3>1. Performed(actions)
      BY <1>1, <1>4, <2>2
    <3>2. Join(actions', chunk') = chunk
      BY <1>1, <2>1, JoinTypes
    <3>3. Join(actions, Join(actions', chunk')) = Join(actions, chunk)
      BY <3>2
    <3>. QED BY <1>1, <1>2, <1>3, <2>1, <3>1, <3>3, ComingLess
  <2>3. CASE actions = <<>> /\ UNCHANGED <<applied, rescued>>
    <3>1. Coming' = Coming
      BY <1>3, <2>1, <2>3 DEF Coming
    <3>. QED BY <1>2, <1>5, <2>3, <3>1
  <2>. QED BY <2>1, <2>2, <2>3
<1>12. CASE \/ ParserCheck \/ ParserTimeout \/ ParserEof \/ ParserKeep \/ ParserSettle \/ ParserCoalesce
            \/ ParserNotify \/ DrainNotify \/ ParserLast
  <2>1. UNCHANGED <<applied, rescued, actions, chunk, sock>>
    BY <1>12 DEF ParserCheck, ParserTimeout, ParserEof, ParserKeep, ParserSettle, ParserCoalesce,
       ParserNotify, DrainNotify, ParserLast, shownVars
  <2>2. Coming' = Coming
    BY <1>3, <2>1 DEF Coming
  <2>. QED BY <1>2, <1>5, <2>1, <2>2
<1>. QED BY <1>2, <1>5, <1>6, <1>7, <1>8, <1>9, <1>10, <1>11, <1>12 DEF Parser

\* The reader takes from the pty, as long as it has not lost what it read; after
\* that it takes no more, and all it adds is its own line.
LEMMA ReaderPasses ==
  ASSUME Types, Types', Holders, Reasons, Reader
  PROVE  /\ UNCHANGED <<applied, rescued, produced, pane>>
         /\ \/ /\ Join(Coming', pty') = Join(Coming, pty)
               /\ exitWhy \notin Lossy /\ exitWhy' \notin Lossy
            \/ /\ exitWhy' \in Lossy
               /\ \/ Coming' = Coming /\ exitWhy \in Lossy
                  \/ Coming' = Join(Coming, <<Disconnected>>) /\ exitWhy \notin Lossy
                  \/ Join(Coming', rbuf) = Coming
<1>1. /\ rbuf \in Seq(Item) /\ pty \in Seq(Item) /\ sock \in Seq(Item) /\ actions \in Seq(Item)
      /\ chunk \in Seq(Item) /\ Coming \in Seq(Item) /\ rbuf' \in Seq(Item) /\ pty' \in Seq(Item)
  <2>1. rbuf' \in Seq(Item) /\ pty' \in Seq(Item)
    BY DEF Types, PtyTypes, ReaderTypes
  <2>. QED BY <2>1, WayTypes
<1>2. UNCHANGED <<applied, rescued, actions, chunk, produced, pane>>
  BY DEF Reader, ReaderStart, ReaderCheck, ReaderTimeout, ReaderEof, ReaderSignal, ReaderClose,
     ReaderJoin, ReaderFatal, ReaderWriteError, ReaderRead, ReaderWrite, shownVars, childVars
<1>3. \A s, t, u \in Seq(Item) : Join(s, Join(t, u)) = Join(Join(s, t), u) /\ Join(s, t) \in Seq(Item)
  BY JoinAssociative, JoinTypes
<1>4. \A r \in Seq(Item) :
         Join(actions, Join(chunk, Join(sock, r))) = Join(Join(actions, Join(chunk, sock)), r)
  <2>1. ASSUME NEW r \in Seq(Item)
        PROVE  Join(actions, Join(chunk, Join(sock, r))) = Join(Join(actions, Join(chunk, sock)), r)
    <3>1. Join(chunk, Join(sock, r)) = Join(Join(chunk, sock), r) /\ Join(chunk, sock) \in Seq(Item)
      BY <1>1, <1>3
    <3>2. Join(actions, Join(Join(chunk, sock), r)) = Join(Join(actions, Join(chunk, sock)), r)
      BY <1>1, <1>3, <3>1
    <3>. QED BY <3>1, <3>2
  <2>. QED BY <2>1
<1>5. PICK g \in Seq(Item) : \A r \in Seq(Item) : Join(actions, Join(chunk, Join(sock, r))) = Join(g, r)
  <2>1. Join(actions, Join(chunk, sock)) \in Seq(Item)
    <3>1. Join(chunk, sock) \in Seq(Item)
      BY <1>1, <1>3
    <3>. QED BY <1>1, <1>3, <3>1
  <2>. QED BY <1>4, <2>1
<1>6. Coming = Join(g, rbuf) /\ (sock' = sock => Coming' = Join(g, rbuf'))
  BY <1>1, <1>2, <1>5 DEF Coming
<1>7. \A s \in Seq(Item) : Join(s, <<>>) = s /\ Join(<<>>, s) = s
  BY JoinTypes
<1>8. ASSUME NEW n \in 1..ReadMax, ReaderRead(n)
      PROVE  /\ Join(Coming', pty') = Join(Coming, pty)
             /\ exitWhy \notin Lossy /\ exitWhy' \notin Lossy
  <2>1. /\ rbuf = <<>> /\ rbuf' = Front(pty, n) /\ pty' = Rest(pty, n) /\ sock' = sock
        /\ n \in 0..Len(pty) /\ exitWhy = "none" /\ exitWhy' = exitWhy
    BY <1>1, <1>8, LenProperties, SizesAssumption DEF ReaderRead, Holders, Reasons
  <2>2. Join(rbuf', pty') = pty
    BY <1>1, <2>1, CutInTwo
  <2>3. Coming = g /\ Coming' = Join(g, rbuf')
    BY <1>6, <1>7, <2>1
  <2>4. Join(Join(g, rbuf'), pty') = Join(g, Join(rbuf', pty'))
    BY <1>1, <1>3
  <2>. QED BY <2>1, <2>2, <2>3, <2>4 DEF Lossy
<1>9. CASE ReaderWrite
  <2>. DEFINE n == IF Len(rbuf) < SockCap - Len(sock) THEN Len(rbuf) ELSE SockCap - Len(sock)
  <2>1. /\ sock' = sock \o Front(rbuf, n) /\ rbuf' = Rest(rbuf, n) /\ Len(sock) < SockCap
        /\ UNCHANGED <<childVars, exitWhy>>
    BY <1>9 DEF ReaderWrite
  <2>2. n \in 0..Len(rbuf)
    BY <1>1, <2>1, LenProperties, SizesAssumption
  <2>. HIDE DEF n
  <2>3. Join(sock', rbuf') = Join(sock, rbuf)
    BY <1>1, <2>1, <2>2, Moves
  <2>4. Coming' = Coming
    BY <1>2, <2>3, ComingStays
  <2>. QED BY <1>2, <2>1, <2>4 DEF childVars
<1>10. CASE ReaderFatal
  <2>1. /\ sock' = sock /\ rbuf = <<>> /\ rbuf' = <<Disconnected>> /\ exitWhy' = "fatal"
        /\ exitWhy = "none"
    BY <1>10 DEF ReaderFatal, Holders, Reasons
  <2>2. Coming = g /\ Coming' = Join(g, <<Disconnected>>)
    BY <1>6, <1>7, <2>1
  <2>. QED BY <1>2, <2>1, <2>2 DEF Lossy
<1>11. CASE ReaderWriteError
  <2>1. sock' = sock /\ rbuf' = <<>> /\ exitWhy' \in {"fatal", "write"}
    BY <1>11 DEF ReaderWriteError
  <2>2. Coming' = g
    BY <1>6, <1>7, <2>1
  <2>. QED BY <1>2, <1>6, <2>1, <2>2 DEF Lossy
<1>12. CASE \/ ReaderStart \/ ReaderCheck \/ ReaderTimeout \/ ReaderEof \/ ReaderSignal \/ ReaderClose
            \/ ReaderJoin
  <2>1. UNCHANGED <<sock, rbuf, pty>> /\ (exitWhy' \in Lossy <=> exitWhy \in Lossy)
    BY <1>12 DEF ReaderStart, ReaderCheck, ReaderTimeout, ReaderEof, ReaderSignal, ReaderClose,
       ReaderJoin, childVars, Reasons, Lossy
  <2>2. Coming' = Coming
    BY <1>2, <2>1 DEF Coming
  <2>. QED BY <1>2, <2>1, <2>2
<1>. QED BY <1>2, <1>8, <1>9, <1>10, <1>11, <1>12 DEF Reader

\* What the child writes comes last.
LEMMA OutputPasses ==
  ASSUME Types, NEW k \in Kinds, Output(k)
  PROVE  /\ UNCHANGED <<applied, rescued, Coming, exitWhy, pane>>
         /\ \E x \in Item : /\ x.k \in Kinds
                            /\ produced' = Join(produced, <<x>>) /\ pty' = Join(pty, <<x>>)
<1>1. UNCHANGED <<applied, rescued, Coming, exitWhy, pane>>
  BY DEF Output, readerVars, shownVars, Coming
<1>. DEFINE x == [id |-> Len(produced) + 1, k |-> k]
<1>2. x \in Item /\ x.k \in Kinds
  <2>1. Len(produced) + 1 \in 0..MaxOut
    BY LenProperties, MaxOutAssumption DEF Output, Types, PtyTypes
  <2>. QED BY <2>1 DEF Item
<1>3. produced' = Append(produced, x) /\ pty' = Append(pty, x)
  BY DEF Output
<1>. HIDE DEF x
<1>4. produced' = Join(produced, <<x>>) /\ pty' = Join(pty, <<x>>)
  BY <1>2, <1>3, AppendIsConcat, WayTypes DEF Join
<1>. QED BY <1>1, <1>2, <1>4

\* Everybody else leaves the items where they are.
LEMMA OthersLeave ==
  ASSUME Environment \/ HoldAges \/ Window \/ UNCHANGED vars, ~ \E k \in Kinds : Output(k)
  PROVE  /\ UNCHANGED <<produced, pty, Coming, applied, rescued, exitWhy>>
         /\ pane # "gone" \/ pane' = "gone"
BY DEF Environment, Output, ChildExit, Hangup, PtyError, RemovePane, DropPane, HoldAges, Window, OnOutput, FollowUp, Repaint,
   vars, childVars, readerVars, shownVars, Coming

LEMMA ConservedStay ==
  ASSUME Types, Holders, Reasons, Conserved, [Next]_vars
  PROVE  Conserved'
<1>1. Types'
  BY TypesStay
<1>. SUFFICES ASSUME pane' # "gone", exitWhy' \notin Lossy
              PROVE  Flow' = produced'
  BY DEF Conserved
<1>2. /\ applied \in Seq(Item) /\ Coming \in Seq(Item) /\ pty \in Seq(Item) /\ Coming' \in Seq(Item)
  BY <1>1, WayTypes, ComingTypesNext
<1>3. \A s, t, u \in Seq(Item) : Join(s, Join(t, u)) = Join(Join(s, t), u) /\ Join(s, t) \in Seq(Item)
  BY JoinAssociative, JoinTypes
<1>4. ASSUME NEW k \in Kinds, Output(k) PROVE Flow' = produced'
  <2>1. PICK x \in Item : produced' = Join(produced, <<x>>) /\ pty' = Join(pty, <<x>>)
    BY <1>4, OutputPasses
  <2>2. UNCHANGED <<applied, Coming, pane, exitWhy>>
    BY <1>4, OutputPasses
  <2>3. Flow = produced
    BY <2>2 DEF Conserved
  <2>. DEFINE y == <<x>>
  <2>4. y \in Seq(Item) /\ produced' = Join(produced, y) /\ pty' = Join(pty, y)
    BY <2>1
  <2>. HIDE DEF y
  <2>5. Join(Coming, Join(pty, y)) = Join(Join(Coming, pty), y) /\ Join(Coming, pty) \in Seq(Item)
    BY <1>2, <1>3, <2>4
  <2>6. Join(applied, Join(Join(Coming, pty), y)) = Join(Join(applied, Join(Coming, pty)), y)
    BY <1>2, <1>3, <2>4, <2>5
  <2>. QED BY <2>2, <2>3, <2>4, <2>5, <2>6 DEF Flow
<1>5. CASE Environment \/ HoldAges \/ Window \/ UNCHANGED vars
  <2>1. CASE \E k \in Kinds : Output(k)
    BY <1>4, <2>1
  <2>2. CASE ~ \E k \in Kinds : Output(k)
    <3>1. UNCHANGED <<produced, pty, Coming, applied, exitWhy>> /\ pane # "gone"
      BY <1>5, <2>2, OthersLeave
    <3>. QED BY <3>1 DEF Conserved, Flow
  <2>. QED BY <2>1, <2>2
<1>6. CASE Reader
  <2>1. /\ UNCHANGED <<applied, produced, pane>> /\ Join(Coming', pty') = Join(Coming, pty)
        /\ exitWhy \notin Lossy
    BY <1>1, <1>6, ReaderPasses
  <2>. QED BY <2>1 DEF Conserved, Flow
<1>7. CASE Parser
  <2>1. UNCHANGED <<pane, produced, pty, exitWhy>>
    BY <1>1, <1>7, ParserPasses DEF childVars, readerVars
  <2>2. PICK b \in Seq(Item) : Performed(b) /\ Join(b, Coming') = Coming
    BY <1>1, <1>7, ParserPasses
  <2>3. applied' = Join(applied, b)
    BY <2>1, <2>2 DEF Performed
  <2>4. Join(Join(applied, b), Join(Coming', pty)) = Join(applied, Join(b, Join(Coming', pty)))
    BY <1>2, <1>3
  <2>5. Join(b, Join(Coming', pty)) = Join(Join(b, Coming'), pty)
    BY <1>2, <1>3
  <2>. QED BY <2>1, <2>2, <2>3, <2>4, <2>5 DEF Conserved, Flow
<1>. QED BY <1>5, <1>6, <1>7 DEF Next

-----------------------------------------------------------------------------
(***************************************************************************)
(* The order of what is performed and posted.                              *)
(***************************************************************************)
\* What is left of everything, place by place.
LEMMA OnlyOfAll ==
  ASSUME Types, NEW ks
  PROVE  /\ Only(applied, ks) \in Seq(Item) /\ Only(rescued, ks) \in Seq(Item)
         /\ Only(Coming, ks) \in Seq(Item) /\ Only(produced, ks) \in Seq(Item)
         /\ Only(pty, ks) \in Seq(Item) /\ Only(rbuf, ks) \in Seq(Item)
         /\ Only(All, ks) =
              Join(Only(applied, ks), Join(Only(rescued, ks), Only(Coming, ks)))
<1>1. /\ applied \in Seq(Item) /\ rescued \in Seq(Item) /\ Coming \in Seq(Item)
      /\ produced \in Seq(Item) /\ pty \in Seq(Item) /\ rbuf \in Seq(Item)
  BY WayTypes
<1>2. \A s, t \in Seq(Item) :
         Only(Join(s, t), ks) = Join(Only(s, ks), Only(t, ks)) /\ Join(s, t) \in Seq(Item)
  BY OnlyOfJoin, JoinTypes
<1>3. Only(Join(rescued, Coming), ks) = Join(Only(rescued, ks), Only(Coming, ks))
      /\ Join(rescued, Coming) \in Seq(Item)
  BY <1>1, <1>2
<1>4. Only(All, ks) = Join(Only(applied, ks), Only(Join(rescued, Coming), ks))
  BY <1>1, <1>2, <1>3 DEF All
<1>. QED BY <1>1, <1>3, <1>4, OnlyTypes

\* What is in front makes no difference to what follows.
LEMMA Behind ==
  ASSUME NEW S, NEW a \in Seq(S), NEW r \in Seq(S), NEW c \in Seq(S), NEW t \in Seq(S),
         NEW d \in Seq(S), NEW u \in Seq(S), Join(c, t) = Join(d, u)
  PROVE  Join(Join(a, Join(r, c)), t) = Join(Join(a, Join(r, d)), u)
<1>1. \A x, y, z \in Seq(S) : Join(Join(x, y), z) = Join(x, Join(y, z)) /\ Join(x, y) \in Seq(S)
  BY JoinAssociative, JoinTypes
<1>2. \A x, y \in Seq(S) : Join(Join(a, Join(r, x)), y) = Join(a, Join(r, Join(x, y)))
  <2>1. ASSUME NEW x \in Seq(S), NEW y \in Seq(S)
        PROVE  Join(Join(a, Join(r, x)), y) = Join(a, Join(r, Join(x, y)))
    <3>1. Join(Join(a, Join(r, x)), y) = Join(a, Join(Join(r, x), y))
      BY <1>1
    <3>2. Join(Join(r, x), y) = Join(r, Join(x, y))
      BY <1>1
    <3>. QED BY <3>1, <3>2
  <2>. QED BY <2>1
<1>. QED BY <1>2

LEMMA OrderByReader ==
  ASSUME Types, Types', Holders, Reasons, Reader, NEW ks, "msg" \notin ks, OrderOf(ks)
  PROVE  OrderOf(ks)'
<1>. DEFINE O(s) == Only(s, ks)
<1>1. PICK t \in Seq(Item) : /\ Join(O(All), t) = O(produced)
                             /\ exitWhy \notin Lossy => t = O(pty)
  BY DEF OrderOf
<1>2. UNCHANGED <<applied, rescued, produced, pane>>
  BY ReaderPasses
<1>3. /\ O(applied) \in Seq(Item) /\ O(rescued) \in Seq(Item) /\ O(Coming) \in Seq(Item)
      /\ O(pty) \in Seq(Item) /\ O(rbuf) \in Seq(Item)
      /\ O(All) = Join(O(applied), Join(O(rescued), O(Coming)))
      /\ Coming \in Seq(Item) /\ pty \in Seq(Item) /\ rbuf \in Seq(Item)
  BY OnlyOfAll, WayTypes
<1>4. Coming' \in Seq(Item) /\ pty' \in Seq(Item) /\ applied' \in Seq(Item) /\ rescued' \in Seq(Item)
  BY ComingTypesNext
<1>5. All' = Join(applied, Join(rescued, Coming'))
  BY <1>2 DEF All
<1>6. O(All') = Join(O(applied), Join(O(rescued), O(Coming'))) /\ O(Coming') \in Seq(Item)
  <2>1. \A s, u \in Seq(Item) : O(Join(s, u)) = Join(O(s), O(u)) /\ Join(s, u) \in Seq(Item)
    BY OnlyOfJoin, JoinTypes
  <2>2. applied \in Seq(Item) /\ rescued \in Seq(Item)
    BY WayTypes
  <2>. HIDE DEF O
  <2>3. Join(rescued, Coming') \in Seq(Item) /\ O(Join(rescued, Coming')) = Join(O(rescued), O(Coming'))
    BY <1>4, <2>1, <2>2
  <2>4. O(All') = Join(O(applied), O(Join(rescued, Coming')))
    BY <1>5, <2>1, <2>2, <2>3
  <2>5. O(Coming') \in Seq(Item)
    BY <1>4, OnlyTypes DEF O
  <2>. QED BY <2>3, <2>4, <2>5
<1>7. \A u \in Seq(Item) : Join(O(Coming'), u) = Join(O(Coming), t) => Join(O(All'), u) = O(produced)
  <2>. DEFINE a == O(applied)
              r == O(rescued)
              c == O(Coming)
              d == O(Coming')
  <2>0. /\ a \in Seq(Item) /\ r \in Seq(Item) /\ c \in Seq(Item) /\ d \in Seq(Item)
        /\ O(All) = Join(a, Join(r, c)) /\ O(All') = Join(a, Join(r, d))
    BY <1>3, <1>6
  <2>1. ASSUME NEW u \in Seq(Item), Join(d, u) = Join(c, t)
        PROVE  Join(O(All'), u) = Join(O(All), t)
    <3>. HIDE DEF O, a, r, c, d
    <3>1. Join(Join(a, Join(r, d)), u) = Join(Join(a, Join(r, c)), t)
      BY <2>0, <2>1, Behind
    <3>. QED BY <2>0, <3>1
  <2>. HIDE DEF O
  <2>. QED BY <1>1, <2>1
<1>8. /\ \A s, u \in Seq(Item) : O(Join(s, u)) = Join(O(s), O(u))
      /\ \A s \in Seq(Item) : O(s) \in Seq(Item)
  BY OnlyOfJoin, OnlyTypes
<1>9. \E u \in Seq(Item) : /\ Join(O(Coming'), u) = Join(O(Coming), t)
                           /\ exitWhy' \notin Lossy => u = O(pty')
  <2>1. CASE /\ Join(Coming', pty') = Join(Coming, pty)
             /\ exitWhy \notin Lossy /\ exitWhy' \notin Lossy
    <3>. HIDE DEF O
    <3>1. Join(O(Coming'), O(pty')) = Join(O(Coming), O(pty)) /\ O(pty') \in Seq(Item) /\ t = O(pty)
      BY <1>1, <1>3, <1>4, <1>8, <2>1
    <3>. QED BY <3>1
  <2>2. CASE exitWhy' \in Lossy /\ Coming' = Coming
    BY <2>2
  <2>3. CASE exitWhy' \in Lossy /\ Coming' = Join(Coming, <<Disconnected>>)
    <3>1. <<Disconnected>> \in Seq(Item) /\ O(<<Disconnected>>) = <<>>
      <4>1. Disconnected \in Item /\ Disconnected.k = "msg"
        BY MaxOutAssumption DEF Disconnected, Item
      <4>. DEFINE e == <<>>
      <4>2. e \in Seq(Item) /\ Append(e, Disconnected) = <<Disconnected>> /\ O(e) = e
        BY OnlyByOne
      <4>. HIDE DEF e
      <4>3. Only(Append(e, Disconnected), ks) = Only(e, ks)
        BY <4>1, <4>2, OnlyByOne
      <4>4. Append(e, Disconnected) \in Seq(Item)
        BY <4>1, <4>2
      <4>. QED BY <4>2, <4>3, <4>4 DEF e
    <3>. DEFINE m == <<Disconnected>>
    <3>. HIDE DEF O, m
    <3>2. O(Coming') = Join(O(Coming), <<>>)
      <4>1. O(m) = <<>> /\ m \in Seq(Item) /\ Coming' = Join(Coming, m)
        BY <2>3, <3>1 DEF m
      <4>2. O(Join(Coming, m)) = Join(O(Coming), O(m))
        BY <1>3, <1>8, <4>1
      <4>. QED BY <4>1, <4>2
    <3>3. O(Coming') = O(Coming)
      BY <1>3, <3>2, JoinTypes
    <3>. QED BY <2>3, <3>3
  <2>4. CASE exitWhy' \in Lossy /\ Join(Coming', rbuf) = Coming
    <3>. HIDE DEF O
    <3>1. O(Coming) = Join(O(Coming'), O(rbuf))
      BY <1>3, <1>4, <1>8, <2>4
    <3>2. Join(O(rbuf), t) \in Seq(Item)
      BY <1>3, JoinTypes
    <3>3. Join(O(Coming'), Join(O(rbuf), t)) = Join(Join(O(Coming'), O(rbuf)), t)
      BY <1>3, <1>6, JoinAssociative
    <3>. QED BY <2>4, <3>1, <3>2, <3>3
  <2>. QED BY <2>1, <2>2, <2>3, <2>4, ReaderPasses
<1>10. PICK u \in Seq(Item) : Join(O(All'), u) = O(produced) /\ (exitWhy' \notin Lossy => u = O(pty'))
  <2>. HIDE DEF O
  <2>. QED BY <1>7, <1>9
<1>. QED BY <1>2, <1>10 DEF OrderOf

LEMMA OrderByParser ==
  ASSUME Types, Types', Holders, Parser, NEW ks, pane # "gone" \/ ks = {"var"},
         pane # "gone" => rescued = <<>>, OrderOf(ks)
  PROVE  OrderOf(ks)'
<1>. DEFINE O(s) == Only(s, ks)
<1>1. UNCHANGED <<produced, pty, exitWhy>>
  BY ParserPasses DEF childVars, readerVars
<1>2. PICK b \in Seq(Item) : Performed(b) /\ Join(b, Coming') = Coming
  BY ParserPasses
<1>3. /\ applied \in Seq(Item) /\ rescued \in Seq(Item) /\ Coming \in Seq(Item)
      /\ Coming' \in Seq(Item)
  BY WayTypes, ComingTypesNext
<1>4. /\ \A s, u \in Seq(Item) : O(Join(s, u)) = Join(O(s), O(u)) /\ Join(s, u) \in Seq(Item)
      /\ \A s \in Seq(Item) : O(s) \in Seq(Item)
      /\ \A s, t, u \in Seq(Item) : Join(s, Join(t, u)) = Join(Join(s, t), u)
  <2>1. \A s, t, u \in Seq(Item) : Join(s, Join(t, u)) = Join(Join(s, t), u)
    BY JoinAssociative
  <2>2. \A s, u \in Seq(Item) : Join(s, u) \in Seq(Item)
    BY JoinTypes
  <2>3. \A s \in Seq(Item) : O(s) \in Seq(Item)
    BY OnlyTypes
  <2>4. \A s, u \in Seq(Item) : O(Join(s, u)) = Join(O(s), O(u))
    BY OnlyOfJoin
  <2>. HIDE DEF O
  <2>. QED BY <2>1, <2>2, <2>3, <2>4
<1>5. O(All') = O(All)
  <2>1. CASE pane # "gone"
    <3>1. applied' = Join(applied, b) /\ rescued = <<>> /\ rescued' = <<>>
      BY <1>2, <2>1 DEF Performed
    <3>2. \A s \in Seq(Item) : Join(<<>>, s) = s
      BY JoinTypes
    <3>3. All = Join(applied, Coming) /\ All' = Join(Join(applied, b), Coming')
      BY <1>3, <3>1, <3>2 DEF All
    <3>4. All' = All
      BY <1>2, <1>3, <1>4, <3>3
    <3>. QED BY <3>4
  <2>2. CASE pane = "gone" /\ ks = {"var"}
    <3>1. applied' = applied /\ rescued' = Join(rescued, O(b))
      BY <1>2, <2>2 DEF Performed, Vars
    <3>2. O(O(b)) = O(b)
      BY OnlyOfOnly
    <3>. HIDE DEF O
    <3>3. O(b) \in Seq(Item) /\ O(rescued) \in Seq(Item) /\ O(Coming') \in Seq(Item)
      BY <1>3, <1>4
    <3>4. rescued' \in Seq(Item) /\ O(rescued') = Join(O(rescued), O(b))
      BY <1>3, <1>4, <3>1, <3>2, <3>3
    <3>5. O(Coming) = Join(O(b), O(Coming'))
      BY <1>2, <1>3, <1>4
    <3>6. O(Join(rescued', Coming')) = Join(Join(O(rescued), O(b)), O(Coming'))
      BY <1>3, <1>4, <3>4
    <3>7. O(Join(rescued, Coming)) = Join(O(rescued), Join(O(b), O(Coming')))
      BY <1>3, <1>4, <3>5
    <3>8. O(Join(rescued', Coming')) = O(Join(rescued, Coming))
      BY <1>4, <3>3, <3>6, <3>7
    <3>9. O(All) = Join(O(applied), O(Join(rescued, Coming)))
      BY <1>3, <1>4 DEF All
    <3>10. O(All') = Join(O(applied), O(Join(rescued', Coming')))
      BY <1>3, <1>4, <3>1, <3>4 DEF All
    <3>. QED BY <3>8, <3>9, <3>10
  <2>. QED BY <2>1, <2>2
<1>. QED BY <1>1, <1>5 DEF OrderOf

LEMMA OrderByOutput ==
  ASSUME Types, NEW k \in Kinds, Output(k), NEW ks, OrderOf(ks)
  PROVE  OrderOf(ks)'
<1>. DEFINE O(s) == Only(s, ks)
<1>1. PICK t \in Seq(Item) : /\ Join(O(All), t) = O(produced)
                             /\ exitWhy \notin Lossy => t = O(pty)
  BY DEF OrderOf
<1>2. UNCHANGED <<applied, rescued, Coming, exitWhy, pane>>
  BY OutputPasses
<1>3. PICK x \in Item : produced' = Join(produced, <<x>>) /\ pty' = Join(pty, <<x>>)
  BY OutputPasses
<1>. DEFINE y == <<x>>
<1>4. y \in Seq(Item) /\ produced' = Join(produced, y) /\ pty' = Join(pty, y)
  BY <1>3
<1>. HIDE DEF y
<1>5. /\ O(produced') = Join(O(produced), O(y)) /\ O(pty') = Join(O(pty), O(y))
      /\ O(y) \in Seq(Item) /\ O(All) \in Seq(Item)
  <2>1. produced \in Seq(Item) /\ pty \in Seq(Item) /\ All \in Seq(Item)
    <3>1. applied \in Seq(Item) /\ rescued \in Seq(Item) /\ Coming \in Seq(Item)
      BY WayTypes
    <3>2. Join(rescued, Coming) \in Seq(Item)
      BY <3>1, JoinTypes
    <3>. QED BY <3>1, <3>2, JoinTypes, WayTypes DEF All
  <2>. QED BY <1>4, <2>1, OnlyOfJoin, OnlyTypes
<1>. HIDE DEF O
<1>6. Join(O(All), Join(t, O(y))) = Join(Join(O(All), t), O(y)) /\ Join(t, O(y)) \in Seq(Item)
  BY <1>5, JoinAssociative, JoinTypes
<1>7. Join(O(All'), Join(t, O(y))) = O(produced')
  <2>1. All' = All
    BY <1>2 DEF All
  <2>. QED BY <1>1, <1>5, <1>6, <2>1
<1>8. exitWhy' \notin Lossy => Join(t, O(y)) = O(pty')
  BY <1>1, <1>2, <1>5
<1>. QED BY <1>6, <1>7, <1>8 DEF OrderOf, O

LEMMA OrderStays ==
  ASSUME Types, Holders, Reasons, [Next]_vars, pane # "gone" => rescued = <<>>,
         NEW ks, "msg" \notin ks, pane # "gone" \/ ks = {"var"}, OrderOf(ks)
  PROVE  OrderOf(ks)'
<1>1. Types'
  BY TypesStay
<1>2. ASSUME Environment \/ HoldAges \/ Window \/ UNCHANGED vars, ~ \E k \in Kinds : Output(k)
      PROVE  OrderOf(ks)'
  <2>1. UNCHANGED <<produced, pty, Coming, applied, rescued, exitWhy>>
    BY <1>2, OthersLeave
  <2>. QED BY <2>1 DEF OrderOf, All
<1>. QED BY <1>1, <1>2, OrderByReader, OrderByParser, OrderByOutput DEF Next

LEMMA OrderedStay ==
  ASSUME Types, Holders, Reasons, Ordered, [Next]_vars
  PROVE  Ordered'
<1>. DEFINE Made == {x \in Item : x.k \in Kinds}
<1>1. OrderOf({"var"})'
  BY OrderStays DEF Ordered
<1>2. pane # "gone" => OrderOf(Kinds)'
  BY KindsAssumption, OrderStays DEF Ordered
<1>3. CASE \E k \in Kinds : Output(k)
  <2>1. PICK k \in Kinds : Output(k)
    BY <1>3
  <2>2. UNCHANGED <<applied, rescued, pane>>
    BY <2>1, OutputPasses
  <2>3. PICK x \in Made : produced' = Join(produced, <<x>>)
    BY <2>1, OutputPasses
  <2>. DEFINE y == <<x>>
  <2>4. y \in Seq(Made) /\ y \in Seq(Item) /\ produced' = Join(produced, y)
    BY <2>3
  <2>. HIDE DEF y, Made
  <2>5. produced \in Seq(Made)
    BY DEF Ordered, Made
  <2>6. produced' \in Seq(Made)
    BY <2>4, <2>5, JoinTypes
  <2>7. ASSUME pane = "gone"
        PROVE  \E t \in Seq(Item) : Join(FromChild(applied'), t) = produced'
    <3>1. PICK t \in Seq(Item) : Join(FromChild(applied), t) = produced
      BY <2>7 DEF Ordered
    <3>2. FromChild(applied) \in Seq(Item)
      BY WayTypes, OnlyTypes DEF FromChild
    <3>3. Join(FromChild(applied), Join(t, y)) = Join(Join(FromChild(applied), t), y) /\ Join(t, y) \in Seq(Item)
      BY <2>4, <3>2, JoinAssociative, JoinTypes
    <3>. QED BY <2>2, <2>4, <3>1, <3>3
  <2>. QED BY <1>1, <1>2, <2>2, <2>6, <2>7 DEF Ordered, Made
<1>4. CASE ~ \E k \in Kinds : Output(k)
  <2>1. produced' = produced
    BY <1>4, OthersLeave, ReaderPasses, ParserPasses, TypesStay DEF Next, childVars
  <2>2. pane' # "gone" => pane # "gone" /\ rescued' = rescued
    BY <1>4, OthersLeave, ReaderPasses, ParserPasses, TypesStay DEF Next, Performed
  <2>3. pane = "gone" => pane' = "gone" /\ applied' = applied
    BY <1>4, OthersLeave, ReaderPasses, ParserPasses, TypesStay DEF Next, Performed
  <2>4. ASSUME pane # "gone", pane' = "gone"
        PROVE  \E t \in Seq(Item) : Join(FromChild(applied'), t) = produced'
    <3>1. applied' = applied
      BY <1>4, <2>4, OthersLeave, ReaderPasses, ParserPasses, TypesStay DEF Next
    <3>2. PICK t \in Seq(Item) : Join(Only(All, Kinds), t) = Only(produced, Kinds)
      BY <2>4 DEF Ordered, OrderOf
    <3>3. Only(produced, Kinds) = produced
      BY OnlyOfOnly DEF Ordered
    <3>. DEFINE a == Only(applied, Kinds)
                r == Join(Only(rescued, Kinds), Only(Coming, Kinds))
    <3>4. a \in Seq(Item) /\ r \in Seq(Item) /\ Only(All, Kinds) = Join(a, r)
      BY OnlyOfAll, JoinTypes
    <3>. HIDE DEF a, r
    <3>5. Join(Join(a, r), t) = Join(a, Join(r, t)) /\ Join(r, t) \in Seq(Item)
      BY <3>4, JoinAssociative, JoinTypes
    <3>. QED BY <2>1, <3>1, <3>2, <3>3, <3>4, <3>5 DEF a, FromChild
  <2>. QED BY <1>1, <1>2, <2>1, <2>2, <2>3, <2>4 DEF Ordered
<1>. QED BY <1>3, <1>4

-----------------------------------------------------------------------------
(***************************************************************************)
(* The threads and the socketpair are one queue.                           *)
(***************************************************************************)
\* The line of the queue, in the provers' words.
Line == IF exitWhy \in Lossy THEN Coming ELSE Join(Coming, pty)

LEMMA LineTypes ==
  ASSUME Types
  PROVE  /\ Line \in Seq(Item)
         /\ Line = IF exitWhy \in Lossy THEN InFlight ELSE InFlight \o pty
<1>1. Coming \in Seq(Item) /\ pty \in Seq(Item) /\ InFlight = Coming
  BY WayTypes, InFlightComing
<1>2. Join(Coming, pty) \in Seq(Item)
  BY <1>1, JoinTypes
<1>3. InFlight \o pty = Join(Coming, pty)
  BY <1>1 DEF Join
<1>. QED BY <1>1, <1>2, <1>3 DEF Line

LEMMA LineTypesNext ==
  ASSUME Types'
  PROVE  /\ Line' \in Seq(Item)
         /\ Line' = IF exitWhy' \in Lossy THEN InFlight' ELSE InFlight' \o pty'
<1>1. Coming' \in Seq(Item) /\ pty' \in Seq(Item)
  BY ComingTypesNext
<1>2. Join(Coming', pty') \in Seq(Item)
  BY <1>1, JoinTypes
<1>3. InFlight' = Coming'
  <2>1. /\ actions' \in Seq(Item) /\ chunk' \in Seq(Item) /\ sock' \in Seq(Item)
        /\ rbuf' \in Seq(Item)
    BY DEF Types, ReaderTypes, SockTypes, ParserTypes
  <2>2. InFlight' = Join(Join(Join(actions', chunk'), sock'), rbuf')
    BY DEF InFlight, Join
  <2>. QED BY <2>1, <2>2, JoinOfFour DEF Coming
<1>. QED BY <1>1, <1>2, <1>3 DEF Line, Join

\* Where a joined sequence can be cut again.
LEMMA CutJoin ==
  ASSUME NEW S, NEW s \in Seq(S), NEW t \in Seq(S)
  PROVE  /\ Len(s) \in 0..Len(Join(s, t))
         /\ SubSeq(Join(s, t), 1, Len(s)) = s
         /\ SubSeq(Join(s, t), Len(s) + 1, Len(Join(s, t))) = t
BY DEF Join

LEMMA QueueByParser ==
  ASSUME Types, Types', Holders, Parser
  PROVE  \E n \in 0..Len(Line) : Queue!Take(n)
<1>1. UNCHANGED <<pty, exitWhy, pane>>
  BY ParserPasses DEF childVars, readerVars
<1>2. PICK b \in Seq(Item) : Performed(b) /\ Join(b, Coming') = Coming
  BY ParserPasses
<1>3. Coming' \in Seq(Item) /\ pty \in Seq(Item) /\ Line' \in Seq(Item)
  BY WayTypes, ComingTypesNext, LineTypesNext
<1>4. Line = Join(b, Line')
  <2>1. Join(Join(b, Coming'), pty) = Join(b, Join(Coming', pty))
    BY <1>3, JoinAssociative
  <2>. QED BY <1>1, <1>2, <2>1 DEF Line
<1>5. /\ Len(b) \in 0..Len(Line)
      /\ b = SubSeq(Line, 1, Len(b)) /\ Line' = SubSeq(Line, Len(b) + 1, Len(Line))
  <2>1. \A s, t \in Seq(Item) : /\ Len(s) \in 0..Len(Join(s, t))
                                /\ SubSeq(Join(s, t), 1, Len(s)) = s
                                /\ SubSeq(Join(s, t), Len(s) + 1, Len(Join(s, t))) = t
    BY CutJoin
  <2>. DEFINE r == Line'
  <2>2. r \in Seq(Item) /\ Line = Join(b, r)
    BY <1>3, <1>4
  <2>. HIDE DEF r
  <2>3. /\ Len(b) \in 0..Len(Join(b, r)) /\ SubSeq(Join(b, r), 1, Len(b)) = b
        /\ SubSeq(Join(b, r), Len(b) + 1, Len(Join(b, r))) = r
    BY <2>1, <2>2
  <2>. QED BY <2>2, <2>3 DEF r
<1>6. IF pane # "gone" THEN applied' = applied \o b /\ rescued' = rescued
                       ELSE applied' = applied /\ rescued' = rescued \o Vars(b)
  BY <1>2 DEF Performed, Join
<1>7. Queue!Take(Len(b))
  <2>. DEFINE n == Len(b)
  <2>1. b = SubSeq(Line, 1, n) /\ Line' = SubSeq(Line, n + 1, Len(Line))
    BY <1>5
  <2>. HIDE DEF n
  <2>2. Line = (IF exitWhy \in Lossy THEN InFlight ELSE InFlight \o pty)
    BY LineTypes
  <2>3. Line' = (IF exitWhy' \in Lossy THEN InFlight' ELSE InFlight' \o pty')
    BY LineTypesNext
  <2>4. /\ Line' = SubSeq(Line, n + 1, Len(Line))
        /\ IF pane # "gone" THEN applied' = applied \o SubSeq(Line, 1, n) /\ rescued' = rescued
                            ELSE rescued' = rescued \o Vars(SubSeq(Line, 1, n)) /\ applied' = applied
        /\ UNCHANGED <<exitWhy, pane>>
    BY <1>1, <1>6, <2>1
  <2>5. Queue!Take(n)
    BY <2>2, <2>3, <2>4 DEF Queue!Take
  <2>. QED BY <2>5 DEF n
<1>. QED BY <1>5, <1>7

LEMMA QueueByReader ==
  ASSUME Types, Types', Holders, Reasons, Reader
  PROVE  (\E n \in 0..Len(Line) : Queue!Break(n)) \/ UNCHANGED Queue!vars
<1>1. UNCHANGED <<applied, rescued, pane>>
  BY ReaderPasses
<1>2. /\ Coming \in Seq(Item) /\ pty \in Seq(Item) /\ rbuf \in Seq(Item) /\ Line \in Seq(Item)
      /\ Coming' \in Seq(Item)
  BY WayTypes, ComingTypesNext, LineTypes
<1>3. ASSUME NEW t \in Seq(Item), Line = Join(Coming', t), exitWhy' \in Lossy
      PROVE  \E n \in 0..Len(Line) : Queue!Break(n)
  <2>. DEFINE n == Len(Coming')
  <2>1. n \in 0..Len(Line) /\ Coming' = SubSeq(Line, 1, n)
    <3>. DEFINE c == Coming'
    <3>1. c \in Seq(Item) /\ Line = Join(c, t)
      BY <1>2, <1>3
    <3>. HIDE DEF c
    <3>2. Len(c) \in 0..Len(Join(c, t)) /\ SubSeq(Join(c, t), 1, Len(c)) = c
      BY <3>1, CutJoin
    <3>. QED BY <3>1, <3>2 DEF c
  <2>2. Line' = Coming'
    BY <1>3 DEF Line
  <2>. HIDE DEF n
  <2>3. Queue!Break(n)
    BY <1>1, <1>3, <2>1, <2>2, LineTypes, LineTypesNext DEF Queue!Break
  <2>. QED BY <2>1, <2>3
<1>4. CASE /\ Join(Coming', pty') = Join(Coming, pty)
           /\ exitWhy \notin Lossy /\ exitWhy' \notin Lossy
  <2>1. Line' = Line
    BY <1>4 DEF Line
  <2>. QED BY <1>1, <1>4, <2>1, LineTypes, LineTypesNext DEF Queue!vars
<1>5. CASE exitWhy' \in Lossy /\ Coming' = Coming /\ exitWhy \in Lossy
  <2>1. Line' = Line
    BY <1>5 DEF Line
  <2>. QED BY <1>1, <1>5, <2>1, LineTypes, LineTypesNext DEF Queue!vars
<1>6. CASE exitWhy' \in Lossy /\ Coming' = Join(Coming, <<Disconnected>>) /\ exitWhy \notin Lossy
  <2>. DEFINE n == Len(Coming)
  <2>1. n \in 0..Len(Line) /\ Coming = SubSeq(Line, 1, n)
    BY <1>2, <1>6, CutJoin DEF Line
  <2>2. Line' = Append(Coming, Disconnected)
    <3>1. Disconnected \in Item
      BY MaxOutAssumption DEF Disconnected, Item
    <3>2. Join(Coming, <<Disconnected>>) = Append(Coming, Disconnected)
      BY <1>2, <3>1, AppendIsConcat DEF Join
    <3>. QED BY <1>6, <3>2 DEF Line
  <2>. HIDE DEF n
  <2>3. Queue!Break(n)
    BY <1>1, <1>6, <2>1, <2>2, LineTypes, LineTypesNext DEF Queue!Break
  <2>. QED BY <2>1, <2>3
<1>7. CASE exitWhy' \in Lossy /\ Join(Coming', rbuf) = Coming
  <2>1. Join(Join(Coming', rbuf), pty) = Join(Coming', Join(rbuf, pty)) /\ Join(rbuf, pty) \in Seq(Item)
    BY <1>2, JoinAssociative, JoinTypes
  <2>2. \E t \in Seq(Item) : Line = Join(Coming', t)
    BY <1>2, <1>7, <2>1 DEF Line
  <2>. QED BY <1>3, <1>7, <2>2
<1>. QED BY <1>4, <1>5, <1>6, <1>7, ReaderPasses

LEMMA QueueByOthers ==
  ASSUME Types, Types', Environment \/ HoldAges \/ Window \/ UNCHANGED vars
  PROVE  [Queue!Next]_(Queue!vars)
<1>1. ASSUME NEW k \in Kinds, Output(k)
      PROVE  (\E x \in Item : Queue!Write(x)) \/ UNCHANGED Queue!vars
  <2>1. UNCHANGED <<applied, rescued, Coming, exitWhy, pane>>
    BY <1>1, OutputPasses
  <2>2. PICK x \in Item : pty' = Join(pty, <<x>>)
    BY <1>1, OutputPasses
  <2>3. CASE exitWhy \in Lossy
    <3>1. Line' = Line
      BY <2>1, <2>3 DEF Line
    <3>. QED BY <2>1, <3>1, LineTypes, LineTypesNext DEF Queue!vars
  <2>4. CASE exitWhy \notin Lossy
    <3>. DEFINE y == <<x>>
    <3>1. Coming \in Seq(Item) /\ pty \in Seq(Item) /\ y \in Seq(Item) /\ pty' = Join(pty, y)
      BY <2>2, WayTypes
    <3>. HIDE DEF y
    <3>2. Join(Coming, Join(pty, y)) = Join(Join(Coming, pty), y) /\ Join(Coming, pty) \in Seq(Item)
      BY <3>1, JoinAssociative, JoinTypes
    <3>3. Line' = Join(Line, y) /\ Line \in Seq(Item)
      BY <2>1, <2>4, <3>1, <3>2 DEF Line
    <3>4. Line' = Append(Line, x)
      BY <3>3, AppendIsConcat DEF Join, y
    <3>5. Queue!Write(x)
      BY <2>1, <2>4, <3>4, LineTypes, LineTypesNext DEF Queue!Write
    <3>. QED BY <3>5
  <2>. QED BY <2>3, <2>4
<1>2. ASSUME ~ \E k \in Kinds : Output(k)
      PROVE  Queue!PaneGoes \/ UNCHANGED Queue!vars
  <2>1. UNCHANGED <<pty, Coming, applied, rescued, exitWhy>> /\ (pane # "gone" \/ pane' = "gone")
    BY <1>2, OthersLeave
  <2>2. Line' = Line
    BY <2>1 DEF Line
  <2>. QED BY <2>1, <2>2, LineTypes, LineTypesNext DEF Queue!vars, Queue!PaneGoes
<1>. QED BY <1>1, <1>2 DEF Queue!Next

-----------------------------------------------------------------------------
(***************************************************************************)
(* The caps of the buffer.                                                 *)
(***************************************************************************)
LEMMA CountedByParse ==
  ASSUME Types, Holders, Counted, ParseBsu \/ ParseEsu \/ ParseOther
  PROVE  Counted'
<1>1. /\ chunk \in Seq(Item) /\ actions \in Seq(Item) /\ actionSize \in Nat /\ nread \in Nat
      /\ Len(chunk) <= nread /\ chunk # <<>> /\ parserPc = "parse"
  BY SizesAssumption DEF Types, ParserTypes, ParseBsu, ParseEsu, ParseOther
<1>2. Len(actions) + Len(chunk) <= actionSize + nread
  BY <1>1 DEF Counted, Bound
<1>3. /\ Len(chunk) \in Nat /\ Len(actions) \in Nat /\ Len(Tail(chunk)) = Len(chunk) - 1
      /\ Len(<<Head(chunk)>>) = 1 /\ Len(Append(actions, Head(chunk))) = Len(actions) + 1
      /\ Len(<<>>) = 0
  <2>1. Head(chunk) \in Item /\ Len(Tail(chunk)) = Len(chunk) - 1
    BY <1>1, HeadFirst
  <2>2. Len(Append(actions, Head(chunk))) = Len(actions) + 1
    BY <1>1, <2>1, AppendProperties
  <2>. QED BY <1>1, <2>1, <2>2, LenProperties
<1>4. CASE ParseBsu
  <2>1. /\ actions' = <<Head(chunk)>> /\ chunk' = Tail(chunk) /\ nread' = nread
        /\ \/ actions = <<>> /\ UNCHANGED <<actionSize, parserPc>>
           \/ actionSize' = 0 /\ parserPc' = "notify" /\ resume' = "parse"
    BY <1>4 DEF ParseBsu
  <2>2. Len(actions') + Len(chunk') <= actionSize' + nread'
    BY <1>1, <1>2, <1>3, <2>1
  <2>. QED BY <1>1, <2>1, <2>2 DEF Counted, Bound, BufferBounded
<1>5. CASE ParseEsu
  <2>1. /\ actions' = <<>> /\ chunk' = Tail(chunk) /\ nread' = nread /\ actionSize' = 0
        /\ parserPc' = "notify" /\ resume' = "parse"
    BY <1>5 DEF ParseEsu
  <2>2. Len(actions') + Len(chunk') <= actionSize' + nread'
    BY <1>1, <1>2, <1>3, <2>1
  <2>. QED BY <2>1, <2>2 DEF Counted, Bound, BufferBounded
<1>6. CASE ParseOther
  <2>1. /\ actions' = Append(actions, Head(chunk)) /\ chunk' = Tail(chunk)
        /\ UNCHANGED <<nread, actionSize, parserPc>>
    BY <1>6 DEF ParseOther
  <2>2. Len(actions') + Len(chunk') <= actionSize' + nread'
    BY <1>1, <1>2, <1>3, <2>1
  <2>. QED BY <1>1, <2>1, <2>2 DEF Counted, Bound, BufferBounded
<1>. QED BY <1>4, <1>5, <1>6

LEMMA CountedByParser ==
  ASSUME Types, Holders, Counted, Parser
  PROVE  Counted'
<1>1. /\ chunk \in Seq(Item) /\ actions \in Seq(Item) /\ actionSize \in Nat /\ nread \in Nat
      /\ hold \in BOOLEAN /\ BufLen \in Nat /\ HoldCap \in Nat /\ Len(actions) \in Nat /\ Len(<<>>) = 0
      /\ Len(chunk) \in Nat
  BY SizesAssumption, LenProperties DEF Types, ParserTypes
<1>2. CASE ParserCheck
  BY <1>2 DEF ParserCheck, Counted, Bound, BufferBounded, holdVars
<1>3. CASE ParserTimeout
  BY <1>3 DEF ParserTimeout, Counted, Bound, BufferBounded, holdVars
<1>4. CASE ParserEof
  BY <1>4 DEF ParserEof, Counted, Bound, BufferBounded
<1>5. ASSUME NEW n \in 1..ReadMax, ParserRead(n)
      PROVE  Counted'
  <2>1. /\ parserPc = "wait" /\ parserPc' = "parse" /\ chunk' = Front(sock, n) /\ nread' = n
        /\ n \in 0..Len(sock) /\ UNCHANGED <<actions, actionSize>>
    BY <1>5, LenProperties, SizesAssumption DEF ParserRead, Types, SockTypes
  <2>2. nread = 0 /\ chunk = <<>> /\ Len(actions) <= actionSize
    BY <1>1, <2>1 DEF Counted, Bound, Holders
  <2>3. Len(chunk') = n
    BY <2>1, Cut DEF Types, SockTypes
  <2>4. Len(actions') + Len(chunk') <= actionSize' + nread'
    BY <1>1, <2>1, <2>2, <2>3
  <2>. QED BY <2>1, <2>4 DEF Counted, Bound, BufferBounded
<1>6. CASE ParserForce \/ ParserSend
  <2>1. /\ actions' = <<>> /\ parserPc' = "notify" /\ resume' = "check" /\ actionSize' = 0
        /\ chunk = <<>> /\ chunk' = chunk /\ nread' = 0
    BY <1>6 DEF ParserForce, ParserSend, Counted, Bound, Holders
  <2>. QED BY <1>1, <2>1 DEF Counted, Bound, BufferBounded
<1>7. CASE ParserKeep
  <2>1. /\ parserPc = "parse" /\ parserPc' = "check" /\ chunk = <<>> /\ UNCHANGED <<chunk, actions, hold>>
        /\ actionSize' = actionSize + nread /\ nread' = 0
        /\ actions = <<>> \/ (hold /\ ~ (actionSize + nread > HoldCap))
    BY <1>7 DEF ParserKeep, HoldExceeded, holdVars
  <2>2. Len(actions) <= actionSize + nread
    BY <1>1, <2>1 DEF Counted, Bound
  <2>3. Len(actions') <= IF hold' THEN HoldCap ELSE BufLen
    BY <1>1, <2>1, <2>2
  <2>4. Len(actions') + Len(chunk') <= actionSize' + nread'
    BY <1>1, <2>1, <2>2
  <2>. QED BY <2>1, <2>3, <2>4 DEF Counted, Bound, BufferBounded
<1>8. CASE ParserSettle
  <2>1. /\ parserPc = "parse" /\ parserPc' = "settle" /\ chunk = <<>> /\ UNCHANGED <<chunk, actions, hold>>
        /\ actionSize' = actionSize + nread /\ nread' = 0 /\ ~ hold
    BY <1>8 DEF ParserSettle, holdVars
  <2>2. Len(actions) <= actionSize + nread
    BY <1>1, <2>1 DEF Counted, Bound
  <2>3. Len(actions') + Len(chunk') <= actionSize' + nread'
    BY <1>1, <2>1, <2>2
  <2>. QED BY <2>1, <2>3 DEF Counted, Bound, BufferBounded
<1>9. CASE ParserCoalesce
  <2>1. /\ parserPc = "settle" /\ parserPc' = "check" /\ actionSize < BufLen
        /\ UNCHANGED <<chunk, actions, hold, actionSize, nread>>
    BY <1>9 DEF ParserCoalesce, holdVars
  <2>2. nread = 0 /\ ~ hold /\ Len(actions) + Len(chunk) <= actionSize + nread
    BY <2>1 DEF Counted, Bound
  <2>3. Len(actions) <= BufLen
    BY <1>1, <2>1, <2>2
  <2>. QED BY <2>1, <2>2, <2>3 DEF Counted, Bound, BufferBounded
<1>10. CASE ParserNotify
  <2>1. /\ parserPc = "notify" /\ parserPc' = resume /\ resume \in {"check", "parse", "last"}
        /\ UNCHANGED <<chunk, actions, hold, actionSize, nread>>
    BY <1>10 DEF ParserNotify, holdVars, Types, ParserTypes
  <2>2. resume = "check" => actions = <<>> /\ nread = 0
    BY <2>1 DEF Counted, Bound
  <2>3. resume \in {"check", "parse"} => Len(actions) + Len(chunk) <= actionSize + nread
    BY <2>1 DEF Counted, Bound
  <2>. QED BY <1>1, <2>1, <2>2, <2>3 DEF Counted, Bound, BufferBounded
<1>11. CASE DrainSend \/ DrainNotify \/ ParserLeave \/ ParserLast \/ \E n \in 1..ReadMax : DrainRead(n)
  BY <1>11 DEF DrainSend, DrainNotify, ParserLeave, ParserLast, DrainRead, Counted, Bound, BufferBounded
<1>. QED BY <1>2, <1>3, <1>4, <1>5, <1>6, <1>7, <1>8, <1>9, <1>10, <1>11, CountedByParse DEF Parser

LEMMA CountedStay ==
  ASSUME Types, Holders, Counted, [Next]_vars
  PROVE  Counted'
<1>1. CASE UNCHANGED <<parserPc, resume, chunk, nread, actions, actionSize, hold>>
  BY <1>1 DEF Counted, Bound, BufferBounded
<1>2. CASE ReaderStart
  <2>1. /\ parserPc = "unborn" /\ parserPc' \in {"check", "done"}
        /\ UNCHANGED <<resume, chunk, nread, actions, actionSize, hold>>
    BY <1>2 DEF ReaderStart, Holders, holdVars
  <2>2. nread = 0 /\ chunk = <<>> /\ actions = <<>>
    BY <2>1 DEF Counted, Holders, Bound
  <2>3. Len(actions') = 0 /\ Len(chunk') = 0 /\ actionSize' \in Nat /\ BufLen \in Nat /\ HoldCap \in Nat
    BY <2>1, <2>2, SizesAssumption DEF Types, ParserTypes
  <2>. QED BY <2>1, <2>2, <2>3 DEF Counted, Bound, BufferBounded
<1>3. CASE Reader /\ ~ ReaderStart
  BY <1>1, <1>3 DEF Reader, ReaderCheck, ReaderTimeout, ReaderEof, ReaderSignal, ReaderClose,
     ReaderJoin, ReaderFatal, ReaderWriteError, ReaderRead, ReaderWrite, holdVars
<1>4. CASE Environment \/ HoldAges \/ Window \/ UNCHANGED vars
  <2>1. hold' = hold
    BY <1>4 DEF Environment, Output, ChildExit, Hangup, PtyError, RemovePane, DropPane, HoldAges, Window, OnOutput, FollowUp, Repaint,
       vars, holdVars
  <2>. QED BY <1>1, <1>4, <2>1, OutsideLeaves
<1>. QED BY <1>2, <1>3, <1>4, CountedByParser DEF Next

-----------------------------------------------------------------------------
(***************************************************************************)
(* Synchronized output.                                                    *)
(***************************************************************************)
\* An end of synchronized output closes every frame before it, and only a begin
\* opens one.
LEMMA Closing ==
  ASSUME NEW s \in Seq(Item), NEW x \in Item
  PROVE  /\ x.k = "esu" => ~ OpenFrame(Append(s, x))
         /\ x.k # "bsu" /\ ~ OpenFrame(s) => ~ OpenFrame(Append(s, x))
<1>. DEFINE t == Append(s, x)
            n == Len(s)
<1>1. /\ Len(t) = n + 1 /\ n \in Nat /\ t[n + 1] = x
      /\ \A i \in 1..n : t[i] = s[i]
  BY AppendProperties, LenProperties
<1>. HIDE DEF t, n
<1>2. ASSUME x.k = "esu", OpenFrame(t)
      PROVE  FALSE
  <2>1. PICK i \in 1..Len(t) : \A j \in i..Len(t) : t[j].k # "esu"
    BY <1>2 DEF OpenFrame
  <2>2. n + 1 \in i..Len(t)
    BY <1>1, <2>1
  <2>. QED BY <1>1, <1>2, <2>1, <2>2
<1>3. ASSUME x.k # "bsu", ~ OpenFrame(s), OpenFrame(t)
      PROVE  FALSE
  <2>1. PICK i \in 1..Len(t) : t[i].k = "bsu" /\ \A j \in i..Len(t) : t[j].k # "esu"
    BY <1>3 DEF OpenFrame
  <2>2. i # n + 1
    BY <1>1, <1>3, <2>1
  <2>3. i \in 1..n /\ s[i].k = "bsu"
    BY <1>1, <2>1, <2>2
  <2>4. ASSUME NEW j \in i..n
        PROVE  s[j].k # "esu"
    <3>1. j \in 1..n /\ j \in i..Len(t)
      BY <1>1, <2>3
    <3>. QED BY <1>1, <2>1, <3>1
  <2>. QED BY <1>3, <2>3, <2>4 DEF OpenFrame, n
<1>. QED BY <1>2, <1>3 DEF t

\* An item appended to the last of two is appended to both.
LEMMA AppendBehind ==
  ASSUME NEW s \in Seq(Item), NEW t \in Seq(Item), NEW x \in Item
  PROVE  Join(s, Append(t, x)) = Append(Join(s, t), x) /\ Join(s, t) \in Seq(Item)
BY DEF Join

LEMMA FramesByParse ==
  ASSUME Types, Frames, ParseBsu \/ ParseEsu \/ ParseOther
  PROVE  Frames'
<1>1. /\ applied \in Seq(Item) /\ actions \in Seq(Item) /\ Head(chunk) \in Item
      /\ parserPc = "parse" /\ pane' = pane
  BY HeadFirst, WayTypes DEF ParseBsu, ParseEsu, ParseOther
<1>2. CASE ParseBsu
  BY <1>2 DEF ParseBsu, Frames
<1>3. CASE ParseEsu /\ pane # "gone"
  <2>1. /\ applied' = Join(applied, Append(actions, Head(chunk))) /\ actions' = <<>>
        /\ Head(chunk).k = "esu"
    BY <1>3 DEF ParseEsu, SendActions, Join
  <2>2. applied' = Append(Join(applied, actions), Head(chunk)) /\ Join(applied, actions) \in Seq(Item)
    BY <1>1, <2>1, AppendBehind
  <2>3. ~ OpenFrame(applied') /\ applied' \in Seq(Item)
    <3>1. Append(Join(applied, actions), Head(chunk)) \in Seq(Item)
      BY <1>1, <2>2, AppendProperties
    <3>2. ~ OpenFrame(Append(Join(applied, actions), Head(chunk)))
      BY <1>1, <2>1, <2>2, Closing
    <3>. QED BY <2>2, <3>1, <3>2
  <2>4. Join(applied', actions') = applied'
    BY <2>1, <2>3, JoinTypes
  <2>. QED BY <2>3, <2>4 DEF Frames
<1>4. CASE ParseOther
  <2>1. /\ actions' = Append(actions, Head(chunk)) /\ Head(chunk).k # "bsu"
        /\ UNCHANGED <<applied, hold, parserPc, resume>>
    BY <1>4 DEF ParseOther, shownVars, holdVars
  <2>2. Join(applied', actions') = Append(Join(applied, actions), Head(chunk))
        /\ Join(applied, actions) \in Seq(Item)
    BY <1>1, <2>1, AppendBehind
  <2>3. ~ OpenFrame(Join(applied, actions)) => ~ OpenFrame(Join(applied', actions'))
    BY <1>1, <2>1, <2>2, Closing
  <2>. QED BY <1>1, <2>1, <2>3 DEF Frames, Bound
<1>5. pane = "gone" => Frames'
  BY <1>1 DEF Frames
<1>. QED BY <1>2, <1>3, <1>4, <1>5

LEMMA FramesStay ==
  ASSUME Types, Holders, Frames, Counted, [Next]_vars
  PROVE  Frames'
<1>1. CASE UNCHANGED <<applied, actions, hold, parserPc, resume>> /\ (pane = "gone" => pane' = "gone")
  BY <1>1 DEF Frames, Bound
<1>2. CASE Environment \/ HoldAges \/ Window \/ UNCHANGED vars
  <2>1. hold' = hold /\ (pane = "gone" => pane' = "gone")
    BY <1>2 DEF Environment, Output, ChildExit, Hangup, PtyError, RemovePane, DropPane, HoldAges,
       Window, OnOutput, FollowUp, Repaint, vars, holdVars
  <2>. QED BY <1>1, <1>2, <2>1, OutsideLeaves
<1>3. CASE Reader
  <2>1. CASE ReaderStart
    BY <2>1 DEF ReaderStart, Holders, Frames, Bound, shownVars, holdVars
  <2>2. CASE ~ ReaderStart
    BY <1>1, <1>3, <2>2 DEF Reader, ReaderCheck, ReaderTimeout, ReaderEof, ReaderSignal, ReaderClose,
       ReaderJoin, ReaderFatal, ReaderWriteError, ReaderRead, ReaderWrite, shownVars, holdVars
  <2>. QED BY <2>1, <2>2
<1>4. CASE ParserForce \/ ParserSend
  <2>1. pane' = pane /\ hold' = hold
    BY <1>4 DEF ParserForce, ParserSend, holdVars
  <2>2. CASE ParserForce \/ pane = "gone"
    BY <1>4, <2>1, <2>2 DEF ParserForce, Frames
  <2>3. CASE ParserSend /\ pane # "gone"
    <3>1. applied' = Join(applied, actions) /\ actions' = <<>> /\ parserPc = "settle"
      BY <2>3 DEF ParserSend, SendActions, Join
    <3>2. ~ OpenFrame(applied') \/ hold
      BY <2>3, <3>1 DEF Frames, Bound
    <3>3. Join(applied', actions') = applied'
      <4>1. applied' \in Seq(Item)
        BY <3>1, JoinTypes, WayTypes
      <4>. QED BY <3>1, <4>1, JoinTypes
    <3>. QED BY <2>1, <3>2, <3>3 DEF Frames
  <2>. QED BY <1>4, <2>2, <2>3
<1>5. CASE DrainSend \/ DrainNotify \/ ParserEof \/ ParserLeave \/ ParserLast \/ \E n \in 1..ReadMax : DrainRead(n)
  BY <1>5 DEF DrainSend, DrainNotify, ParserEof, ParserLeave, ParserLast, DrainRead, Frames, Bound
<1>6. CASE \/ ParserCheck \/ ParserTimeout \/ ParserKeep \/ ParserSettle \/ ParserCoalesce \/ ParserNotify
           \/ \E n \in 1..ReadMax : ParserRead(n)
  <2>1. UNCHANGED <<applied, actions, hold, pane>>
    BY <1>6 DEF ParserCheck, ParserTimeout, ParserKeep, ParserSettle, ParserCoalesce, ParserNotify,
       ParserRead, shownVars, holdVars
  <2>2. Bound({"drain", "drained", "leave", "last", "done"}) =>
          Bound({"drain", "drained", "leave", "last", "done"})'
    BY <1>6 DEF ParserCheck, ParserTimeout, ParserKeep, ParserSettle, ParserCoalesce, ParserNotify,
       ParserRead, Bound
  <2>. QED BY <2>1, <2>2 DEF Frames
<1>. QED BY <1>2, <1>3, <1>4, <1>5, <1>6, FramesByParse DEF Next, Parser

-----------------------------------------------------------------------------
(***************************************************************************)
(* No frame gets stuck.                                                    *)
(***************************************************************************)
LEMMA NoStuckStays ==
  ASSUME Types, Holders, NoStuckFrame, [Next]_vars
  PROVE  NoStuckFrame'
<1>. USE DEF NoStuckFrame
<1>0. told \in Nat /\ Len(applied) \in Nat /\ told <= Len(applied)
  BY LenProperties DEF Types, PaneTypes
<1>1. CASE UNCHANGED <<told, applied, notice, parserPc, pending>>
  BY <1>1
<1>2. CASE Reader
  <2>1. CASE ReaderStart
    BY <1>0, <2>1 DEF ReaderStart, Holders, shownVars, windowVars
  <2>2. CASE ~ ReaderStart
    BY <1>1, <1>2, <2>2 DEF Reader, ReaderCheck, ReaderTimeout, ReaderEof, ReaderSignal, ReaderClose,
       ReaderJoin, ReaderFatal, ReaderWriteError, ReaderRead, ReaderWrite, notifyVars, shownVars, windowVars
  <2>. QED BY <2>1, <2>2
<1>3. CASE Environment \/ HoldAges \/ UNCHANGED vars
  BY <1>1, <1>3 DEF Environment, Output, ChildExit, Hangup, PtyError, RemovePane, DropPane, HoldAges,
     vars, notifyVars, shownVars, windowVars
<1>4. CASE Window
  BY <1>0, <1>4 DEF notifyVars, Window, OnOutput, FollowUp, Repaint, shownVars, windowVars
<1>5. CASE Parser
  <2>1. CASE ParseBsu \/ ParseEsu \/ ParserForce \/ ParserSend \/ DrainSend \/ ParserLeave
    BY <2>1 DEF ParseBsu, ParseEsu, ParserForce, ParserSend, DrainSend, ParserLeave, notifyVars, shownVars, windowVars
  <2>2. CASE ParserTimeout \/ ParserNotify \/ DrainNotify \/ ParserLast
    BY <2>2 DEF ParserTimeout, ParserNotify, DrainNotify, ParserLast, MaybeNotify, Flush, shownVars, windowVars, Types,
       ParserTypes, NotifyTypes
  <2>3. CASE \/ ParserCheck \/ ParserEof \/ ParseOther \/ ParserKeep \/ ParserSettle \/ ParserCoalesce
             \/ \E n \in 1..ReadMax : ParserRead(n) \/ DrainRead(n)
    BY <2>3 DEF ParserCheck, ParserEof, ParseOther, ParserKeep, ParserSettle, ParserCoalesce, ParserRead,
       DrainRead, notifyVars, shownVars, windowVars
  <2>. QED BY <1>5, <2>1, <2>2, <2>3 DEF Parser
<1>. QED BY <1>2, <1>3, <1>4, <1>5 DEF Next

-----------------------------------------------------------------------------
LEMMA InitLine ==
  ASSUME Init
  PROVE  /\ InFlight = <<>> /\ InFlight \o pty = <<>> /\ exitWhy \notin Lossy
         /\ applied = <<>> /\ rescued = <<>> /\ pane # "gone"
<1>. DEFINE e == <<>>
<1>1. e \in Seq(Item) /\ e \o e = e
  OBVIOUS
<1>2. actions = e /\ chunk = e /\ sock = e /\ rbuf = e /\ pty = e
  BY DEF Init
<1>. HIDE DEF e
<1>3. InFlight = e /\ InFlight \o pty = e
  BY <1>1, <1>2 DEF InFlight
<1>. QED BY <1>3 DEF e, Init, Lossy

LEMMA InitInvariant == Init => IInv
<1>. SUFFICES ASSUME Init PROVE IInv
  OBVIOUS
<1>. USE DEF Init
<1>1. /\ Len(<<>>) = 0 /\ <<>> \in Seq(Item) /\ 0 \in Nat
      /\ 0 \in 0..Len(<<>>) /\ Len(<<>>) <= 0 /\ 0 \in 0..ReadMax
  BY SizesAssumption
<1>2. Types
  <2>1. PtyTypes /\ ReaderTypes
    BY <1>1 DEF PtyTypes, ReaderTypes, ReaderPc
  <2>2. SockTypes
    BY <1>1, SizesAssumption DEF SockTypes
  <2>3. ParserTypes
    BY <1>1 DEF ParserTypes, ParserPc
  <2>4. NotifyTypes /\ PaneTypes
    BY <1>1 DEF NotifyTypes, PaneTypes
  <2>. QED BY <2>1, <2>2, <2>3, <2>4 DEF Types
<1>3. Holders /\ Reasons /\ Ends /\ NoneLeft
  BY DEF Holders, Reasons, Ends, NoneLeft, Bound, ReaderOver
<1>4. Conserved
  <2>1. Join(<<>>, <<>>) = <<>>
    BY JoinTypes, EmptySeq
  <2>. QED BY <2>1 DEF Conserved, Flow, Coming
<1>5. Counted
  BY <1>1 DEF Counted, Bound, BufferBounded
<1>6. NoStuckFrame
  BY <1>1 DEF NoStuckFrame
<1>7. Ordered
  <2>. DEFINE e == <<>>
  <2>1. /\ e \in Seq(Item) /\ e \in Seq({x \in Item : x.k \in Kinds}) /\ Join(e, e) = e
        /\ \A ks : Only(e, ks) = e
    BY JoinTypes, EmptySeq, OnlyByOne
  <2>2. /\ applied = e /\ rescued = e /\ produced = e /\ pty = e /\ actions = e /\ chunk = e
        /\ sock = e /\ rbuf = e /\ pane # "gone"
    OBVIOUS
  <2>. HIDE DEF e
  <2>3. All = e
    BY <2>1, <2>2 DEF All, Coming
  <2>4. OrderOf(Kinds) /\ OrderOf({"var"})
    BY <2>1, <2>2, <2>3 DEF OrderOf
  <2>. QED BY <2>1, <2>2, <2>4 DEF Ordered, e
<1>8. Frames
  <2>1. Join(applied, actions) = <<>> /\ Len(<<>>) = 0
    BY JoinTypes, EmptySeq
  <2>. QED BY <2>1 DEF Frames, OpenFrame
<1>. QED BY <1>2, <1>3, <1>4, <1>5, <1>6, <1>7, <1>8 DEF IInv

\* The invariant: the types, who holds what and why, and how it is counted.
THEOREM Invariant == Spec => []IInv
<1>1. Init => IInv
  BY InitInvariant
<1>2. IInv /\ [Next]_vars => IInv'
  <2>1. SUFFICES ASSUME IInv, [Next]_vars PROVE IInv'
    OBVIOUS
  <2>. QED BY <2>1, TypesStay, HoldersStay, ReasonsStay, EndsStay, NoneLeftStays, ConservedStay, OrderedStay, CountedStay,
           FramesStay, NoStuckStays DEF IInv
<1>. QED BY <1>1, <1>2, PTL DEF Spec

\* Types, and the capacities of the two buffers a read fills.
THEOREM TypeCorrect == Spec => []TypeOK
<1>1. IInv => TypeOK
  BY DEF IInv, Types, PtyTypes, ReaderTypes, SockTypes, ParserTypes, NotifyTypes, PaneTypes, TypeOK
<1>. QED BY <1>1, Invariant, PTL

\* A sequence begins what it and another make.
LEMMA JoinBegins ==
  ASSUME NEW S, NEW s \in Seq(S), NEW t \in Seq(S)
  PROVE  IsPrefixOf(s, Join(s, t))
BY DEF IsPrefixOf, Front, Join

\* Whatever the chunks, flushes, holds and drains, the output of the child is
\* performed in order, nothing twice and nothing left out between two items that
\* are; and so are the SetUserVar alerts, by the pane or without it.  What is still
\* with the threads or in the socketpair may stay there, when the pane was removed.
THEOREM AlwaysInOrder == Spec => []InOrder
<1>1. ASSUME IInv
      PROVE  InOrder
  <2>1. /\ applied \in Seq(Item) /\ rescued \in Seq(Item) /\ actions \in Seq(Item)
        /\ chunk \in Seq(Item) /\ sock \in Seq(Item) /\ rbuf \in Seq(Item)
        /\ Coming \in Seq(Item)
    BY <1>1, WayTypes DEF IInv
  <2>2. /\ \A s, t, u \in Seq(Item) : Join(s, Join(t, u)) = Join(Join(s, t), u)
        /\ \A s, t \in Seq(Item) : Join(s, t) \in Seq(Item)
        /\ \A s \in Seq(Item) : Join(<<>>, s) = s
    BY JoinAssociative, JoinTypes
  <2>4. InFlight = Coming
    BY <1>1, InFlightComing DEF IInv
  <2>5. applied \o rescued \o InFlight = All
    <3>1. applied \o rescued \o InFlight = Join(Join(applied, rescued), Coming)
      BY <2>4 DEF Join
    <3>. QED BY <2>1, <2>2, <3>1 DEF All
  <2>6. ASSUME NEW ks, OrderOf(ks)
        PROVE  IsPrefixOf(Only(All, ks), Only(produced, ks))
    <3>1. PICK t \in Seq(Item) : Join(Only(All, ks), t) = Only(produced, ks)
      BY <2>6 DEF OrderOf
    <3>2. Join(rescued, Coming) \in Seq(Item)
      BY <2>1, <2>2
    <3>3. All \in Seq(Item)
      BY <2>1, <2>2, <3>2 DEF All
    <3>4. Only(All, ks) \in Seq(Item)
      BY <3>3, OnlyTypes
    <3>. QED BY <3>1, <3>4, JoinBegins
  <2>7. Only(produced, Kinds) = produced
    BY <1>1, OnlyOfOnly DEF IInv, Ordered
  <2>8. IsPrefixOf(FromChild(IF pane = "gone" THEN applied ELSE applied \o InFlight), produced)
    <3>1. CASE pane = "gone"
      <4>1. PICK t \in Seq(Item) : Join(FromChild(applied), t) = produced
        BY <1>1, <3>1 DEF IInv, Ordered
      <4>2. FromChild(applied) \in Seq(Item)
        BY <2>1, OnlyTypes DEF FromChild
      <4>3. IsPrefixOf(FromChild(applied), produced)
        BY <4>1, <4>2, JoinBegins
      <4>. QED BY <3>1, <4>3
    <3>2. CASE pane # "gone"
      <4>1. rescued = <<>> /\ OrderOf(Kinds)
        BY <1>1, <3>2 DEF IInv, Ordered
      <4>2. applied \o InFlight = All
        BY <2>1, <2>2, <2>4, <4>1 DEF All, Join
      <4>. QED BY <2>6, <2>7, <3>2, <4>1, <4>2 DEF FromChild
    <3>. QED BY <3>1, <3>2
  <2>9. IsPrefixOf(Vars(applied \o rescued \o InFlight), Vars(produced))
    BY <1>1, <2>5, <2>6 DEF IInv, Ordered, Vars
  <2>. QED BY <2>8, <2>9 DEF InOrder
<1>. QED BY <1>1, Invariant, PTL

\* The reader, the parser and the socketpair are one queue from the pty to the
\* pane, which loses at most its end: every step is a step of OutputQueue or none.
THEOREM ThreadsAreAQueue == Spec => Implements
<1>1. Init => Queue!Init
  BY InitLine DEF Queue!Init
<1>2. IInv /\ IInv' /\ [Next]_vars => [Queue!Next]_(Queue!vars)
  <2>1. SUFFICES ASSUME IInv, IInv', [Next]_vars PROVE [Queue!Next]_(Queue!vars)
    OBVIOUS
  <2>2. Types /\ Types' /\ Holders /\ Reasons
    BY <2>1 DEF IInv
  <2>3. Line = (IF exitWhy \in Lossy THEN InFlight ELSE InFlight \o pty)
    BY <2>2, LineTypes
  <2>4. CASE Parser
    BY <2>2, <2>3, <2>4, QueueByParser DEF Queue!Next
  <2>5. CASE Reader
    BY <2>2, <2>3, <2>5, QueueByReader DEF Queue!Next
  <2>. QED BY <2>1, <2>2, <2>4, <2>5, QueueByOthers DEF Next
<1>. QED BY <1>1, <1>2, Invariant, PTL DEF Implements, Queue!Spec, Spec

\* A step that performs actions ends outside every frame of synchronized output,
\* unless the hold is exceeded, a second begin renews it or the stream is over.
THEOREM FramesWhole == Spec => FrameAtomic
<1>. DEFINE Atomic == applied' # applied =>
               \/ ~ OpenFrame(applied')
               \/ chunk = <<>> /\ HoldExceeded(actionSize + nread)
               \/ chunk # <<>> /\ Head(chunk).k = "bsu"
               \/ parserPc \in {"drain", "leave"}
<1>1. ASSUME IInv, Next
      PROVE  Atomic
  <2>1. Types /\ Types' /\ applied \in Seq(Item) /\ actions \in Seq(Item)
    BY <1>1, TypesStay, WayTypes DEF IInv
  <2>2. CASE ParserSend
    <3>1. applied' = applied \/ (applied' = Join(applied, actions) /\ pane # "gone")
      BY <2>2 DEF ParserSend, SendActions, Join
    <3>2. parserPc = "settle" /\ ~ hold
      BY <1>1, <2>2 DEF ParserSend, IInv, Counted
    <3>. QED BY <1>1, <3>1, <3>2 DEF IInv, Frames, Bound
  <2>3. CASE ParseEsu
    <3>1. /\ Head(chunk).k = "esu" /\ Head(chunk) \in Item
          /\ applied' = applied \/ applied' = Join(applied, Append(actions, Head(chunk)))
      BY <2>1, <2>3, HeadFirst, WayTypes DEF ParseEsu, SendActions, Join
    <3>2. Join(applied, Append(actions, Head(chunk))) = Append(Join(applied, actions), Head(chunk))
          /\ Join(applied, actions) \in Seq(Item)
      BY <2>1, <3>1, AppendBehind
    <3>. QED BY <2>1, <3>1, <3>2, Closing
  <2>4. CASE ParseBsu \/ ParserForce \/ DrainSend \/ ParserLeave
    BY <2>4 DEF ParseBsu, ParserForce, DrainSend, ParserLeave
  <2>5. CASE \/ ParserCheck \/ ParserTimeout \/ ParserEof \/ ParseOther \/ ParserKeep \/ ParserSettle
             \/ ParserCoalesce \/ ParserNotify \/ DrainNotify \/ ParserLast
             \/ \E n \in 1..ReadMax : ParserRead(n) \/ DrainRead(n)
    <3>1. applied' = applied
      BY <2>5 DEF ParserCheck, ParserTimeout, ParserEof, ParseOther, ParserKeep, ParserSettle,
         ParserCoalesce, ParserNotify, DrainNotify, ParserLast, ParserRead, DrainRead, shownVars
    <3>. QED BY <3>1
  <2>6. CASE Environment \/ HoldAges \/ Window
    <3>1. applied' = applied
      BY <2>6, OutsideLeaves
    <3>. QED BY <3>1
  <2>7. CASE Reader
    <3>1. applied' = applied
      BY <1>1, <2>1, <2>7, ReaderPasses DEF IInv
    <3>. QED BY <3>1
  <2>. QED BY <1>1, <2>2, <2>3, <2>4, <2>5, <2>6, <2>7 DEF Next, Parser
<1>2. IInv /\ [Next]_vars => [Atomic]_vars
  BY <1>1
<1>3. Spec => [][Atomic]_vars
  BY <1>2, Invariant, PTL DEF Spec
<1>. QED BY <1>3 DEF FrameAtomic

\* "The final rendered state is never stuck in a suppressed slot" (lib.rs:491).
THEOREM NothingStuck == Spec => []NoStuckFrame
<1>1. IInv => NoStuckFrame
  BY DEF IInv
<1>. QED BY <1>1, Invariant, PTL

\* Between two reads the parser keeps no more than its cap, held or not.
THEOREM BufferKeepsCap == Spec => []BufferBounded
<1>1. IInv => BufferBounded
  BY DEF IInv, Counted
<1>. QED BY <1>1, Invariant, PTL

\* Of a pane that is there nothing is lost, doubled or out of order on the way from
\* the pty to the screen, unless the reader could not get rid of it: what was not
\* performed is with the threads, in the socketpair or in the pty, in order.
THEOREM NothingLost == Spec => []Conserved
<1>1. IInv => Conserved
  BY DEF IInv
<1>. QED BY <1>1, Invariant, PTL

\* When the parser is through after the pty hung up, a pane that is still there
\* shows all that was written to it, and of any other every SetUserVar alert got out.
THEOREM CompleteAtEnd == Spec => []CompleteAtHangup
<1>1. IInv => CompleteAtHangup
  <2>. SUFFICES ASSUME IInv, parserPc = "done", exitWhy = "eof"
                PROVE  /\ pane = "registered" => applied = produced
                       /\ Vars(applied \o rescued) = Vars(produced)
    BY DEF CompleteAtHangup
  <2>1. /\ applied \in Seq(Item) /\ rescued \in Seq(Item) /\ produced \in Seq(Item)
        /\ Only(applied \o rescued, {"var"}) \in Seq(Item)
    BY OnlyTypes, ConcatProperties DEF IInv, Types, PaneTypes, PtyTypes
  <2>2. rbuf = <<>> /\ chunk = <<>> /\ pty = <<>> /\ sock = <<>> /\ actions = <<>>
    BY DEF IInv, Holders, Reasons, NoneLeft, Ends, Bound
  <2>3. Join(<<>>, <<>>) = <<>> /\ \A s \in Seq(Item) : Join(s, <<>>) = s
    BY JoinTypes, EmptySeq
  <2>4. Coming = <<>>
    BY <2>2, <2>3 DEF Coming
  <2>5. ASSUME pane = "registered" PROVE applied = produced
    <3>1. Flow = produced
      BY <2>5 DEF IInv, Conserved, Lossy
    <3>. QED BY <2>1, <2>2, <2>3, <2>4, <3>1 DEF Flow
  <2>6. Vars(applied \o rescued) = Vars(produced)
    <3>1. PICK t \in Seq(Item) : /\ Join(Only(All, {"var"}), t) = Only(produced, {"var"})
                                 /\ t = Only(pty, {"var"})
      BY DEF IInv, Ordered, OrderOf, Lossy
    <3>2. Only(<<>>, {"var"}) = <<>>
      BY OnlyByOne
    <3>3. All = applied \o rescued
      <4>1. Join(rescued, <<>>) = rescued
        BY <2>1, <2>3
      <4>. QED BY <2>4, <4>1 DEF All, Join
    <3>4. t = <<>> /\ Only(produced, {"var"}) = Join(Only(applied \o rescued, {"var"}), t)
      BY <2>2, <3>1, <3>2, <3>3
    <3>. QED BY <2>1, <2>3, <3>4 DEF Vars
  <2>. QED BY <2>5, <2>6
<1>. QED BY <1>1, Invariant, PTL
=============================================================================

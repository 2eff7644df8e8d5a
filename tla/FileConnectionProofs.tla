---- MODULE FileConnectionProofs ----
(* What a file connection keeps, for every set of recordings, every mode and limit.  *)
(* The operators of the tape loop over the recording (Loop): that a loop is defined  *)
(* by its steps, keeps what each step keeps and comes to its end is shown by         *)
(* induction on the steps (SetInduction: over a set of numbers, which the provers    *)
(* can be given).  A tape is Kept when the list in memory follows the file and the   *)
(* table holds what the file describes before the current entry; asking for the      *)
(* length needs, besides, that the tape never stands before the message where reset  *)
(* takes it (Begun).                                                                 *)
EXTENDS FileConnection, FiniteSetTheorems, SequenceTheorems, TLAPS

----------------------------------------------------------------------------
(* Induction, and functions that are defined along the numbers. *)

Below(n) == 1 .. n

\* A set of numbers has a least member: no set of intervals is without a smallest one.
LEMMA Least ==
  ASSUME NEW T \in SUBSET Nat, T # {}
  PROVE  \E m \in T : \A n \in T : m <= n
<1> DEFINE F == {Below(n) : n \in T}
           R == StrictSubsetOrdering(Nat)
<1>1. \A n \in T : Below(n) \in FiniteSubsetsOf(Nat)
  <2>1. \A n \in T : IsFiniteSet(Below(n)) /\ Below(n) \subseteq Nat
    BY FS_Interval DEF Below
  <2> QED
    BY <2>1 DEF FiniteSubsetsOf
<1>2. F \subseteq FiniteSubsetsOf(Nat) /\ F # {}
  BY <1>1
<1>3. IsWellFoundedOn(R, FiniteSubsetsOf(Nat))
  BY FS_StrictSubsetOrderingWellFounded
<1> HIDE DEF F, R
<1>4. PICK x \in F : \A y \in F : <<y, x>> \notin R
  BY <1>2, <1>3, WFMin
<1>5. PICK m \in T : x = Below(m)
  BY DEF F
<1>6. ASSUME NEW n \in T, n < m PROVE FALSE
  <2>1. <<Below(n), Below(m)>> \notin R
    BY <1>4, <1>5 DEF F
  <2>2. Below(n) \subseteq Below(m) /\ m \in Below(m) /\ m \notin Below(n)
    BY <1>6 DEF Below
  <2>3. Below(n) \subseteq Nat /\ Below(m) \subseteq Nat
    BY DEF Below
  <2> QED
    BY <2>1, <2>2, <2>3 DEF R, StrictSubsetOrdering
<1> QED
  BY <1>6

\* Induction over the members of a set.
LEMMA SetInduction ==
  ASSUME NEW S, 0 \in S, \A n \in Nat : n \in S => n + 1 \in S
  PROVE  Nat \subseteq S
<1> SUFFICES ASSUME Nat \ S # {} PROVE FALSE
  OBVIOUS
<1>1. PICK m \in Nat \ S : \A n \in Nat \ S : m <= n
  BY Least
<1>2. m # 0 /\ m - 1 \in Nat
  OBVIOUS
<1>3. m - 1 \in S
  BY <1>1, <1>2
<1> QED
  BY <1>2, <1>3

\* Repeating a function.
Repetition(S, f, t, N, g) ==
    g \in [0 .. N -> S] /\ g[0] = t /\ \A n \in 1 .. N : g[n] = f[g[n - 1]]

LEMMA Repeats ==
  ASSUME NEW S, NEW f \in [S -> S], NEW t \in S, NEW N \in Nat
  PROVE  \E g : Repetition(S, f, t, N, g)
<1> DEFINE Has(n) == \E g \in [0 .. n -> S] : /\ g[0] = t
                                  /\ \A i \in 1 .. n : g[i] = f[g[i - 1]]
           D == {n \in Nat : Has(n)}
<1>1. 0 \in D
  <2> DEFINE g == [i \in 0 .. 0 |-> t]
  <2>1. g \in [0 .. 0 -> S] /\ g[0] = t
    OBVIOUS
  <2>2. \A i \in 1 .. 0 : g[i] = f[g[i - 1]]
    OBVIOUS
  <2> HIDE DEF g
  <2>3. Has(0)
    BY <2>1, <2>2
  <2> QED
    BY <2>3
<1>2. ASSUME NEW n \in Nat, n \in D PROVE n + 1 \in D
  <2>1. PICK g \in [0 .. n -> S] : g[0] = t /\ \A i \in 1 .. n : g[i] = f[g[i - 1]]
    BY <1>2
  <2> DEFINE h == [i \in 0 .. n + 1 |-> IF i <= n THEN g[i] ELSE f[g[n]]]
  <2>2. h \in [0 .. n + 1 -> S]
    OBVIOUS
  <2>3. h[0] = t
    BY <2>1
  <2>4. \A i \in 1 .. n + 1 : h[i] = f[h[i - 1]]
    BY <2>1
  <2> HIDE DEF h
  <2>5. Has(n + 1)
    BY <2>2, <2>3, <2>4
  <2> QED
    BY <2>5
<1> HIDE DEF D
<1>3. Nat \subseteq D
  BY <1>1, <1>2, SetInduction
<1> QED
  BY <1>3 DEF D, Repetition

----------------------------------------------------------------------------
(* The list and the position of the file. *)

FileOK ==
    /\ file \in Seq(Entry) /\ file # <<>>
    /\ mode \in {"preload", "accumulate", "neither"} /\ skip \in BOOLEAN

Places == 1 .. Len(file)

Typed(t) == /\ t \in Tape /\ t.cur \in 0 .. Len(t.list)
            /\ t.list \in Seq(Places)

\* ListFollowsFile of tape t, d saying whether the file has been set back under what
\* is in memory; its first entries are in memory as they are in the file also then.
Follows(t, d) ==
    LET n == Len(t.list) IN
    /\ d => mode = "accumulate" /\ n >= Len(file)
    /\ mode = "preload" => n = Len(file)
    /\ mode # "neither" => t.list # <<>>
    /\ mode # "neither" => \A i \in 1 .. n : i <= Len(file) => t.list[i] = i
    /\ mode # "neither" /\ ~d => t.list = [i \in 1 .. n |-> i] /\ t.next = n + 1
    /\ mode = "neither" /\ t.cur # 0 => n = 1 /\ t.next = t.list[1] + 1
    /\ t.cur = 0 => t.next > Len(file)

Sound(t, d) == Typed(t) /\ Follows(t, d)

\* What is in memory stays there while more is read.
Extends(u, t) ==
    /\ mode = "preload" => u.list = t.list /\ u.next = t.next
    /\ mode # "neither" => /\ Len(t.list) <= Len(u.list)
                           /\ \A i \in 1 .. Len(t.list) : u.list[i] = t.list[i]
    /\ mode # "neither" /\ t.next > Len(file) => u.list = t.list /\ u.next = t.next

WithList(t, l, n) == [t EXCEPT !.list = l, !.next = n]

LEMMA TapeRead ==
  ASSUME NEW t \in Tape, NEW l \in Seq(Nat \ {0}), NEW n \in Nat \ {0}
  PROVE  /\ WithList(t, l, n) \in Tape /\ WithList(t, l, n).list = l
         /\ WithList(t, l, n).next = n /\ WithList(t, l, n).cur = t.cur
         /\ WithList(t, l, n).table = t.table
         /\ WithList(t, l, n).straight = t.straight /\ WithList(t, l, n).time = t.time
<1> DEFINE r == [t EXCEPT !.list = l, !.next = n]
<1>1. /\ r.list = l /\ r.next = n /\ r.cur = t.cur
      /\ r.table = t.table /\ r.straight = t.straight /\ r.time = t.time
  BY DEF Tape
<1>2. r \in Tape
  BY DEF Tape
<1> QED
  BY <1>1, <1>2 DEF WithList

LEMMA TapeMoved ==
  ASSUME NEW t \in Tape, NEW c \in Nat
  PROVE  LET r == [t EXCEPT !.cur = c] IN
         /\ r \in Tape /\ r.list = t.list /\ r.next = t.next /\ r.cur = c
         /\ r.table = t.table /\ r.straight = t.straight /\ r.time = t.time
BY DEF Tape

LEMMA AdvanceSound ==
  ASSUME FileOK, NEW t, NEW d, Sound(t, d), t.cur # 0
  PROVE  /\ Sound(Advance(t), d) /\ Extends(Advance(t), t)
         /\ Advance(t).table = t.table /\ Advance(t).straight = t.straight
         /\ Advance(t).time = t.time
         /\ ~d \/ t.cur < Len(file) => Place(Advance(t)) = Place(t) + 1
<1> DEFINE u == Advance(t)
           n == Len(t.list)
<1>1. /\ t \in Tape /\ t.list \in Seq(Places) /\ t.cur \in 1 .. n /\ n \in Nat
      /\ t.next \in Nat \ {0} /\ Len(file) \in Nat
  BY DEF Sound, Typed, FileOK, Tape
<1>2. CASE t.cur < n
  <2>1. u = [t EXCEPT !.cur = t.cur + 1]
    BY <1>2 DEF Advance
  <2>2. /\ u.list = t.list /\ u.next = t.next /\ u.cur = t.cur + 1
        /\ u.table = t.table /\ u.straight = t.straight /\ u.time = t.time
        /\ u \in Tape
    BY SMTT(30), <1>1, <2>1 DEF Tape
  <2> HIDE DEF u
  <2>3. Sound(u, d)
    BY <1>1, <1>2, <2>2 DEF Sound, Typed, Follows
  <2>4. Extends(u, t)
    BY <1>1, <2>2 DEF Extends
  <2>5. ~d \/ t.cur < Len(file) => Place(u) = Place(t) + 1
    <3>1. mode # "neither"
      <4>1. mode = "neither" => n = 1
        BY DEF Sound, Follows
      <4>2. n # 1
        <5>1. t.cur \in 1 .. n /\ n \in Nat
          BY <1>1
        <5> HIDE DEF n
        <5> QED
          BY <1>2, <5>1
      <4> QED
        BY <4>1, <4>2
    <3>2. ~d => t.list[t.cur] = t.cur /\ t.list[t.cur + 1] = t.cur + 1
      BY <1>1, <1>2, <3>1 DEF Sound, Follows
    <3>3. t.cur < Len(file) => t.list[t.cur] = t.cur /\ t.list[t.cur + 1] = t.cur + 1
      BY <1>1, <1>2, <3>1 DEF Sound, Follows
    <3>4. Place(u) = t.list[t.cur + 1] /\ Place(t) = t.list[t.cur]
      BY <1>1, <1>2, <2>2 DEF Place
    <3> QED
      BY <3>2, <3>3, <3>4
  <2> QED
    BY <2>2, <2>3, <2>4, <2>5 DEF u
<1>3. CASE t.cur = n /\ (mode = "preload" \/ t.next > Len(file))
  <2>1. u = [t EXCEPT !.cur = 0]
    BY <1>1, <1>3 DEF Advance
  <2>2. /\ u.list = t.list /\ u.next = t.next /\ u.cur = 0
        /\ u.table = t.table /\ u.straight = t.straight /\ u.time = t.time
        /\ u \in Tape
    BY SMTT(30), <1>1, <2>1 DEF Tape
  <2> HIDE DEF u
  <2>3. Sound(u, d)
    BY <1>1, <1>3, <2>2 DEF Sound, Typed, Follows
  <2>4. Extends(u, t)
    BY <1>1, <2>2 DEF Extends
  <2>5. ~d \/ t.cur < Len(file) => Place(u) = Place(t) + 1
    BY <1>1, <1>3, <2>2 DEF Sound, Follows, Place, FileOK, Places
  <2> QED
    BY <2>2, <2>3, <2>4, <2>5 DEF u
<1>4. CASE t.cur = n /\ mode # "preload" /\ t.next <= Len(file)
  <2>1. CASE mode = "neither"
    <3>1. ReadEntry(t) = [t EXCEPT !.list = <<t.next>>, !.next = t.next + 1]
      BY <1>1, <1>4, <2>1 DEF ReadEntry
    <3>2. u = [ReadEntry(t) EXCEPT !.cur = Len(ReadEntry(t).list)]
      BY <1>1, <1>4 DEF Advance
    <3>3. /\ u.list = <<t.next>> /\ u.next = t.next + 1 /\ u.cur = 1
          /\ u.table = t.table /\ u.straight = t.straight /\ u.time = t.time
          /\ u \in Tape
      <4>1. <<t.next>> \in Seq(Nat \ {0}) /\ Len(<<t.next>>) = 1
        BY <1>1
      <4>2. t.next + 1 \in Nat \ {0} /\ 1 \in Nat
        BY <1>1
      <4>3. /\ ReadEntry(t) \in Tape /\ ReadEntry(t).list = <<t.next>>
            /\ ReadEntry(t).next = t.next + 1 /\ ReadEntry(t).table = t.table
            /\ ReadEntry(t).straight = t.straight /\ ReadEntry(t).time = t.time
        <5> DEFINE l == <<t.next>>
                   k == t.next + 1
        <5>1. ReadEntry(t) = WithList(t, l, k)
          BY <3>1 DEF WithList
        <5>2. t \in Tape /\ l \in Seq(Nat \ {0}) /\ k \in Nat \ {0}
          BY <1>1, <4>1, <4>2
        <5> HIDE DEF l, k
        <5>3. /\ ReadEntry(t) \in Tape /\ ReadEntry(t).list = l
              /\ ReadEntry(t).next = k /\ ReadEntry(t).table = t.table
              /\ ReadEntry(t).straight = t.straight /\ ReadEntry(t).time = t.time
          BY <5>1, <5>2, TapeRead
        <5> QED
          BY <5>3 DEF l, k
      <4> HIDE DEF u
      <4>4. u = [ReadEntry(t) EXCEPT !.cur = 1]
        BY <3>2, <4>1, <4>3
      <4> QED
        BY <4>2, <4>3, <4>4, TapeMoved
    <3> HIDE DEF u
    <3>4. Sound(u, d)
      BY <1>1, <1>4, <2>1, <3>3 DEF Sound, Typed, Follows, Places
    <3>5. Extends(u, t)
      BY <2>1 DEF Extends
    <3>6. Place(u) = Place(t) + 1
      BY <1>1, <1>4, <2>1, <3>3 DEF Sound, Follows, Place
    <3> QED
      BY <3>3, <3>4, <3>5, <3>6 DEF u
  <2>2. CASE mode = "accumulate"
    <3>1. ReadEntry(t) = [t EXCEPT !.list = Append(t.list, t.next), !.next = t.next + 1]
      BY <1>1, <1>4, <2>2 DEF ReadEntry
    <3>2. u = [ReadEntry(t) EXCEPT !.cur = Len(ReadEntry(t).list)]
      BY <1>1, <1>4 DEF Advance
    <3>3. /\ u.list = Append(t.list, t.next) /\ u.next = t.next + 1 /\ u.cur = n + 1
          /\ u.table = t.table /\ u.straight = t.straight /\ u.time = t.time
          /\ u \in Tape
      <4>1. /\ Append(t.list, t.next) \in Seq(Nat \ {0})
            /\ Len(Append(t.list, t.next)) = n + 1
        BY <1>1 DEF Places
      <4>2. t.next + 1 \in Nat \ {0} /\ n + 1 \in Nat
        BY <1>1
      <4>3. /\ ReadEntry(t) \in Tape /\ ReadEntry(t).list = Append(t.list, t.next)
            /\ ReadEntry(t).next = t.next + 1 /\ ReadEntry(t).table = t.table
            /\ ReadEntry(t).straight = t.straight /\ ReadEntry(t).time = t.time
        <5> DEFINE l == Append(t.list, t.next)
                   k == t.next + 1
        <5>1. ReadEntry(t) = WithList(t, l, k)
          BY <3>1 DEF WithList
        <5>2. t \in Tape /\ l \in Seq(Nat \ {0}) /\ k \in Nat \ {0}
          BY <1>1, <4>1, <4>2
        <5> HIDE DEF l, k
        <5>3. /\ ReadEntry(t) \in Tape /\ ReadEntry(t).list = l
              /\ ReadEntry(t).next = k /\ ReadEntry(t).table = t.table
              /\ ReadEntry(t).straight = t.straight /\ ReadEntry(t).time = t.time
          BY <5>1, <5>2, TapeRead
        <5> QED
          BY <5>3 DEF l, k
      <4> HIDE DEF u
      <4>4. u = [ReadEntry(t) EXCEPT !.cur = n + 1]
        BY <3>2, <4>1, <4>3
      <4> QED
        BY <4>2, <4>3, <4>4, TapeMoved
    <3> HIDE DEF u
    <3>4. Len(u.list) = n + 1 /\ u.list \in Seq(Places) /\ u.list[n + 1] = t.next
          /\ \A i \in 1 .. n : u.list[i] = t.list[i]
      BY <1>1, <1>4, <3>3 DEF Places
    <3>5. ~d => u.list = [i \in 1 .. n + 1 |-> i] /\ u.next = n + 2
      BY <1>1, <2>2, <3>3, <3>4 DEF Sound, Follows
    <3>6. Sound(u, d)
      BY <1>1, <2>2, <3>3, <3>4, <3>5 DEF Sound, Typed, Follows
    <3>7. Extends(u, t)
      BY <1>1, <1>4, <2>2, <3>4 DEF Extends
    <3>8. ~d \/ t.cur < Len(file) => Place(u) = Place(t) + 1
      BY <1>1, <1>4, <2>2, <3>3, <3>4 DEF Sound, Follows, Place
    <3> QED
      BY <2>2, <3>3, <3>6, <3>7, <3>8 DEF u
  <2> QED
    BY <1>4, <2>1, <2>2 DEF FileOK
<1> QED
  BY <1>1, <1>2, <1>3, <1>4

LEMMA ExtendsTransitive ==
  ASSUME NEW t, NEW u, NEW v, Len(t.list) \in Nat, Len(u.list) \in Nat,
         Len(v.list) \in Nat, Extends(u, t), Extends(v, u)
  PROVE  Extends(v, t)
BY DEF Extends

\* Setting the time changes nothing else.
WithTime(t, time) == [t EXCEPT !.time = time]

LEMMA TimeSet ==
  ASSUME NEW t \in Tape, NEW time \in Nat
  PROVE  /\ WithTime(t, time) \in Tape /\ WithTime(t, time).list = t.list
         /\ WithTime(t, time).next = t.next /\ WithTime(t, time).cur = t.cur
         /\ WithTime(t, time).table = t.table
         /\ WithTime(t, time).straight = t.straight /\ WithTime(t, time).time = time
BY DEF Tape, WithTime

\* What is sound depends on the list, the current entry and the position.
LEMMA SoundAlike ==
  ASSUME NEW t, NEW u \in Tape, NEW d, Sound(t, d),
         u.list = t.list, u.cur = t.cur, u.next = t.next
  PROVE  Sound(u, d) /\ Place(u) = Place(t) /\ Extends(u, t)
BY DEF Sound, Typed, Follows, Place, Extends

LEMMA CurrentEntry ==
  ASSUME FileOK, NEW t, NEW d, Sound(t, d), t.cur # 0
  PROVE  /\ Place(t) \in Places /\ Current(t) = file[Place(t)]
         /\ Current(t) \in Entry /\ Current(t).time \in Nat
<1>1. t.list \in Seq(Places) /\ t.cur \in 1 .. Len(t.list)
  BY DEF Sound, Typed
<1>2. Place(t) \in Places /\ Current(t) = file[Place(t)]
  BY <1>1 DEF Place, Current
<1>3. Current(t) \in Entry
  BY <1>2 DEF FileOK, Places
<1> QED
  BY <1>2, <1>3 DEF Entry

LEMMA PlaceInRange ==
  ASSUME FileOK, NEW t, NEW d, Sound(t, d)
  PROVE  Place(t) \in 1 .. Len(file) + 1
<1>1. CASE t.cur = 0
  BY <1>1 DEF Place, FileOK
<1>2. CASE t.cur # 0
  BY <1>2, CurrentEntry DEF Places, FileOK
<1> QED
  BY <1>1, <1>2

----------------------------------------------------------------------------
(* The table of names. *)

\* tab holds what the entries before place p describe.
RightAt(tab, p) == \A n \in Num : tab[n] = Described(p, n)

\* The entries that say what number n stands for.
Says(i, n) == file[i].kind = "disconnect" \/ (file[i].kind = "describe" /\ file[i].num = n)

Said(p, n) == {0} \cup {i \in 1 .. p - 1 : Says(i, n)}

LEMMA DescribedIs ==
  ASSUME NEW p, NEW n
  PROVE  Described(p, n) = IF \/ Max(Said(p, n)) = 0
                              \/ file[Max(Said(p, n))].kind = "disconnect"
                           THEN NoName ELSE file[Max(Said(p, n))].name
BY Zenon DEF Described, Said, Says

\* Entries that say nothing of a number change nothing of it.
LEMMA DescribedOn ==
  ASSUME NEW p \in Nat, NEW q \in Nat, NEW n, p <= q, p > 0,
         \A i \in p .. q - 1 : ~Says(i, n)
  PROVE  Described(q, n) = Described(p, n)
<1>1. Said(q, n) = Said(p, n)
  BY DEF Said
<1> QED
  BY <1>1, DescribedIs

\* The entry that does is the last one.
LEMMA DescribedLast ==
  ASSUME NEW p \in Nat, p > 0, NEW n, Says(p, n)
  PROVE  Described(p + 1, n) = IF file[p].kind = "disconnect" THEN NoName ELSE file[p].name
<1>1. p \in Said(p + 1, n) /\ \A i \in Said(p + 1, n) : i \in Nat /\ p >= i
  BY DEF Said
<1> DEFINE IsMax(x) == x \in Said(p + 1, n) /\ \A i \in Said(p + 1, n) : x >= i
<1>2. Max(Said(p + 1, n)) = CHOOSE x : IsMax(x)
  BY Zenon DEF Max
<1>3. IsMax(p) /\ \A x : IsMax(x) => x = p
  BY <1>1
<1> HIDE DEF IsMax
<1>4. Max(Said(p + 1, n)) = p
  BY <1>2, <1>3
<1> QED
  BY <1>4, DescribedIs

LEMMA DescribedFirst ==
  ASSUME NEW n
  PROVE  Described(1, n) = NoName
<1>1. Said(1, n) = {0}
  BY DEF Said
<1>2. Max({0}) = 0
  BY DEF Max
<1> QED
  BY <1>1, <1>2, DescribedIs

NamesRight(t, d) == t.straight /\ ~d => RightAt(t.table, Place(t))

\* When it starts with the first user message, the tape is never before it.
UserUpTo(p) ==
    p = Len(file) + 1 \/ \E j \in Places : j <= p /\ file[j].kind = "user"

Begun(t, d) == skip /\ ~d /\ ~Hung => UserUpTo(Place(t))

Kept(t, d) == Sound(t, d) /\ NamesRight(t, d)

WithTable(t, time, tab) == [t EXCEPT !.time = time, !.table = tab]

LEMMA TableSet ==
  ASSUME NEW t \in Tape, NEW time \in Nat, NEW tab \in [Num -> Name \cup {NoName}]
  PROVE  /\ WithTable(t, time, tab) \in Tape /\ WithTable(t, time, tab).list = t.list
         /\ WithTable(t, time, tab).next = t.next
         /\ WithTable(t, time, tab).cur = t.cur
         /\ WithTable(t, time, tab).table = tab
         /\ WithTable(t, time, tab).straight = t.straight
         /\ WithTable(t, time, tab).time = time
<1> DEFINE r == [t EXCEPT !.time = time, !.table = tab]
<1>1. /\ r.list = t.list /\ r.next = t.next /\ r.cur = t.cur
      /\ r.table = tab /\ r.straight = t.straight /\ r.time = time
  BY DEF Tape
<1>2. r \in Tape
  BY DEF Tape
<1> QED
  BY <1>1, <1>2 DEF WithTable

\* What an entry makes of the table.
TableAfter(tab, e) ==
    CASE e.kind = "describe" -> [tab EXCEPT ![e.num] = e.name]
      [] e.kind = "disconnect" -> NoNames
      [] e.kind \in {"user", "refused"} -> tab

LEMMA TableAfterRight ==
  ASSUME FileOK, NEW p \in Places, NEW tab \in [Num -> Name \cup {NoName}],
         RightAt(tab, p)
  PROVE  RightAt(TableAfter(tab, file[p]), p + 1)
<1>1. file[p] \in Entry /\ p \in Nat /\ p > 0 /\ p + 1 \in Nat
  BY DEF FileOK, Places
<1>2. SUFFICES ASSUME NEW n \in Num
               PROVE  TableAfter(tab, file[p])[n] = Described(p + 1, n)
  BY DEF RightAt
<1>3. tab[n] = Described(p, n)
  BY DEF RightAt
<1>4. /\ file[p].kind \in {"describe", "disconnect", "user", "refused"}
      /\ file[p].num \in Num
  BY <1>1 DEF Entry
<1>5. CASE Says(p, n)
  BY <1>1, <1>4, <1>5, DescribedLast DEF TableAfter, Says, NoNames
<1>6. CASE ~Says(p, n)
  <2>1. \A i \in p .. (p + 1) - 1 : ~Says(i, n)
    BY <1>1, <1>6
  <2>2. Described(p + 1, n) = Described(p, n)
    BY <1>1, <2>1, DescribedOn
  <2> QED
    BY <1>3, <1>4, <1>6, <2>2 DEF TableAfter, Says
<1> QED
  BY <1>5, <1>6

LEMMA TableAfterTyped ==
  ASSUME NEW tab \in [Num -> Name \cup {NoName}], NEW e \in Entry
  PROVE  TableAfter(tab, e) \in [Num -> Name \cup {NoName}]
<1>1. e.kind \in {"describe", "disconnect", "user", "refused"} /\ e.num \in Num /\ e.name \in Name
  BY DEF Entry
<1> QED
  BY <1>1 DEF TableAfter, NoNames

LEMMA DispatchKept ==
  ASSUME FileOK, NEW t, NEW d, Sound(t, d), t.cur # 0
  PROVE  /\ Sound(Dispatch(t), d) /\ Extends(Dispatch(t), t)
         /\ Place(Dispatch(t)) = Place(t) /\ Dispatch(t).cur = t.cur
         /\ Dispatch(t).straight = t.straight
         /\ Dispatch(t).table = TableAfter(t.table, file[Place(t)])
<1> DEFINE e == Current(t)
<1>1. t \in Tape /\ e \in Entry /\ e.time \in Nat /\ e = file[Place(t)]
  BY CurrentEntry DEF Sound, Typed
<1>2. t.table \in [Num -> Name \cup {NoName}]
  BY <1>1 DEF Tape
<1>3. TableAfter(t.table, e) \in [Num -> Name \cup {NoName}]
  BY <1>1, <1>2, TableAfterTyped
<1>4. Dispatch(t) = WithTable(t, e.time, TableAfter(t.table, e))
  BY DEF Dispatch, WithTable, TableAfter
<1> HIDE DEF e
<1>5. /\ Dispatch(t) \in Tape /\ Dispatch(t).list = t.list
      /\ Dispatch(t).next = t.next /\ Dispatch(t).cur = t.cur
      /\ Dispatch(t).table = TableAfter(t.table, e)
      /\ Dispatch(t).straight = t.straight
  BY <1>1, <1>3, <1>4, TableSet
<1>6. Sound(Dispatch(t), d) /\ Place(Dispatch(t)) = Place(t) /\ Extends(Dispatch(t), t)
  BY <1>5, SoundAlike
<1> QED
  BY <1>1, <1>5, <1>6

LEMMA PlayOneKept ==
  ASSUME FileOK, NEW t, NEW d, Kept(t, d), t.cur # 0
  PROVE  /\ Kept(PlayOne(t), d) /\ Extends(PlayOne(t), t)
         /\ PlayOne(t).straight = t.straight
         /\ Current(t).kind # "refused" /\ (~d \/ t.cur < Len(file)) =>
              Place(PlayOne(t)) = Place(t) + 1
         /\ Current(t).kind = "refused" =>
              Place(PlayOne(t)) = Place(t) /\ PlayOne(t).cur = t.cur
<1> DEFINE s == Dispatch(t)
           u == Advance(s)
<1>1. /\ Sound(s, d) /\ Extends(s, t) /\ Place(s) = Place(t) /\ s.cur = t.cur
      /\ s.straight = t.straight /\ s.table = TableAfter(t.table, file[Place(t)])
  BY DispatchKept DEF Kept
<1>2. PlayOne(t) = IF Current(t).kind = "refused" THEN s ELSE u
  BY DEF PlayOne
<1> HIDE DEF s
<1>3. /\ Sound(u, d) /\ Extends(u, s) /\ u.table = s.table
      /\ u.straight = s.straight
      /\ ~d \/ s.cur < Len(file) => Place(u) = Place(s) + 1
  BY <1>1, AdvanceSound
<1> HIDE DEF u
<1>4. /\ Len(t.list) \in Nat /\ Len(s.list) \in Nat /\ Len(u.list) \in Nat
      /\ t.table \in [Num -> Name \cup {NoName}]
  <2>1. t.table \in [Num -> Name \cup {NoName}] /\ Len(t.list) \in Nat
    BY DEF Kept, Sound, Typed, Tape
  <2>2. Len(s.list) \in Nat /\ Len(u.list) \in Nat
    BY <1>1, <1>3 DEF Sound, Typed
  <2> QED
    BY <2>1, <2>2
<1>5. Extends(u, t)
  BY <1>1, <1>3, <1>4, ExtendsTransitive
<1>6. Place(t) \in Places /\ Current(t) = file[Place(t)]
  BY CurrentEntry DEF Kept
<1>7. ASSUME t.straight, ~d PROVE RightAt(u.table, Place(u))
  <2>1. RightAt(t.table, Place(t))
    BY <1>7 DEF Kept, NamesRight
  <2> QED
    BY <1>1, <1>3, <1>4, <1>6, <1>7, <2>1, TableAfterRight
<1>8. NamesRight(u, d)
  BY <1>1, <1>3, <1>7 DEF NamesRight
<1>9. Current(t).kind = "refused" => s.table = t.table
  BY <1>1, <1>6 DEF TableAfter
<1>10. Current(t).kind = "refused" => NamesRight(s, d)
  BY <1>1, <1>9 DEF Kept, NamesRight
<1> QED
  BY <1>1, <1>2, <1>3, <1>5, <1>8, <1>10 DEF Kept

WithStraight(t, b) == [t EXCEPT !.straight = b]

LEMMA StraightSet ==
  ASSUME NEW t \in Tape, NEW b \in BOOLEAN
  PROVE  /\ WithStraight(t, b) \in Tape /\ WithStraight(t, b).list = t.list
         /\ WithStraight(t, b).next = t.next /\ WithStraight(t, b).cur = t.cur
         /\ WithStraight(t, b).table = t.table /\ WithStraight(t, b).time = t.time
         /\ WithStraight(t, b).straight = b
BY DEF Tape, WithStraight

LEMMA PassOverKept ==
  ASSUME FileOK, NEW t, NEW d, Kept(t, d), t.cur # 0
  PROVE  /\ Kept(PassOver(t), d) /\ Extends(PassOver(t), t)
         /\ ~d => Place(PassOver(t)) = Place(t) + 1
<1> DEFINE b == t.straight /\ Current(t).kind = "user"
           s == WithStraight(t, b)
           u == Advance(s)
<1>1. t \in Tape /\ b \in BOOLEAN
  BY DEF Kept, Sound, Typed
<1>2. u = PassOver(t)
  BY DEF PassOver, WithStraight
<1>3. s \in Tape /\ s.list = t.list /\ s.next = t.next /\ s.cur = t.cur
      /\ s.table = t.table /\ s.straight = b
  <2> HIDE DEF b
  <2> QED
    BY <1>1, StraightSet
<1> HIDE DEF s
<1>4. Sound(s, d) /\ Extends(s, t) /\ Place(s) = Place(t) /\ s.cur # 0
  BY <1>3, SoundAlike DEF Kept
<1>5. /\ Sound(u, d) /\ Extends(u, s) /\ u.table = s.table
      /\ u.straight = s.straight
      /\ ~d => Place(u) = Place(s) + 1
  BY <1>4, AdvanceSound
<1> HIDE DEF u
<1>6. /\ Len(t.list) \in Nat /\ Len(s.list) \in Nat /\ Len(u.list) \in Nat
      /\ t.table \in [Num -> Name \cup {NoName}]
  BY <1>1, <1>4, <1>5 DEF Kept, Sound, Typed, Tape
<1>7. Extends(u, t)
  BY <1>4, <1>5, <1>6, ExtendsTransitive
<1>8. ASSUME u.straight, ~d PROVE RightAt(u.table, Place(u))
  <2>1. t.straight /\ Current(t).kind = "user"
    BY <1>3, <1>5, <1>8
  <2>2. RightAt(t.table, Place(t)) /\ Place(t) \in Places
        /\ Current(t) = file[Place(t)]
    BY <1>8, <2>1, CurrentEntry DEF Kept, NamesRight
  <2>3. TableAfter(t.table, file[Place(t)]) = t.table
    BY <2>1, <2>2 DEF TableAfter
  <2>4. RightAt(t.table, Place(t) + 1)
    BY <1>6, <2>2, <2>3, TableAfterRight
  <2> QED
    BY <1>3, <1>4, <1>5, <1>8, <2>4
<1>9. NamesRight(u, d)
  BY <1>8 DEF NamesRight
<1> QED
  BY <1>2, <1>4, <1>5, <1>7, <1>9 DEF Kept

LEMMA TimeKept ==
  ASSUME FileOK, NEW t, NEW d, Kept(t, d), NEW time \in Nat
  PROVE  /\ Kept(WithTime(t, time), d) /\ Extends(WithTime(t, time), t)
         /\ Place(WithTime(t, time)) = Place(t)
         /\ WithTime(t, time).straight = t.straight
         /\ WithTime(t, time).table = t.table
<1> DEFINE u == WithTime(t, time)
<1>1. /\ u \in Tape /\ u.list = t.list /\ u.next = t.next /\ u.cur = t.cur
      /\ u.table = t.table /\ u.straight = t.straight
  BY TimeSet DEF Kept, Sound, Typed
<1> HIDE DEF u
<1>2. Sound(u, d) /\ Place(u) = Place(t) /\ Extends(u, t)
  BY <1>1, SoundAlike DEF Kept
<1>3. NamesRight(u, d)
  BY <1>1, <1>2 DEF Kept, NamesRight
<1> QED
  BY <1>1, <1>2, <1>3 DEF Kept, u

----------------------------------------------------------------------------
(* Loops.  The three that go along the tape, by name. *)

Goes(which, end, t) ==
    /\ t.cur # 0
    /\ CASE which = "play" -> Current(t).kind # "user"
         [] which = "scan" -> TRUE
         [] which = "pass" -> Current(t).time <= end

Does(which, t) ==
    CASE which = "play" -> PlayOne(t)
      [] which = "scan" -> Advance(t)
      [] which = "pass" -> PassOver(t)

LoopStep(which, end, t) == IF Goes(which, end, t) THEN Does(which, t) ELSE t

Run(which, end, t) ==
    CHOOSE g : g = [n \in 0 .. 2 * Len(file) |->
                      IF n = 0 THEN t ELSE LoopStep(which, end, g[n - 1])]

LoopEnd(which, end, t) == Run(which, end, t)[2 * Len(file)]

LEMMA LoopOfPlay ==
  ASSUME NEW t
  PROVE  PlayToUserMessage(t) =
           LET s == LoopEnd("play", 0, t)
           IN  IF s.cur = 0 THEN s ELSE WithTime(s, Current(s).time)
BY DEF PlayToUserMessage, Loop, LoopEnd, Run, LoopStep, Goes, Does, WithTime

LEMMA LoopOfScan ==
  ASSUME NEW t
  PROVE  ScanToEnd(t) = LoopEnd("scan", 0, t)
BY DEF ScanToEnd, Loop, LoopEnd, Run, LoopStep, Goes, Does

\* A loop is defined, and stays where each of its steps stays.
LEMMA LoopRuns ==
  ASSUME FileOK, NEW which, NEW end, NEW S, NEW t \in S,
         \A s \in S : LoopStep(which, end, s) \in S
  PROVE  /\ Run(which, end, t)[0] = t
         /\ \A n \in 1 .. 2 * Len(file) :
              Run(which, end, t)[n] = LoopStep(which, end, Run(which, end, t)[n - 1])
         /\ \A n \in 0 .. 2 * Len(file) : Run(which, end, t)[n] \in S
<1> DEFINE N == 2 * Len(file)
           f == [s \in S |-> LoopStep(which, end, s)]
           IsRun(h) == h = [n \in 0 .. N |->
                              IF n = 0 THEN t ELSE LoopStep(which, end, h[n - 1])]
           g == Run(which, end, t)
<1>1. N \in Nat
  BY DEF FileOK
<1>2. f \in [S -> S]
  OBVIOUS
<1>3. \A s \in S : f[s] = LoopStep(which, end, s)
  OBVIOUS
<1> HIDE DEF N, f
<1>4. PICK h : Repetition(S, f, t, N, h)
  BY <1>1, <1>2, Repeats
<1>5. \A n \in 1 .. N : h[n - 1] \in S
  BY <1>1, <1>4 DEF Repetition
<1>6. \A n \in 1 .. N : h[n] = LoopStep(which, end, h[n - 1])
  BY <1>3, <1>4, <1>5 DEF Repetition
<1>7. IsRun(h)
  BY <1>1, <1>4, <1>6 DEF Repetition
<1>8. g = CHOOSE x : IsRun(x)
  BY DEF Run, N
<1>9. IsRun(g)
  <2> HIDE DEF IsRun, g
  <2> QED
    BY <1>7, <1>8
<1> HIDE DEF g
<1>10. g[0] = t /\ \A n \in 1 .. N : g[n] = LoopStep(which, end, g[n - 1])
  BY <1>1, <1>9
<1> DEFINE D == {n \in Nat : n <= N => g[n] \in S}
<1>11. 0 \in D
  BY <1>10
<1>12. ASSUME NEW n \in Nat, n \in D PROVE n + 1 \in D
  <2>1. CASE n + 1 <= N
    <3>1. g[n] \in S /\ n + 1 \in 1 .. N /\ (n + 1) - 1 = n
      BY <1>1, <1>12, <2>1
    <3>2. g[n + 1] = LoopStep(which, end, g[n])
      BY <1>10, <3>1
    <3> QED
      BY <3>1, <3>2
  <2>2. CASE ~(n + 1 <= N)
    BY <2>2
  <2> QED
    BY <2>1, <2>2
<1> HIDE DEF D
<1>13. Nat \subseteq D
  BY <1>11, <1>12, SetInduction
<1>14. \A n \in 0 .. N : g[n] \in S
  BY <1>1, <1>13 DEF D
<1> QED
  BY <1>10, <1>14 DEF N, g

\* A loop whose steps go on by one place ends before the bound on its steps.
LEMMA LoopReaches ==
  ASSUME FileOK, NEW which, NEW end, NEW S, NEW t \in S,
         \A s \in S : LoopStep(which, end, s) \in S,
         \A s \in S : Goes(which, end, s) =>
                        /\ Place(s) \in Places
                        /\ Place(LoopStep(which, end, s)) = Place(s) + 1
  PROVE  ~Goes(which, end, LoopEnd(which, end, t))
<1> DEFINE g == Run(which, end, t)
           N == 2 * Len(file)
<1>1. /\ g[0] = t /\ \A n \in 1 .. N : g[n] = LoopStep(which, end, g[n - 1])
      /\ \A n \in 0 .. N : g[n] \in S
  BY LoopRuns
<1> HIDE DEF g
<1>2. N \in Nat /\ Len(file) \in Nat /\ N = 2 * Len(file) /\ Len(file) > 0
  BY DEF FileOK
<1> HIDE DEF N
<1>3. SUFFICES ASSUME Goes(which, end, g[N]) PROVE FALSE
  BY DEF LoopEnd, g, N
<1> DEFINE D == {n \in Nat : n <= N /\ Goes(which, end, g[n]) => Place(g[n]) > n}
<1>4. 0 \in D
  BY <1>1 DEF Places
<1>5. ASSUME NEW n \in Nat, n \in D PROVE n + 1 \in D
  <2>1. SUFFICES ASSUME n + 1 <= N, Goes(which, end, g[n + 1])
                 PROVE  Place(g[n + 1]) > n + 1
    OBVIOUS
  <2>2. g[n] \in S /\ n + 1 \in 1 .. N /\ (n + 1) - 1 = n /\ n <= N
    BY <1>1, <1>2, <2>1
  <2>3. g[n + 1] = LoopStep(which, end, g[n])
    BY <1>1, <2>2
  <2>4. Goes(which, end, g[n])
    BY <2>1, <2>3 DEF LoopStep
  <2>5. Place(g[n]) > n /\ Place(g[n]) \in Nat
    BY <1>5, <2>2, <2>4 DEF Places
  <2> QED
    BY <2>2, <2>3, <2>4, <2>5
<1> HIDE DEF D
<1>6. Nat \subseteq D
  BY <1>4, <1>5, SetInduction
<1>7. Place(g[N]) > N /\ Place(g[N]) \in Places
  BY <1>1, <1>2, <1>3, <1>6 DEF D
<1> QED
  BY <1>2, <1>7 DEF Places

LEMMA LoopStays ==
  ASSUME FileOK, NEW which, NEW end, NEW S, NEW t \in S,
         \A s \in S : LoopStep(which, end, s) \in S
  PROVE  LoopEnd(which, end, t) \in S
<1>1. 2 * Len(file) \in 0 .. 2 * Len(file)
  BY DEF FileOK
<1> QED
  BY <1>1, LoopRuns DEF LoopEnd

----------------------------------------------------------------------------
(* What the functions of the tape keep. *)

\* No user message is before place p.
NoUserBefore(p) == \A j \in Places : j < p => file[j].kind # "user"

HasUser == \E j \in Places : file[j].kind = "user"

LEMMA PlayToUserKept ==
  ASSUME FileOK, NEW t, NEW d, Kept(t, d), t.cur = 1, Place(t) = 1
  PROVE  /\ Kept(PlayToUserMessage(t), d) /\ Extends(PlayToUserMessage(t), t)
         /\ PlayToUserMessage(t).straight = t.straight
         /\ ~d => NoUserBefore(Place(PlayToUserMessage(t)))
         /\ skip /\ ~d /\ ~Hung => UserUpTo(Place(PlayToUserMessage(t)))
         /\ HasUser => PlayToUserMessage(t).cur # 0
<1> DEFINE InTime(x) == d /\ HasUser => /\ x.cur \in Places /\ Place(x) = x.cur
                                        /\ NoUserBefore(x.cur)
           S == {x \in Tape : /\ Kept(x, d) /\ Extends(x, t)
                              /\ x.straight = t.straight
                              /\ ~d => NoUserBefore(Place(x))
                              /\ InTime(x)}
           s == LoopEnd("play", 0, t)
           u == PlayToUserMessage(t)
<1>1. t \in S
  <2>1. 1 \in Places /\ NoUserBefore(1)
    BY DEF NoUserBefore, Places, FileOK
  <2>2. t \in Tape /\ Extends(t, t)
    BY DEF Kept, Sound, Typed, Extends
  <2> QED
    BY <2>1, <2>2
<1>2. ASSUME NEW x \in S, Goes("play", 0, x)
      PROVE  /\ LoopStep("play", 0, x) = PlayOne(x) /\ x.cur # 0
             /\ Place(x) \in Places /\ file[Place(x)].kind # "user"
             /\ Kept(PlayOne(x), d) /\ Extends(PlayOne(x), x)
             /\ PlayOne(x).straight = x.straight
             /\ file[Place(x)].kind # "refused" /\ (~d \/ x.cur < Len(file)) =>
                  Place(PlayOne(x)) = Place(x) + 1
             /\ file[Place(x)].kind = "refused" =>
                  Place(PlayOne(x)) = Place(x) /\ PlayOne(x).cur = x.cur
  <2>1. LoopStep("play", 0, x) = PlayOne(x) /\ x.cur # 0 /\ Current(x).kind # "user"
    BY <1>2 DEF LoopStep, Goes, Does
  <2>2. Place(x) \in Places /\ Current(x) = file[Place(x)]
    BY <2>1, CurrentEntry DEF Kept
  <2>3. /\ Kept(PlayOne(x), d) /\ Extends(PlayOne(x), x)
        /\ PlayOne(x).straight = x.straight
        /\ Current(x).kind # "refused" /\ (~d \/ x.cur < Len(file)) =>
             Place(PlayOne(x)) = Place(x) + 1
        /\ Current(x).kind = "refused" =>
             Place(PlayOne(x)) = Place(x) /\ PlayOne(x).cur = x.cur
    BY <2>1, PlayOneKept
  <2> QED
    BY <2>1, <2>2, <2>3
<1>3. ASSUME NEW x \in S, Goes("play", 0, x) PROVE PlayOne(x) \in S
  <2>1. Extends(PlayOne(x), t) /\ PlayOne(x) \in Tape
    BY <1>2, <1>3, ExtendsTransitive DEF Kept, Sound, Typed
  <2>2. ~d => NoUserBefore(Place(PlayOne(x)))
    BY <1>2, <1>3 DEF NoUserBefore, Places
  <2>3. ASSUME d, HasUser
        PROVE  /\ PlayOne(x).cur \in Places /\ Place(PlayOne(x)) = PlayOne(x).cur
               /\ NoUserBefore(PlayOne(x).cur)
    <3>1. /\ x.cur \in Places /\ Place(x) = x.cur /\ NoUserBefore(x.cur)
          /\ file[x.cur].kind # "user"
      BY <1>2, <1>3, <2>3
    <3>2. x.cur < Len(file) /\ x.cur + 1 \in Places /\ NoUserBefore(x.cur + 1)
      BY <2>3, <3>1 DEF HasUser, NoUserBefore, Places, FileOK
    <3>3. CASE file[x.cur].kind = "refused"
      BY <1>2, <1>3, <3>1, <3>3
    <3>4. CASE file[x.cur].kind # "refused"
      <4>1. Place(PlayOne(x)) = x.cur + 1
        BY <1>2, <1>3, <3>1, <3>2, <3>4
      <4>2. PlayOne(x).cur = x.cur + 1
        <5>1. /\ Dispatch(x).cur = x.cur /\ Sound(Dispatch(x), d)
              /\ Extends(Dispatch(x), x)
          BY <1>2, <1>3, DispatchKept DEF Kept
        <5>2. x.cur < Len(Dispatch(x).list)
          BY <2>3, <3>2, <5>1 DEF Sound, Typed, Follows, FileOK, Places
        <5>3. Dispatch(x) \in Tape
          BY <5>1 DEF Sound, Typed
        <5>4. Current(x) = file[x.cur]
          BY <1>2, <1>3, <3>1, CurrentEntry DEF Kept
        <5>5. PlayOne(x) = [Dispatch(x) EXCEPT !.cur = x.cur + 1]
          BY <3>4, <5>1, <5>2, <5>4 DEF PlayOne, Advance
        <5> QED
          BY <5>3, <5>5 DEF Tape
      <4> QED
        BY <3>2, <4>1, <4>2
    <3> QED
      BY <3>3, <3>4
  <2>4. InTime(PlayOne(x))
    BY <2>3
  <2> HIDE DEF InTime
  <2> QED
    BY <1>2, <1>3, <2>1, <2>2, <2>4
<1>4. ASSUME NEW x \in S PROVE LoopStep("play", 0, x) \in S
  BY <1>2, <1>3 DEF LoopStep
<1>5. \A x \in S : Kept(x, d)
  OBVIOUS
<1>6. ASSUME skip, ~d, ~Hung, s.cur # 0 PROVE Current(s).kind = "user"
  <2>1. ASSUME NEW x \in S, Goes("play", 0, x)
        PROVE  /\ Place(x) \in Places
               /\ Place(LoopStep("play", 0, x)) = Place(x) + 1
    <3>1. Place(x) \in Places /\ NoUserBefore(Place(x))
      BY <1>2, <1>6, <2>1
    <3>2. file[Place(x)].kind # "refused"
      BY <1>6, <3>1 DEF Hung, NoUserBefore, Places, FileOK
    <3> QED
      BY <1>2, <1>6, <2>1, <3>1, <3>2
  <2> HIDE DEF S
  <2>2. ~Goes("play", 0, s)
    BY <1>1, <1>4, <2>1, LoopReaches
  <2> QED
    BY <1>6, <2>2 DEF Goes
<1>7. s \in S
  <2> HIDE DEF S
  <2> QED
    BY <1>1, <1>4, LoopStays
<1>8. u = IF s.cur = 0 THEN s ELSE WithTime(s, Current(s).time)
  BY LoopOfPlay
<1> HIDE DEF s, u
<1>9. /\ Kept(s, d) /\ Extends(s, t) /\ s.straight = t.straight
      /\ ~d => NoUserBefore(Place(s))
      /\ d /\ HasUser => s.cur \in Places
  BY <1>7
<1> HIDE DEF S
<1>10. skip /\ ~d /\ ~Hung => UserUpTo(Place(s))
  <2>1. CASE s.cur = 0
    BY <2>1 DEF UserUpTo, Place
  <2>2. CASE s.cur # 0
    <3>1. Place(s) \in Places /\ Current(s) = file[Place(s)]
      BY <1>9, <2>2, CurrentEntry DEF Kept
    <3> QED
      BY <1>6, <2>2, <3>1 DEF UserUpTo, Places
  <2> QED
    BY <2>1, <2>2
<1>11. HasUser => s.cur # 0
  <2>1. CASE d
    BY <1>9, <2>1 DEF Places
  <2>2. CASE ~d
    <3>1. s.cur = 0 => Place(s) = Len(file) + 1
      BY DEF Place
    <3> QED
      BY <1>9, <2>2, <3>1 DEF HasUser, NoUserBefore, Places, FileOK
  <2> QED
    BY <2>1, <2>2
<1>12. CASE s.cur = 0
  BY <1>8, <1>9, <1>10, <1>11, <1>12 DEF u
<1>13. CASE s.cur # 0
  <2>1. Current(s).time \in Nat
    BY <1>9, <1>13, CurrentEntry DEF Kept
  <2>2. u = WithTime(s, Current(s).time)
    BY <1>8, <1>13
  <2>3. /\ Kept(u, d) /\ Extends(u, s) /\ Place(u) = Place(s)
        /\ u.straight = s.straight /\ u.cur = s.cur
    BY <1>9, <2>1, <2>2, TimeKept, TimeSet DEF Kept, Sound, Typed
  <2>4. Extends(u, t)
    BY <1>9, <2>3, ExtendsTransitive DEF Kept, Sound, Typed
  <2> QED
    BY <1>9, <1>10, <1>13, <2>3, <2>4 DEF u
<1> QED
  BY <1>12, <1>13

\* The tape set back, before reset looks for a user message.
FromStart(t) == [t EXCEPT !.cur = 1, !.table = NoNames, !.straight = TRUE]

LEMMA FromStartIs ==
  ASSUME NEW t \in Tape
  PROVE  /\ FromStart(t) \in Tape /\ FromStart(t).list = t.list
         /\ FromStart(t).next = t.next /\ FromStart(t).cur = 1
         /\ FromStart(t).straight /\ FromStart(t).table = NoNames
<1> DEFINE r == [t EXCEPT !.cur = 1, !.table = NoNames, !.straight = TRUE]
<1>1. NoNames \in [Num -> Name \cup {NoName}]
  BY DEF NoNames
<1> HIDE DEF NoNames
<1>2. /\ r.list = t.list /\ r.next = t.next /\ r.cur = 1 /\ r.straight
      /\ r.table = NoNames
  BY DEF Tape
<1>3. r \in Tape
  BY <1>1 DEF Tape
<1> QED
  BY <1>2, <1>3 DEF FromStart

FirstRead(t) == WithList(t, <<1>>, 2)

Loaded(t) == IF mode = "neither" THEN FirstRead(t) ELSE t

Rewound(t) == WithTime(FromStart(Loaded(t)), Current(FromStart(Loaded(t))).time)

LEMMA ResetIs ==
  ASSUME FileOK, NEW t \in Tape
  PROVE  Reset(t) = IF skip THEN PlayToUserMessage(Rewound(t)) ELSE Rewound(t)
<1>1. ASSUME mode = "neither"
      PROVE  ReadEntry([t EXCEPT !.next = 1]) = FirstRead(t)
  <2> DEFINE r == [t EXCEPT !.next = 1]
  <2>1. r.next = 1 /\ Len(file) \in Nat /\ Len(file) > 0
    BY DEF Tape, FileOK
  <2>2. ReadEntry(r) = [r EXCEPT !.list = <<r.next>>, !.next = r.next + 1]
    BY <1>1, <2>1 DEF ReadEntry
  <2>3. ReadEntry(r) = [r EXCEPT !.list = <<1>>, !.next = 2]
    BY <2>1, <2>2
  <2>4. [r EXCEPT !.list = <<1>>, !.next = 2] = [t EXCEPT !.list = <<1>>, !.next = 2]
    BY DEF Tape
  <2> QED
    BY <2>3, <2>4 DEF FirstRead, WithList
<1>2. (IF mode = "neither" THEN ReadEntry([t EXCEPT !.next = 1]) ELSE t) = Loaded(t)
  BY <1>1 DEF Loaded
<1> QED
  BY <1>2 DEF Reset, Rewound, WithTime, FromStart

LEMMA RewoundKept ==
  ASSUME FileOK, NEW t, NEW d, Sound(t, d)
  PROVE  /\ Kept(Rewound(t), d) /\ Extends(Rewound(t), t)
         /\ Rewound(t).cur = 1 /\ Rewound(t).straight
         /\ Place(Rewound(t)) = 1
<1> DEFINE l == Loaded(t)
           r == FromStart(l)
           u == Rewound(t)
<1>1. t \in Tape /\ t.list \in Seq(Places) /\ Len(file) \in Nat /\ Len(file) > 0
  BY DEF Sound, Typed, FileOK
<1>2. /\ l \in Tape /\ l.list \in Seq(Places) /\ l.list # <<>>
      /\ mode = "neither" => l.list = <<1>> /\ l.next = 2
      /\ mode # "neither" => l = t
  <2>1. CASE mode = "neither"
    <3>1. <<1>> \in Seq(Nat \ {0}) /\ 2 \in Nat \ {0} /\ <<1>> # <<>>
      OBVIOUS
    <3>2. <<1>> \in Seq(Places)
      BY <1>1 DEF Places
    <3> QED
      BY ZenonT(30), <1>1, <2>1, <3>1, <3>2, TapeRead DEF Loaded, FirstRead
  <2>2. CASE mode # "neither"
    BY <1>1, <2>2 DEF Loaded, Sound, Follows
  <2> QED
    BY <2>1, <2>2
<1> HIDE DEF l
<1>3. /\ r \in Tape /\ r.list = l.list /\ r.next = l.next /\ r.cur = 1 /\ r.straight
      /\ r.table = NoNames
  BY <1>2, FromStartIs
<1> HIDE DEF r
<1>4. Sound(r, d)
  <2>1. r.cur \in 0 .. Len(r.list) /\ r.list \in Seq(Places) /\ Len(r.list) \in Nat
    BY <1>2, <1>3
  <2>2. CASE mode = "neither"
    <3>0. r.list = <<1>> /\ Len(<<1>>) = 1 /\ <<1>>[1] = 1
      <4>1. r.list = <<1>>
        BY <1>2, <1>3, <2>2
      <4> QED
        BY <4>1
    <3>1. Len(r.list) = 1 /\ r.list[1] = 1
      BY <3>0
    <3> QED
      BY <1>2, <1>3, <2>1, <2>2, <3>1 DEF Sound, Typed, Follows
  <2>3. CASE mode # "neither"
    BY <1>2, <1>3, <2>1, <2>3 DEF Sound, Typed, Follows
  <2> QED
    BY <2>2, <2>3
<1>5. Place(r) = 1
  <2>1. Place(r) = r.list[1]
    BY <1>3 DEF Place
  <2>2. mode = "neither" => r.list[1] = 1
    <3>1. mode = "neither" => r.list = <<1>>
      BY <1>2, <1>3
    <3> QED
      BY <3>1
  <2>3. mode # "neither" => r.list[1] = 1
    <3>1. Len(r.list) \in Nat /\ Len(r.list) > 0
      BY <1>2, <1>3
    <3> QED
      BY <1>1, <1>4, <3>1 DEF Sound, Follows
  <2> QED
    BY <2>1, <2>2, <2>3
<1>6. NamesRight(r, d)
  BY <1>3, <1>5, DescribedFirst DEF NamesRight, RightAt, NoNames
<1>7. Extends(r, t)
  BY <1>1, <1>2, <1>3 DEF Extends
<1>8. Current(r).time \in Nat
  BY <1>3, <1>4, CurrentEntry
<1>9. u = WithTime(r, Current(r).time)
  BY DEF Rewound, r, l
<1> HIDE DEF u
<1>10. /\ Kept(u, d) /\ Extends(u, r) /\ Place(u) = Place(r)
       /\ u.straight = r.straight /\ u.cur = 1
  BY <1>3, <1>4, <1>6, <1>8, <1>9, TimeKept, TimeSet DEF Kept
<1>11. Extends(u, t)
  BY <1>1, <1>4, <1>7, <1>10, ExtendsTransitive DEF Kept, Sound, Typed
<1> QED
  BY <1>3, <1>5, <1>10, <1>11 DEF u

\* reset, to the first user message if the connection skips what is before it.
LEMMA ResetKept ==
  ASSUME FileOK, NEW t, NEW d, Sound(t, d)
  PROVE  /\ Kept(Reset(t), d) /\ Begun(Reset(t), d) /\ Extends(Reset(t), t)
         /\ Reset(t).straight
         /\ ~d => IF skip THEN NoUserBefore(Place(Reset(t))) ELSE Place(Reset(t)) = 1
         /\ HasUser => Reset(t).cur # 0
<1> DEFINE b == Rewound(t)
           u == Reset(t)
<1>1. t \in Tape
  BY DEF Sound, Typed
<1>2. /\ Kept(b, d) /\ Extends(b, t) /\ b.cur = 1 /\ b.straight
      /\ Place(b) = 1
  BY RewoundKept
<1>3. u = IF skip THEN PlayToUserMessage(b) ELSE b
  BY <1>1, ResetIs
<1> HIDE DEF b, u
<1>4. CASE ~skip
  BY <1>2, <1>3, <1>4 DEF Begun, u
<1>5. CASE skip
  <2>1. /\ Kept(u, d) /\ Extends(u, b) /\ u.straight = b.straight
        /\ ~d => NoUserBefore(Place(u))
        /\ skip /\ ~d /\ ~Hung => UserUpTo(Place(u))
        /\ HasUser => u.cur # 0
    <3>1. u = PlayToUserMessage(b)
      BY <1>3, <1>5
    <3>2. Kept(b, d) /\ b.cur = 1 /\ Place(b) = 1
      BY <1>2
    <3> DEFINE v == PlayToUserMessage(b)
    <3>3. /\ Kept(v, d) /\ Extends(v, b) /\ v.straight = b.straight
          /\ ~d => NoUserBefore(Place(v))
          /\ skip /\ ~d /\ ~Hung => UserUpTo(Place(v))
          /\ HasUser => v.cur # 0
      BY <3>2, PlayToUserKept
    <3> HIDE DEF v
    <3>4. u = v
      BY <3>1 DEF v
    <3> QED
      BY <3>3, <3>4
  <2>2. Extends(u, t)
    BY <1>1, <1>2, <2>1, ExtendsTransitive DEF Kept, Sound, Typed
  <2> QED
    BY <1>2, <1>5, <2>1, <2>2 DEF Begun, u
<1> QED
  BY <1>4, <1>5

LEMMA ScanKept ==
  ASSUME FileOK, NEW t, NEW d, Sound(t, d)
  PROVE  /\ Sound(ScanToEnd(t), d) /\ Extends(ScanToEnd(t), t)
         /\ ScanToEnd(t).table = t.table
         /\ ~d => ScanToEnd(t).cur = 0
<1> DEFINE S == {s \in Tape : Sound(s, d) /\ Extends(s, t) /\ s.table = t.table}
<1>1. t \in S
  BY DEF Sound, Typed, Extends
<1>2. ASSUME NEW x \in S, Goes("scan", 0, x)
      PROVE  /\ LoopStep("scan", 0, x) = Advance(x) /\ Advance(x) \in S
             /\ Place(x) \in Places
             /\ ~d => Place(Advance(x)) = Place(x) + 1
  <2>1. LoopStep("scan", 0, x) = Advance(x) /\ x.cur # 0
    BY <1>2 DEF LoopStep, Goes, Does
  <2>2. /\ Sound(Advance(x), d) /\ Extends(Advance(x), x)
        /\ Advance(x).table = x.table
        /\ ~d => Place(Advance(x)) = Place(x) + 1
    BY <2>1, AdvanceSound
  <2>3. Extends(Advance(x), t) /\ Advance(x) \in Tape
    BY <2>2, ExtendsTransitive DEF Sound, Typed
  <2> QED
    BY <2>1, <2>2, <2>3, CurrentEntry
<1>3. ASSUME NEW x \in S PROVE LoopStep("scan", 0, x) \in S
  BY <1>2 DEF LoopStep
<1>4. ASSUME ~d PROVE LoopEnd("scan", 0, t).cur = 0
  <2>1. \A x \in S : Goes("scan", 0, x) =>
                       /\ Place(x) \in Places
                       /\ Place(LoopStep("scan", 0, x)) = Place(x) + 1
    BY <1>2, <1>4
  <2> HIDE DEF S
  <2>2. ~Goes("scan", 0, LoopEnd("scan", 0, t))
    BY <1>1, <1>3, <2>1, LoopReaches
  <2> QED
    BY <2>2 DEF Goes
<1> HIDE DEF S
<1>5. LoopEnd("scan", 0, t) \in S
  BY <1>1, <1>3, LoopStays
<1> QED
  BY <1>4, <1>5, LoopOfScan DEF S

\* Going on one place, the tape does not come before the first user message.
LEMMA UserUpToOn ==
  ASSUME FileOK, NEW p \in Places, UserUpTo(p)
  PROVE  UserUpTo(p + 1)
BY DEF UserUpTo, Places, FileOK

\* A question for the length, from the bookmark to its return.
Asked(t) == ReturnToBookmark(t, ScanToEnd(Reset(t)))

\* A file that is accumulated is set back under what has been read meanwhile.
SetBack(t, d) == d \/ (mode = "accumulate" /\ t.next <= Len(file))

WithAll(s, time, c, n, l, b) ==
    [s EXCEPT !.time = time, !.cur = c, !.next = n, !.list = l, !.straight = b]

LEMMA AskedKept ==
  ASSUME FileOK, NEW t, NEW d \in BOOLEAN, ~Hung, Kept(t, d), Begun(t, d)
  PROVE  /\ Kept(Asked(t), SetBack(t, d)) /\ Begun(Asked(t), SetBack(t, d))
         /\ Place(Asked(t)) = Place(t) /\ Asked(t).time = t.time
<1> DEFINE q == Reset(t)
           s == ScanToEnd(q)
           n == IF mode = "preload" THEN s.next ELSE t.next
           l == IF mode # "neither" THEN s.list ELSE IF t.cur = 0 THEN <<>> ELSE t.list
           b == \A i \in Place(q) .. Place(t) - 1 : file[i].kind = "user"
           u == Asked(t)
           e == SetBack(t, d)
<1>1. /\ t \in Tape /\ t.list \in Seq(Places) /\ t.time \in Nat /\ t.cur \in Nat
      /\ t.next \in Nat \ {0} /\ Sound(t, d) /\ t.cur \in 0 .. Len(t.list)
      /\ Len(file) \in Nat
  BY DEF Kept, Sound, Typed, Tape, FileOK
<1>2. /\ Kept(q, d) /\ Extends(q, t) /\ q.straight
      /\ ~d => IF skip THEN NoUserBefore(Place(q)) ELSE Place(q) = 1
  BY <1>1, ResetKept
<1> HIDE DEF q
<1>3. /\ Sound(s, d) /\ Extends(s, q) /\ s.table = q.table
      /\ ~d => s.cur = 0
  BY <1>2, ScanKept DEF Kept
<1>4. u = WithAll(s, t.time, t.cur, n, l, b)
  BY DEF Asked, ReturnToBookmark, WithAll, q
<1> HIDE DEF s
<1>5. /\ s \in Tape /\ s.list \in Seq(Places) /\ s.next \in Nat \ {0}
      /\ Len(s.list) \in Nat /\ Len(t.list) \in Nat /\ Len(q.list) \in Nat
  BY <1>1, <1>2, <1>3 DEF Kept, Sound, Typed, Tape
<1>6. Extends(s, t)
  BY <1>2, <1>3, <1>5, ExtendsTransitive
<1>7. l \in Seq(Places) /\ l \in Seq(Nat \ {0}) /\ n \in Nat \ {0} /\ b \in BOOLEAN
  <2>1. l \in Seq(Places)
    BY <1>1, <1>5
  <2>2. Seq(Places) \subseteq Seq(Nat \ {0})
    BY DEF Places
  <2>3. n \in Nat \ {0}
    BY <1>1, <1>5
  <2>4. b \in BOOLEAN
    OBVIOUS
  <2> QED
    BY <2>1, <2>2, <2>3, <2>4
<1>8. /\ mode # "neither" => /\ Len(t.list) <= Len(l)
                             /\ \A i \in 1 .. Len(t.list) : l[i] = t.list[i]
      /\ mode = "neither" => l = IF t.cur = 0 THEN <<>> ELSE t.list
      /\ mode = "preload" => l = t.list /\ n = t.next
      /\ mode = "accumulate" => n = t.next
      /\ mode # "neither" /\ ~e => l = t.list /\ n = t.next
      /\ mode = "neither" => n = t.next
  <2>1. mode # "neither" => l = s.list
    OBVIOUS
  <2>2. mode = "preload" => s.list = t.list /\ s.next = t.next
    BY <1>6 DEF Extends
  <2>3. mode # "neither" => /\ Len(t.list) <= Len(s.list)
                            /\ \A i \in 1 .. Len(t.list) : s.list[i] = t.list[i]
    BY <1>6 DEF Extends
  <2>4. mode = "accumulate" /\ ~e => s.list = t.list
    BY <1>1, <1>6 DEF Extends, SetBack
  <2> QED
    BY <2>1, <2>2, <2>3, <2>4 DEF FileOK
<1> HIDE DEF n, l, b, u
<1>9. /\ u \in Tape /\ u.time = t.time /\ u.cur = t.cur /\ u.next = n
      /\ u.list = l /\ u.straight = b /\ u.table = s.table
  <2>1. /\ s \in Tape /\ t.time \in Nat /\ t.cur \in Nat /\ n \in Nat \ {0}
        /\ l \in Seq(Nat \ {0}) /\ b \in BOOLEAN
    BY <1>1, <1>5, <1>7, Zenon
  <2> DEFINE v == WithAll(s, t.time, t.cur, n, l, b)
  <2>2. /\ v.time = t.time /\ v.cur = t.cur /\ v.next = n
        /\ v.list = l /\ v.table = s.table /\ v.straight = b
    BY <2>1 DEF WithAll, Tape
  <2>3. v \in Tape
    BY <2>1 DEF WithAll, Tape
  <2> HIDE DEF v
  <2>4. u = v
    BY <1>4 DEF v
  <2> QED
    BY <2>2, <2>3, <2>4, Zenon
<1>10. Place(u) = Place(t)
  <2>1. CASE t.cur = 0
    BY <1>9, <2>1 DEF Place
  <2>2. CASE t.cur # 0
    <3>1. l[t.cur] = t.list[t.cur]
      BY <1>1, <1>8, <2>2
    <3> QED
      BY <1>9, <2>2, <3>1 DEF Place
  <2> QED
    BY <2>1, <2>2
<1>11. Sound(u, e)
  <2>1. Typed(u)
    <3>1. t.cur \in 0 .. Len(l)
      <4>1. CASE mode # "neither"
        BY <1>1, <1>5, <1>7, <1>8, <4>1
      <4>2. CASE mode = "neither"
        BY <1>1, <1>8, <4>2
      <4> QED
        BY <4>1, <4>2
    <3> QED
      BY <1>7, <1>9, <3>1 DEF Typed
  <2>2. e => mode = "accumulate" /\ Len(l) >= Len(file)
    <3>1. e => mode = "accumulate"
      BY <1>1 DEF SetBack, Sound, Follows
    <3>2. mode = "accumulate" => Len(s.list) >= Len(file)
      <4>1. CASE d
        BY <1>3, <4>1 DEF Sound, Follows
      <4>2. CASE ~d
        BY <1>1, <1>3, <1>5, <4>2 DEF Sound, Follows
      <4> QED
        BY <4>1, <4>2
    <3> QED
      BY <3>1, <3>2 DEF l
  <2>3. t.cur = 0 => n > Len(file)
    BY <1>1, <1>8 DEF Sound, Follows, FileOK
  <2>4. mode # "neither" => l # <<>>
    <3>1. mode # "neither" => Len(t.list) > 0
      BY <1>1 DEF Sound, Follows
    <3> QED
      BY <1>5, <1>7, <1>8, <3>1
  <2>5. mode = "neither" /\ t.cur # 0 => Len(l) = 1 /\ n = l[1] + 1
    BY <1>1, <1>8 DEF Sound, Follows
  <2>6. mode = "preload" => Len(l) = Len(file)
    BY <1>1, <1>8 DEF Sound, Follows
  <2>7. mode # "neither" /\ ~e => l = [i \in 1 .. Len(l) |-> i] /\ n = Len(l) + 1
    BY <1>1, <1>8 DEF Sound, Follows, SetBack
  <2>8. mode # "neither" => \A i \in 1 .. Len(l) : i <= Len(file) => l[i] = i
    BY <1>3 DEF l, Sound, Follows
  <2> QED
    BY <1>9, <2>1, <2>2, <2>3, <2>4, <2>5, <2>6, <2>7, <2>8 DEF Sound, Follows
<1>12. e \in BOOLEAN /\ (~e => ~d)
  BY DEF SetBack
<1>13. ASSUME b, ~d PROVE RightAt(q.table, Place(t))
  <2>1. RightAt(q.table, Place(q))
    BY <1>2, <1>13 DEF Kept, NamesRight
  <2>2. Place(q) \in 1 .. Len(file) + 1 /\ Place(t) \in 1 .. Len(file) + 1
    BY <1>1, <1>2, PlaceInRange DEF Kept
  <2>3. Place(q) <= Place(t)
    <3>1. CASE ~skip
      BY <1>2, <1>13, <2>2, <3>1
    <3>2. CASE skip
      <4>1. UserUpTo(Place(t)) /\ NoUserBefore(Place(q))
        BY <1>2, <1>13, <3>2 DEF Begun
      <4> QED
        BY <1>1, <2>2, <4>1 DEF UserUpTo, NoUserBefore, Places
    <3> QED
      BY <3>1, <3>2
  <2>4. \A i \in Place(q) .. Place(t) - 1 : file[i].kind = "user"
    BY <1>13 DEF b
  <2>5. SUFFICES ASSUME NEW m \in Num PROVE q.table[m] = Described(Place(t), m)
    BY DEF RightAt
  <2>6. \A i \in Place(q) .. Place(t) - 1 : ~Says(i, m)
    BY <2>4 DEF Says
  <2>7. Described(Place(t), m) = Described(Place(q), m)
    BY <2>2, <2>3, <2>6, DescribedOn
  <2> QED
    BY <2>1, <2>7 DEF RightAt
<1>14. NamesRight(u, e)
  BY <1>3, <1>9, <1>10, <1>12, <1>13 DEF NamesRight
<1>15. Begun(u, e)
  BY <1>10, <1>12 DEF Begun
<1> QED
  BY <1>9, <1>10, <1>11, <1>14, <1>15 DEF Kept, u

\* jump_to_time goes past what is not later than a time.
LEMMA PassKept ==
  ASSUME FileOK, NEW t, NEW d, Kept(t, d), Begun(t, d), NEW end
  PROVE  Kept(LoopEnd("pass", end, t), d) /\ Begun(LoopEnd("pass", end, t), d)
<1> DEFINE S == {s \in Tape : Kept(s, d) /\ Begun(s, d)}
<1>1. t \in S
  BY DEF Kept, Sound, Typed
<1>2. ASSUME NEW x \in S PROVE LoopStep("pass", end, x) \in S
  <2>1. CASE ~Goes("pass", end, x)
    BY <2>1 DEF LoopStep
  <2>2. CASE Goes("pass", end, x)
    <3>1. LoopStep("pass", end, x) = PassOver(x) /\ x.cur # 0
      BY <2>2 DEF LoopStep, Goes, Does
    <3>2. /\ Kept(PassOver(x), d)
          /\ ~d => Place(PassOver(x)) = Place(x) + 1
      BY <3>1, PassOverKept
    <3>3. Begun(PassOver(x), d)
      BY <3>1, <3>2, CurrentEntry, UserUpToOn DEF Kept, Begun
    <3> QED
      BY <3>1, <3>2, <3>3 DEF Kept, Sound, Typed
  <2> QED
    BY <2>1, <2>2
<1> HIDE DEF S
<1>3. LoopEnd("pass", end, t) \in S
  BY <1>1, <1>2, LoopStays
<1> QED
  BY <1>3 DEF S

----------------------------------------------------------------------------
(* The specification. *)

Fit(t, d) == Kept(t, d) /\ Begun(t, d)

IInv == TypeOK /\ Fit(tape, doubled)

LEMMA FileIsOK == TypeOK => FileOK
BY FileAssumption DEF TypeOK, FileOK

LEMMA FitPrimed ==
  ASSUME UNCHANGED opts, Fit(tape', doubled')
  PROVE  Fit(tape, doubled)'
BY DEF opts, Fit, Kept, Begun, Sound, Typed, Follows, NamesRight, RightAt, UserUpTo,
       Place, Places, Described, Hung

\* What is left of TypeOK when a tape is fit.
LEMMA FitTyped ==
  ASSUME NEW t, NEW d, Fit(t, d)
  PROVE  t \in Tape /\ t.cur \in 0 .. Len(t.list) /\ t.time \in Nat
BY DEF Fit, Kept, Sound, Typed, Tape

LEMMA FitTime ==
  ASSUME FileOK, NEW t, NEW d, Fit(t, d), NEW time \in Nat
  PROVE  Fit(WithTime(t, time), d)
BY TimeKept DEF Fit, Begun

LEMMA FitReset ==
  ASSUME FileOK, NEW t, NEW d, Fit(t, d)
  PROVE  Fit(Reset(t), d)
BY ResetKept DEF Fit, Kept

LEMMA FitPlayOne ==
  ASSUME FileOK, NEW t, NEW d, Fit(t, d), t.cur # 0
  PROVE  Fit(PlayOne(t), d)
<1>1. /\ Kept(PlayOne(t), d)
      /\ ~d => Place(PlayOne(t)) = Place(t) \/ Place(PlayOne(t)) = Place(t) + 1
  BY PlayOneKept DEF Fit
<1>2. Place(t) \in Places
  BY CurrentEntry DEF Fit, Kept
<1>3. Begun(PlayOne(t), d)
  BY <1>1, <1>2, UserUpToOn DEF Fit, Begun
<1> QED
  BY <1>1, <1>3 DEF Fit

LEMMA FitPassOver ==
  ASSUME FileOK, NEW t, NEW d, Fit(t, d), t.cur # 0
  PROVE  Fit(PassOver(t), d)
<1>1. Kept(PassOver(t), d) /\ (~d => Place(PassOver(t)) = Place(t) + 1)
  BY PassOverKept DEF Fit
<1>2. Place(t) \in Places
  BY CurrentEntry DEF Fit, Kept
<1>3. Begun(PassOver(t), d)
  BY <1>1, <1>2, UserUpToOn DEF Fit, Begun
<1> QED
  BY <1>1, <1>3 DEF Fit

\* A message is played, and fails.
LEMMA FitDispatch ==
  ASSUME FileOK, NEW t, NEW d, Fit(t, d), t.cur # 0, Current(t).kind = "user"
  PROVE  Fit(Dispatch(t), d)
<1>1. /\ Sound(Dispatch(t), d) /\ Place(Dispatch(t)) = Place(t)
      /\ Dispatch(t).straight = t.straight
      /\ Dispatch(t).table = TableAfter(t.table, file[Place(t)])
  BY DispatchKept DEF Fit, Kept
<1>2. Current(t) = file[Place(t)]
  BY CurrentEntry DEF Fit, Kept
<1>3. Dispatch(t).table = t.table
  BY <1>1, <1>2 DEF TableAfter
<1> QED
  BY <1>1, <1>3 DEF Fit, Kept, NamesRight, Begun

LEMMA PlayToTyped ==
  ASSUME TypeOK, NEW end \in Nat
  PROVE  PlayTo(end) \in [end : Nat, left : Nat]
<1>1. limit \in Nat
  BY FileAssumption DEF TypeOK
<1> QED
  BY <1>1 DEF PlayTo

LEMMA AccumulatedTyped ==
  ASSUME TypeOK
  PROVE  Accumulated \in Nat
<1>1. accum \in Nat /\ idle \in Nat /\ (rate = 0 \/ rate = 1)
  BY DEF TypeOK
<1> QED
  BY <1>1 DEF Accumulated

LEMMA BaseTyped ==
  ASSUME TypeOK
  PROVE  Base \in Nat
BY DEF TypeOK, Base

\* The time of the first user message, if there is one.
LEMMA UserTimesTyped ==
  ASSUME FileOK, UserTimes # {}
  PROVE  Min(UserTimes) \in Nat
<1>1. UserTimes \subseteq Nat
  <2>1. \A j \in DOMAIN file : file[j] \in Entry
    BY DEF FileOK
  <2>2. \A j \in DOMAIN file : file[j].time \in Nat
    BY <2>1 DEF Entry
  <2> QED
    BY <2>2 DEF UserTimes
<1>2. \E m \in UserTimes : \A n \in UserTimes : m <= n
  BY <1>1, Least
<1> QED
  BY <1>1, <1>2 DEF Min

LEMMA OpenedKept ==
  ASSUME FileOK
  PROVE  Kept(Opened, FALSE) /\ Opened.cur = 1 /\ Place(Opened) = 1
         /\ Opened.time = file[1].time
<1> DEFINE all == IF mode = "preload" THEN Len(file) ELSE 1
           l == [i \in 1 .. all |-> i]
<1>1. Len(file) \in Nat /\ Len(file) > 0 /\ file[1] \in Entry
  BY DEF FileOK
<1>2. all \in Nat /\ all > 0 /\ all <= Len(file) /\ file[1].time \in Nat
  BY <1>1 DEF Entry
<1>3. /\ l \in Seq(Places) /\ l \in Seq(Nat \ {0}) /\ Len(l) = all /\ l # <<>>
      /\ \A i \in 1 .. all : l[i] = i
  <2> HIDE DEF all
  <2> QED
    BY <1>1, <1>2 DEF Places
<1>4. NoNames \in [Num -> Name \cup {NoName}]
  BY DEF NoNames
<1>5. Opened = [list |-> l, cur |-> 1, next |-> all + 1, time |-> file[1].time,
                table |-> NoNames, straight |-> TRUE]
  BY DEF Opened
<1> HIDE DEF l, NoNames
<1>6. /\ Opened.list = l /\ Opened.cur = 1 /\ Opened.next = all + 1
      /\ Opened.time = file[1].time /\ Opened.table = NoNames
  BY <1>5
<1>7. Opened \in Tape
  <2> HIDE DEF all
  <2> QED
    BY <1>2, <1>3, <1>4, <1>5 DEF Tape
<1>8. Place(Opened) = 1
  BY <1>2, <1>3, <1>6 DEF Place
<1>9. Typed(Opened)
  BY <1>2, <1>3, <1>6, <1>7 DEF Typed
<1>10. Follows(Opened, FALSE)
  <2>1. mode = "preload" => all = Len(file)
    OBVIOUS
  <2>2. mode = "neither" => all = 1
    OBVIOUS
  <2>3. l = [i \in 1 .. Len(l) |-> i]
    BY <1>3 DEF l
  <2> HIDE DEF all
  <2> QED
    BY <1>2, <1>3, <1>6, <2>1, <2>2, <2>3 DEF Follows
<1>11. NamesRight(Opened, FALSE)
  BY <1>6, <1>8, DescribedFirst DEF NamesRight, RightAt, NoNames
<1> QED
  BY <1>6, <1>8, <1>9, <1>10, <1>11 DEF Kept, Sound

\* What TypeOK says besides.
RestTyped ==
    /\ start \in Nat /\ earliest \in Nat
    /\ play \in [end : Nat, left : Nat]
    /\ running \in BOOLEAN /\ accum \in Nat /\ idle \in Nat /\ rate \in 0 .. 1
    /\ crashed \in BOOLEAN /\ calls \in Nat /\ doubled \in BOOLEAN

LEMMA InvInit == Init => IInv
<1> SUFFICES ASSUME Init PROVE IInv
  OBVIOUS
<1>1. file \in Files /\ mode \in Modes /\ skip \in BOOLEAN /\ limit \in Limits
  BY Zenon DEF Init
<1>2. FileOK
  BY <1>1, FileAssumption DEF FileOK
<1>3. doubled = FALSE /\ running \in BOOLEAN /\ crashed \in BOOLEAN /\ doubled \in BOOLEAN
  BY Zenon DEF Init
<1>4. Fit(tape, FALSE)
  <2>1. CASE skip
    <3>1. tape = PlayToUserMessage(Opened)
      BY <2>1 DEF Init
    <3> HIDE DEF Opened
    <3>2. Kept(Opened, FALSE) /\ Opened.cur = 1 /\ Place(Opened) = 1
      BY <1>2, OpenedKept
    <3>3. Kept(tape, FALSE) /\ (~Hung => UserUpTo(Place(tape)))
      BY <1>2, <2>1, <3>1, <3>2, PlayToUserKept
    <3> QED
      BY <3>3 DEF Fit, Begun
  <2>2. CASE ~skip
    <3>1. tape = Opened
      BY <2>2 DEF Init
    <3> QED
      BY <1>2, <2>2, <3>1, OpenedKept DEF Fit, Begun
  <2> QED
    BY <2>1, <2>2
<1>5. tape \in Tape /\ tape.cur \in 0 .. Len(tape.list) /\ tape.time \in Nat
  BY <1>4, FitTyped
<1>6. start \in Nat
  <2>1. file[1] \in Entry
    BY <1>2 DEF FileOK
  <2>2. file[1].time \in Nat
    BY <2>1 DEF Entry
  <2>3. start = file[1].time \/ start = tape.time
    BY DEF Init
  <2> QED
    BY <1>5, <2>2, <2>3
<1>7. /\ earliest = 0 /\ play = Idle /\ accum = 0 /\ idle = 0 /\ rate = 1 /\ calls = 0
  BY DEF Init
<1>8. play \in [end : Nat, left : Nat]
  BY <1>7 DEF Idle
<1>9. Fit(tape, doubled)
  BY <1>3, <1>4, Zenon
<1> QED
  BY <1>1, <1>3, <1>5, <1>6, <1>7, <1>8, <1>9 DEF IInv, TypeOK

LEMMA InvPrimed ==
  ASSUME TypeOK, UNCHANGED opts, Fit(tape', doubled'), RestTyped'
  PROVE  IInv'
<1>1. Fit(tape, doubled)'
  BY FitPrimed
<1>2. tape' \in Tape /\ tape'.cur \in 0 .. Len(tape'.list)
  BY FitTyped
<1> QED
  BY <1>1, <1>2 DEF IInv, TypeOK, RestTyped, opts, Tape

\* One message has been played.
LEMMA OneLessTyped ==
  ASSUME RestTyped, play' = Idle \/ play' = OneLess
  PROVE  play' \in [end : Nat, left : Nat]
<1>1. play \in [end : Nat, left : Nat] /\ play.left \in Nat /\ play.end \in Nat
  BY DEF RestTyped
<1>2. OneLess = [end |-> play.end, left |-> IF play.left = 0 THEN 0 ELSE play.left - 1]
  BY <1>1 DEF OneLess
<1>3. OneLess \in [end : Nat, left : Nat] /\ Idle \in [end : Nat, left : Nat]
  BY <1>1, <1>2 DEF Idle
<1> QED
  BY <1>3

LEMMA InvPlaying ==
  ASSUME IInv, \/ Tick \/ MainloopStart \/ Mainloop \/ PlayDone \/ PlayNext
               \/ PlayNextFails \/ PlayNextResets
  PROVE  IInv'
<1>1. TypeOK /\ FileOK /\ Fit(tape, doubled) /\ RestTyped
  BY FileIsOK DEF IInv, TypeOK, RestTyped
<1>2. tape \in Tape /\ tape.time \in Nat
  BY <1>1, FitTyped
<1>3. CASE Tick
  <2>1. UNCHANGED opts /\ UNCHANGED <<tape, doubled>>
    BY <1>3, Zenon DEF Tick
  <2>2. RestTyped'
    <3>1. UNCHANGED <<start, earliest, play, running, accum, rate, crashed, calls, doubled>>
          /\ idle' = idle + 1
      BY <1>3, Zenon DEF Tick
    <3> QED
      BY <1>1, <3>1 DEF RestTyped
  <2> QED
    BY <1>1, <2>1, <2>2, InvPrimed
<1>4. CASE MainloopStart
  <2>1. UNCHANGED opts /\ UNCHANGED <<tape, doubled>>
    BY <1>4, Zenon DEF MainloopStart
  <2>2. RestTyped'
    <3>1. /\ UNCHANGED <<start, earliest, play, rate, crashed, calls, doubled>>
          /\ running' \in BOOLEAN /\ accum' = 0 /\ idle' = 0
      BY <1>4, Zenon DEF MainloopStart
    <3> QED
      BY <1>1, <3>1 DEF RestTyped
  <2> QED
    BY <1>1, <2>1, <2>2, InvPrimed
<1>5. CASE Mainloop
  <2>1. tape' = tape
    <3>1. tape.cur # 0 \/ tape.next > Len(file)
      BY <1>1 DEF Fit, Kept, Sound, Follows
    <3> QED
      BY <1>5, <3>1 DEF Mainloop
  <2>2. /\ UNCHANGED opts
        /\ UNCHANGED <<start, earliest, running, rate, crashed, calls, doubled>>
    BY <1>5, Zenon DEF Mainloop
  <2>3. /\ accum' = 0 \/ accum' = Accumulated
        /\ idle' = 0 /\ (play' = Idle \/ play' = PlayTo(tape.time + Accumulated))
    BY <1>5 DEF Mainloop
  <2>4. Accumulated \in Nat
    BY <1>1, AccumulatedTyped
  <2>5. play' \in [end : Nat, left : Nat]
    BY <1>1, <1>2, <2>3, <2>4, PlayToTyped DEF Idle
  <2>6. RestTyped'
    BY <1>1, <2>2, <2>3, <2>4, <2>5 DEF RestTyped
  <2> QED
    BY <1>1, <2>1, <2>2, <2>6, InvPrimed
<1>6. CASE PlayDone
  <2>1. /\ UNCHANGED opts /\ play' = Idle /\ tape' = WithTime(tape, play.end)
        /\ UNCHANGED <<start, earliest, clock, rate, crashed, calls, doubled>>
    BY <1>6 DEF PlayDone, WithTime
  <2>2. play.end \in Nat
    BY <1>1 DEF RestTyped
  <2>3. Fit(tape', doubled')
    BY <1>1, <2>1, <2>2, FitTime
  <2>4. RestTyped'
    BY <1>1, <2>1 DEF RestTyped, Idle, clock
  <2> QED
    BY <1>1, <2>1, <2>3, <2>4, InvPrimed
<1>7. CASE PlayNext
  <2>1. /\ UNCHANGED opts /\ tape' = PlayOne(tape) /\ tape.cur # 0
        /\ UNCHANGED <<start, earliest, clock, rate, crashed, calls, doubled>>
    BY <1>7, Zenon DEF PlayNext, More
  <2>2. play' \in [end : Nat, left : Nat]
    <3>1. play' = Idle \/ play' = OneLess
      BY <1>7 DEF PlayNext
    <3> QED
      BY <1>1, <3>1, OneLessTyped
  <2>3. Fit(tape', doubled')
    BY <1>1, <2>1, FitPlayOne
  <2>4. RestTyped'
    BY <1>1, <2>1, <2>2 DEF RestTyped, clock
  <2> QED
    BY <1>1, <2>1, <2>3, <2>4, InvPrimed
<1>9. CASE PlayNextFails
  <2>1. /\ UNCHANGED opts /\ play' = Idle /\ calls' = calls + 1
        /\ tape' = tape \/ (Current(tape).kind = "user" /\ tape' = Dispatch(tape))
        /\ UNCHANGED <<start, earliest, clock, rate, crashed, doubled>>
        /\ tape.cur # 0
    BY <1>9, Zenon DEF PlayNextFails, More
  <2>2. Fit(tape', doubled')
    BY <1>1, <2>1, FitDispatch
  <2>3. RestTyped'
    BY <1>1, <2>1 DEF RestTyped, Idle, clock
  <2> QED
    BY <1>1, <2>1, <2>2, <2>3, InvPrimed
<1>8. CASE PlayNextResets
  <2>1. /\ UNCHANGED opts /\ tape' = PassOver(Reset(Dispatch(tape)))
        /\ tape.cur # 0 /\ Current(tape).kind = "user"
        /\ play' = Idle \/ play' = OneLess
        /\ UNCHANGED <<start, earliest, rate, crashed, doubled>>
        /\ calls' = calls + 1
    <3>1. /\ UNCHANGED opts /\ tape' = PassOver(Reset(Dispatch(tape)))
          /\ tape.cur # 0 /\ Current(tape).kind = "user"
          /\ UNCHANGED <<start, earliest, rate, crashed, doubled>>
          /\ calls' = calls + 1
      BY <1>8, Zenon DEF PlayNextResets, More
    <3>2. play' = Idle \/ play' = OneLess
      BY <1>8 DEF PlayNextResets
    <3> QED
      BY <3>1, <3>2
  <2>2. running' = FALSE /\ accum' = 0 /\ idle' = 0
    BY <1>8, Zenon DEF PlayNextResets, ClockReset
  <2>3. play' \in [end : Nat, left : Nat]
    BY <1>1, <2>1, OneLessTyped
  <2>4. HasUser /\ Sound(Dispatch(tape), doubled)
    BY <1>1, <2>1, CurrentEntry, DispatchKept DEF Fit, Kept, HasUser
  <2>5. Fit(Reset(Dispatch(tape)), doubled) /\ Reset(Dispatch(tape)).cur # 0
    BY <1>1, <2>4, ResetKept DEF Fit
  <2>6. Fit(tape', doubled')
    BY <1>1, <2>1, <2>5, FitPassOver
  <2>7. RestTyped'
    <3>1. UNCHANGED <<start, earliest, rate, crashed, doubled>> /\ calls' \in Nat
      BY <1>1, <2>1 DEF RestTyped
    <3>2. running' \in BOOLEAN /\ accum' \in Nat /\ idle' \in Nat
      BY <2>2
    <3> QED
      BY <1>1, <2>3, <3>1, <3>2 DEF RestTyped
  <2> QED
    BY <1>1, <2>1, <2>6, <2>7, InvPrimed
<1> QED
  BY <1>3, <1>4, <1>5, <1>6, <1>7, <1>8, <1>9

\* Where jump_to_time goes on from.
JumpFrom(n) ==
    IF tape.cur = 0 \/ Current(tape).time > Base + n THEN Reset(tape)
    ELSE WithTime(tape, Base + n)

LEMMA JumpIs ==
  ASSUME NEW n, JumpToTime(n)
  PROVE  /\ tape' = LoopEnd("pass", JumpFrom(n).time, JumpFrom(n))
         /\ crashed' \in BOOLEAN
         /\ \/ running' = FALSE /\ accum' = 0 /\ idle' = 0
            \/ UNCHANGED clock
<1>1. tape' = LoopEnd("pass", JumpFrom(n).time, JumpFrom(n))
  BY DEF JumpToTime, Loop, LoopEnd, Run, LoopStep, Goes, Does, JumpFrom, WithTime
<1>2. crashed' \in BOOLEAN
  BY Zenon DEF JumpToTime
<1>3. ClockReset \/ UNCHANGED clock
  BY Zenon DEF JumpToTime
<1> QED
  BY <1>1, <1>2, <1>3 DEF ClockReset

LEMMA InvCalls ==
  ASSUME IInv,
         \/ \E r \in 0 .. 1 : SetReplayRate(r)
         \/ ResetCall \/ PlayOneCall \/ GetLength
         \/ \E n \in 0 .. MaxElapsed : PlayToTime(n) \/ JumpToTime(n)
  PROVE  IInv'
<1>1. TypeOK /\ FileOK /\ Fit(tape, doubled) /\ RestTyped
  BY FileIsOK DEF IInv, TypeOK, RestTyped
<1>2. tape \in Tape /\ tape.time \in Nat /\ Base \in Nat
  BY <1>1, FitTyped, BaseTyped
<1>3. ASSUME Call
      PROVE  /\ UNCHANGED opts /\ start' = start /\ calls' = calls + 1 /\ calls' \in Nat
             /\ play = Idle /\ ~Hung
  <2>1. /\ UNCHANGED opts /\ start' = start /\ calls' = calls + 1 /\ play = Idle
        /\ ~Hung
    BY <1>3, Zenon DEF Call, Ready
  <2> QED
    BY <1>1, <2>1 DEF RestTyped
<1>4. ASSUME ClockReset PROVE running' \in BOOLEAN /\ accum' \in Nat /\ idle' \in Nat
  <2>1. running' = FALSE /\ accum' = 0 /\ idle' = 0
    BY <1>4, Zenon DEF ClockReset
  <2> QED
    BY <2>1
<1>5. ASSUME NEW r \in 0 .. 1, SetReplayRate(r) PROVE IInv'
  <2>1. Call /\ UNCHANGED <<tape, earliest, play, running, crashed, doubled>>
        /\ rate' = r /\ accum' = Accumulated /\ idle' = 0
    BY <1>5, Zenon DEF SetReplayRate
  <2>2. Accumulated \in Nat
    BY <1>1, AccumulatedTyped
  <2>3. RestTyped'
    BY <1>1, <1>3, <2>1, <2>2 DEF RestTyped
  <2> QED
    BY <1>1, <1>3, <2>1, <2>3, InvPrimed
<1>6. CASE ResetCall
  <2>1. Call /\ tape' = Reset(tape) /\ ClockReset
        /\ UNCHANGED <<earliest, play, rate, crashed, doubled>>
    BY <1>6, Zenon DEF ResetCall
  <2>2. Fit(tape', doubled')
    BY <1>1, <2>1, FitReset
  <2>3. RestTyped'
    BY <1>1, <1>3, <1>4, <2>1 DEF RestTyped
  <2> QED
    BY <1>1, <1>3, <2>1, <2>2, <2>3, InvPrimed
<1>7. CASE PlayOneCall
  <2>1. Call /\ play' = [end |-> Forever, left |-> 1]
        /\ UNCHANGED <<tape, earliest, clock, rate, crashed, doubled>>
    BY <1>7, Zenon DEF PlayOneCall
  <2>2. play' \in [end : Nat, left : Nat]
    BY <2>1 DEF Forever
  <2>3. RestTyped'
    BY <1>1, <1>3, <2>1, <2>2 DEF RestTyped, clock
  <2> QED
    BY <1>1, <1>3, <2>1, <2>3, InvPrimed
<1>8. CASE GetLength
  <2>1. /\ Call /\ tape' = Asked(tape) /\ ClockReset
        /\ earliest' = IF UserTimes = {} THEN 0 ELSE Min(UserTimes)
        /\ UNCHANGED <<play, rate, crashed>>
    BY <1>8, Zenon DEF GetLength, Asked
  <2>2. doubled' = SetBack(tape, doubled)
    BY <1>8, Zenon DEF GetLength, SetBack
  <2>3. doubled \in BOOLEAN /\ doubled' \in BOOLEAN
    BY <1>1, <2>2 DEF RestTyped, SetBack
  <2>4. Fit(tape', doubled')
    BY <1>1, <1>3, <2>1, <2>2, <2>3, AskedKept DEF Fit
  <2>5. earliest' \in Nat
    BY <1>1, <2>1, UserTimesTyped
  <2>6. RestTyped'
    BY <1>1, <1>3, <1>4, <2>1, <2>3, <2>5 DEF RestTyped
  <2> QED
    BY <1>1, <1>3, <2>1, <2>4, <2>6, InvPrimed
<1>9. ASSUME NEW n \in 0 .. MaxElapsed, PlayToTime(n) PROVE IInv'
  <2>1. Call /\ play' = PlayTo(Base + n)
        /\ UNCHANGED <<earliest, rate, crashed, doubled>>
        /\ \/ tape' = Reset(tape) /\ ClockReset
           \/ UNCHANGED <<tape, clock>>
    BY <1>9, Zenon DEF PlayToTime
  <2>2. Base + n \in Nat
    BY <1>2
  <2>3. play' \in [end : Nat, left : Nat]
    BY <1>1, <2>1, <2>2, PlayToTyped
  <2>4. Fit(tape', doubled')
    BY <1>1, <2>1, FitReset
  <2>5. running' \in BOOLEAN /\ accum' \in Nat /\ idle' \in Nat
    BY <1>1, <1>4, <2>1 DEF RestTyped, clock
  <2>6. RestTyped'
    BY <1>1, <1>3, <2>1, <2>3, <2>5 DEF RestTyped
  <2> QED
    BY <1>1, <1>3, <2>1, <2>4, <2>6, InvPrimed
<1>10. ASSUME NEW n \in 0 .. MaxElapsed, JumpToTime(n) PROVE IInv'
  <2>1. Call /\ UNCHANGED <<earliest, play, rate, doubled>>
    BY <1>10, Zenon DEF JumpToTime
  <2>2. Base + n \in Nat
    BY <1>2
  <2>3. Fit(JumpFrom(n), doubled)
    BY <1>1, <2>2, FitReset, FitTime DEF JumpFrom
  <2>4. /\ tape' = LoopEnd("pass", JumpFrom(n).time, JumpFrom(n))
        /\ crashed' \in BOOLEAN
        /\ \/ running' = FALSE /\ accum' = 0 /\ idle' = 0
           \/ UNCHANGED clock
    BY <1>10, JumpIs
  <2>5. Fit(tape', doubled')
    BY <1>1, <2>1, <2>3, <2>4, PassKept DEF Fit
  <2>6. running' \in BOOLEAN /\ accum' \in Nat /\ idle' \in Nat
    <3>1. CASE UNCHANGED clock
      BY <1>1, <3>1 DEF RestTyped, clock
    <3>2. CASE running' = FALSE /\ accum' = 0 /\ idle' = 0
      <4>1. 0 \in Nat /\ FALSE \in BOOLEAN
        OBVIOUS
      <4> QED
        BY <3>2, <4>1, Zenon
    <3> QED
      BY <2>4, <3>1, <3>2
  <2>7. RestTyped'
    BY <1>1, <1>3, <2>1, <2>4, <2>6 DEF RestTyped
  <2> QED
    BY <1>1, <1>3, <2>1, <2>5, <2>7, InvPrimed
<1> QED
  BY <1>5, <1>6, <1>7, <1>8, <1>9, <1>10

LEMMA InvStays == IInv /\ UNCHANGED vars => IInv'
<1> SUFFICES ASSUME IInv, UNCHANGED vars PROVE IInv'
  OBVIOUS
<1>1. TypeOK /\ Fit(tape, doubled) /\ RestTyped
  BY FileIsOK DEF IInv, TypeOK, RestTyped
<1>2. /\ UNCHANGED opts /\ tape' = tape /\ doubled' = doubled
  BY DEF vars
<1>3. RestTyped'
  BY <1>1 DEF RestTyped, vars, clock
<1> QED
  BY <1>1, <1>2, <1>3, InvPrimed

LEMMA Invariant == Spec => []IInv
<1>1. IInv /\ Next => IInv'
  BY InvPlaying, InvCalls DEF Next
<1>2. IInv /\ [Next]_vars => IInv'
  BY <1>1, InvStays
<1> QED
  BY InvInit, <1>2, PTL DEF Spec

----------------------------------------------------------------------------
(* The properties. *)

\* Everything has its type: what is in memory are places of the file, and
\* d_currentLogEntry points into it or is NULL.
THEOREM TypeCorrect == Spec => []TypeOK
<1>1. IInv => TypeOK
  BY DEF IInv
<1> QED
  BY <1>1, Invariant, PTL

\* What is in memory and where the file stands fit together, whatever was asked for in
\* whatever order: read_entry, advance_currentLogEntry, reset and the bookmark together
\* miss no entry and read none twice, but for a file that is accumulated and whose
\* length is asked for in the middle.
THEOREM ListFollowsFileHolds == Spec => []ListFollowsFile
<1>1. IInv => ListFollowsFile
  BY DEF IInv, Fit, Kept, Sound, Follows, ListFollowsFile
<1> QED
  BY <1>1, Invariant, PTL

\* Whatever is played, reset, jumped to and asked for, and whatever fails: the table of
\* types that the descriptions and disconnect messages on the way have left says of the
\* number of a user message what the recording says at its place, as long as none of
\* them has been passed over.
THEOREM NamesKeptHolds == Spec => []NamesKept
<1>1. IInv => NamesKept
  <2> SUFFICES ASSUME IInv, tape.cur # 0, tape.straight, ~doubled,
                      Current(tape).kind = "user"
               PROVE  tape.table[Current(tape).num] = Described(Place(tape), Current(tape).num)
    BY DEF NamesKept
  <2>1. FileOK /\ Sound(tape, doubled) /\ RightAt(tape.table, Place(tape))
    BY FileIsOK DEF IInv, Fit, Kept, NamesRight
  <2>2. Current(tape).num \in Num
    BY <2>1, CurrentEntry DEF Entry
  <2> QED
    BY <2>1, <2>2 DEF RightAt
<1> QED
  BY <1>1, Invariant, PTL

\* Asking for the length of the recording takes the tape to its beginning and to its
\* end, and leaves it at the message and the time where it was.
THEOREM QueryKeepsPlaceHolds == Spec => QueryKeepsPlace
<1>1. ASSUME IInv, GetLength
      PROVE  Place(tape') = Place(tape) /\ tape'.time = tape.time
  <2>1. tape' = Asked(tape) /\ FileOK /\ Fit(tape, doubled) /\ doubled \in BOOLEAN
        /\ ~Hung
    BY <1>1, FileIsOK, Zenon DEF GetLength, Asked, IInv, TypeOK, Call, Ready
  <2> QED
    BY <2>1, AskedKept DEF Fit
<1>2. IInv /\ [Next]_vars
      => [GetLength => Place(tape') = Place(tape) /\ tape'.time = tape.time]_vars
  BY <1>1
<1> QED
  BY <1>2, Invariant, PTL DEF Spec, QueryKeepsPlace
====

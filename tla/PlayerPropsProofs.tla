--------------------------- MODULE PlayerPropsProofs ------------------------
(***************************************************************************)
(* Proofs about PlayerProps: when settings that wait are sent, that none   *)
(* is lost, and that what the shell believes of a property disagrees with  *)
(* mpv, once nothing is under way about it, only where a notice that would *)
(* have set it right was never given.                                      *)
(*                                                                         *)
(* The argument for the last: mpv's notices (Heard) are what everything is *)
(* measured by.  As long as mpv has the value that it told last, replies   *)
(* bring that value (RepliesAgree); and if all that is to be set is that   *)
(* value too (Quiet), then what is cached is it, unless the cache was      *)
(* emptied for a new file and the answer is on its way (CacheAgrees), and  *)
(* IS_PAUSED is it, unless the page's own report wrote it (PausedAgrees).  *)
(* Where mpv comes back to that value without a notice, what was believed  *)
(* before counts: it was the value too, or there was nothing yet, and then *)
(* the answer is on its way (CacheFilled); anything else is `missed'.      *)
(***************************************************************************)
EXTENDS PlayerProps, SequenceTheorems, WellFoundedInduction, TLAPS

-----------------------------------------------------------------------------
(* The invariant.                                                          *)

Members(s) == {s[i] : i \in DOMAIN s}

\* mpv has told the value that it has, and owes the shell no other word.
Heard(n) == told[n] = mpv[n] /\ n \notin missed

\* Nothing waits, and what mpv is yet to set is what it has.
Quiet(n) ==
    /\ Heard(n)
    /\ \A s \in Members(pending) : s.name # n
    /\ \A c \in Members(core) : c.op = "set" /\ c.name = n => c.value = mpv[n]

RepliesAgree == \A r \in Members(replies) : Heard(r.name) => r.value = mpv[r.name]

Asked(n) == Get(n) \in Members(core) \/ \E r \in Members(replies) : r.name = n

CacheAgrees ==
    \A n \in Immediate :
        Quiet(n) /\ (n \in FileScoped => phase = "Loaded") =>
            cache[n] = mpv[n] \/ (n \in FileScoped /\ Asked(n))

\* A report on its way is the page's last.
MediaAgrees == media.sent # NoValue => media.sent = media.last

PausedAgrees ==
    Quiet(Pause) => paused = mpv[Pause] \/ paused = media.last \/ media.sent # NoValue

\* What mpv has told of is cached, except a track of a file whose snapshot is on its way.
CacheFilled ==
    \A n \in Immediate :
        cache[n] = NoValue =>
            IF n \in FileScoped THEN phase = "Loaded" => Asked(n) ELSE told[n] = NoValue

Agreement == RepliesAgree /\ CacheAgrees /\ MediaAgrees /\ PausedAgrees /\ CacheFilled

-----------------------------------------------------------------------------
(* Sequences.                                                              *)

LEMMA Membership ==
    ASSUME NEW S, NEW s \in Seq(S)
    PROVE  /\ Members(s) \subseteq S
           /\ \A x : x \in Members(s) <=> \E i \in 1..Len(s) : s[i] = x
           /\ Members(<<>>) = {}
  BY DEF Members

LEMMA MembersAppend ==
    ASSUME NEW S, NEW s \in Seq(S), NEW x \in S
    PROVE  Append(s, x) \in Seq(S) /\ Members(Append(s, x)) = Members(s) \cup {x}
  <1>1. /\ Append(s, x) \in Seq(S) /\ Len(s) \in Nat
        /\ DOMAIN Append(s, x) = 1..(Len(s) + 1)
        /\ DOMAIN s = 1..Len(s)
        /\ \A i \in 1..Len(s) : Append(s, x)[i] = s[i]
        /\ Append(s, x)[Len(s) + 1] = x
    OBVIOUS
  <1>2. 1..(Len(s) + 1) = (1..Len(s)) \cup {Len(s) + 1} /\ Len(s) + 1 \notin 1..Len(s)
    BY <1>1
  <1> QED  BY <1>1, <1>2 DEF Members

LEMMA MembersConcat ==
    ASSUME NEW S, NEW s \in Seq(S), NEW t \in Seq(S)
    PROVE  s \o t \in Seq(S) /\ Members(s \o t) = Members(s) \cup Members(t)
  <1>1. /\ s \o t \in Seq(S) /\ Len(s) \in Nat /\ Len(t) \in Nat
        /\ DOMAIN (s \o t) = 1..(Len(s) + Len(t))
        /\ DOMAIN s = 1..Len(s) /\ DOMAIN t = 1..Len(t)
        /\ \A i \in 1..(Len(s) + Len(t)) :
              (s \o t)[i] = IF i <= Len(s) THEN s[i] ELSE t[i - Len(s)]
    BY ConcatProperties
  <1>2. \A i \in 1..Len(s) : i \in 1..(Len(s) + Len(t)) /\ (s \o t)[i] = s[i]
    BY <1>1
  <1>3. \A i \in 1..Len(t) : /\ Len(s) + i \in 1..(Len(s) + Len(t))
                             /\ (s \o t)[Len(s) + i] = t[i]
    BY <1>1
  <1>4. \A i \in 1..(Len(s) + Len(t)) :
           \/ i \in 1..Len(s) /\ (s \o t)[i] = s[i]
           \/ i - Len(s) \in 1..Len(t) /\ (s \o t)[i] = t[i - Len(s)]
    BY <1>1
  <1>5. Members(s \o t) \subseteq Members(s) \cup Members(t)  BY <1>1, <1>4 DEF Members
  <1>6. Members(s) \subseteq Members(s \o t)  BY <1>1, <1>2 DEF Members
  <1>7. Members(t) \subseteq Members(s \o t)  BY <1>1, <1>3 DEF Members
  <1> QED  BY <1>1, <1>5, <1>6, <1>7

LEMMA MembersTail ==
    ASSUME NEW S, NEW s \in Seq(S), s # <<>>
    PROVE  Tail(s) \in Seq(S) /\ Head(s) \in S /\ Members(s) = {Head(s)} \cup Members(Tail(s))
  <1>1. /\ Len(s) \in Nat /\ Len(s) >= 1 /\ DOMAIN s = 1..Len(s)
        /\ Head(s) = s[1] /\ Head(s) \in S /\ Tail(s) \in Seq(S)
        /\ DOMAIN Tail(s) = 1..(Len(s) - 1)
        /\ \A i \in 1..(Len(s) - 1) : Tail(s)[i] = s[i + 1]
    <2>1. Len(s) \in Nat /\ Len(s) >= 1  OBVIOUS
    <2>2. Tail(s) \in Seq(S) /\ Len(Tail(s)) = Len(s) - 1 /\ Head(s) = s[1] /\ Head(s) \in S
      BY HeadTailProperties
    <2> QED  BY <2>1, <2>2, HeadTailProperties
  <1>2. \A i \in 1..Len(s) : i = 1 \/ (i - 1 \in 1..(Len(s) - 1) /\ Tail(s)[i - 1] = s[i])
    BY <1>1
  <1>3. \A i \in 1..(Len(s) - 1) : i + 1 \in 1..Len(s) /\ Tail(s)[i] = s[i + 1]
    BY <1>1
  <1>4. Members(s) \subseteq {Head(s)} \cup Members(Tail(s))
    <2>1. SUFFICES ASSUME NEW i \in 1..Len(s)
                   PROVE  s[i] = Head(s) \/ s[i] \in Members(Tail(s))
      BY <1>1 DEF Members
    <2>2. CASE i = 1  BY <1>1, <2>2
    <2>3. CASE i # 1  BY <1>1, <1>2, <2>3 DEF Members
    <2> QED  BY <2>2, <2>3
  <1>5. Members(Tail(s)) \subseteq Members(s)  BY <1>1, <1>3 DEF Members
  <1>6. Head(s) \in Members(s)  BY <1>1 DEF Members
  <1> QED  BY <1>1, <1>4, <1>5, <1>6

-----------------------------------------------------------------------------
(* Only, by induction on the length of the list: a set of numbers that is  *)
(* not empty has a least one.                                              *)

LEMMA LeastNumber ==
    ASSUME NEW T, T \subseteq Nat, T # {}
    PROVE  \E x \in T : \A y \in T : x <= y
  <1> DEFINE less == OpToRel(<, Nat)
  <1>1. IsWellFoundedOn(less, Nat)  BY NatLessThanWellFounded
  <1>2. \E x \in T : \A y \in T : ~(<<y, x>> \in less)
    <2> HIDE DEF less
    <2> QED  BY <1>1, WFMin
  <1>3. \A x, y \in Nat : y < x => <<y, x>> \in less  BY DEF OpToRel
  <1>4. PICK x \in T : \A y \in T : ~(<<y, x>> \in less)  BY <1>2
  <1>5. \A y \in T : ~(y < x)  BY <1>3, <1>4
  <1>6. \A y \in T : x <= y  BY <1>5
  <1> QED  BY <1>6

\* What holds at zero and passes on from each number to the next holds for all.
LEMMA Induction ==
    ASSUME NEW good, NEW n \in Nat, 0 \in good,
           \A i \in 0..(n - 1) : i \in good => i + 1 \in good
    PROVE  0..n \subseteq good
  <1> DEFINE bad == {i \in 0..n : i \notin good}
  <1>1. SUFFICES ASSUME bad # {}  PROVE FALSE
    OBVIOUS
  <1>2. bad \subseteq Nat  OBVIOUS
  <1>3. PICK x \in bad : \A y \in bad : x <= y  BY <1>1, <1>2, LeastNumber
  <1>4. x \in 0..n /\ x # 0  BY <1>3
  <1>5. x - 1 \in 0..(n - 1) /\ (x - 1) + 1 = x /\ x - 1 \in 0..n /\ ~(x <= x - 1)  BY <1>4
  <1>6. x - 1 \in good  BY <1>3, <1>5
  <1> QED  BY <1>3, <1>5, <1>6

\* The function by which Only is defined exists.
LEMMA OnlyDefined ==
    ASSUME NEW p \in Seq(Setting), NEW names
    PROVE  \E f : /\ Only(p, names) = f[Len(p)]
                  /\ f = [i \in 0..Len(p) |->
                             IF i = 0 THEN <<>>
                             ELSE IF p[i].name \in names THEN Append(f[i - 1], p[i])
                             ELSE f[i - 1]]
  <1> DEFINE Taken(s, i) == IF p[i].name \in names THEN Append(s, p[i]) ELSE s
             Upto(f, n) == f = [i \in 0..n |-> IF i = 0 THEN <<>> ELSE Taken(f[i - 1], i)]
             good == {n \in Nat : \E f : Upto(f, n)}
  <1>1. Len(p) \in Nat  OBVIOUS
  <1>2. 0 \in good
    <2> DEFINE f == [i \in 0..0 |-> <<>>]
    <2>1. Upto(f, 0)  OBVIOUS
    <2> QED  BY <2>1
  <1>3. ASSUME NEW n \in 0..(Len(p) - 1), n \in good
        PROVE  n + 1 \in good
    <2>1. PICK f : Upto(f, n)  BY <1>3
    <2> DEFINE g == [i \in 0..(n + 1) |-> IF i = n + 1 THEN Taken(f[n], n + 1) ELSE f[i]]
               h == [i \in 0..(n + 1) |-> IF i = 0 THEN <<>> ELSE Taken(g[i - 1], i)]
    <2>2. n \in Nat /\ n + 1 \in Nat /\ n + 1 # 0  BY <1>1
    <2> HIDE DEF Taken
    <2>3. /\ \A i \in 0..n : f[i] = IF i = 0 THEN <<>> ELSE Taken(f[i - 1], i)
      BY <2>1
    <2>4. \A i \in 0..n : g[i] = f[i] /\ i \in 0..(n + 1)  BY <2>2
    <2>5. g[n + 1] = Taken(f[n], n + 1) /\ f[n] = g[n]  BY <2>2, <2>4
    <2>6. ASSUME NEW i \in 0..(n + 1)
          PROVE  g[i] = IF i = 0 THEN <<>> ELSE Taken(g[i - 1], i)
      <3>1. CASE i = n + 1
        <4>1. i - 1 = n /\ i # 0  BY <2>2, <3>1
        <4> QED  BY <2>5, <3>1, <4>1
      <3>2. CASE i = 0
        <4>1. g[0] = f[0] /\ f[0] = <<>>  BY <2>2, <2>3, <2>4
        <4> QED  BY <3>2, <4>1
      <3>3. CASE i # n + 1 /\ i # 0
        <4>1. i \in 0..n /\ i - 1 \in 0..n  BY <2>2, <3>3
        <4>2. f[i] = Taken(f[i - 1], i)  BY <2>3, <3>3, <4>1
        <4>3. g[i] = f[i] /\ g[i - 1] = f[i - 1]  BY <2>4, <4>1
        <4> QED  BY <3>3, <4>2, <4>3
      <3> QED  BY <3>1, <3>2, <3>3
    <2>7. g = h  BY <2>6
    <2>8. Upto(g, n + 1)  BY <2>7
    <2> HIDE DEF Upto, g
    <2> QED  BY <2>2, <2>8
  <1>4. Len(p) \in good
    <2> HIDE DEF good
    <2>1. 0..Len(p) \subseteq good  BY <1>1, <1>2, <1>3, Induction
    <2> QED  BY <1>1, <2>1
  <1> DEFINE upTo[i \in 0..Len(p)] ==
                IF i = 0 THEN <<>>
                ELSE IF p[i].name \in names THEN Append(upTo[i - 1], p[i]) ELSE upTo[i - 1]
  <1>5. upTo = [i \in 0..Len(p) |->
                   IF i = 0 THEN <<>>
                   ELSE IF p[i].name \in names THEN Append(upTo[i - 1], p[i]) ELSE upTo[i - 1]]
    BY <1>4
  <1>6. Only(p, names) = upTo[Len(p)]  BY DEF Only
  <1> HIDE DEF upTo
  <1> QED  BY <1>5, <1>6

\* One setting of each name.
OneOfEach(p) == \A i, j \in DOMAIN p : p[i].name = p[j].name => i = j

\* Only keeps the settings of some names, and those only.
LEMMA OnlyFacts ==
    ASSUME NEW p \in Seq(Setting), NEW names
    PROVE  /\ Only(p, names) \in Seq(Setting)
           /\ Members(Only(p, names)) = {s \in Members(p) : s.name \in names}
           /\ OneOfEach(p) => OneOfEach(Only(p, names))
  <1>1. Len(p) \in Nat /\ DOMAIN p = 1..Len(p) /\ \A i \in 1..Len(p) : p[i] \in Setting
    OBVIOUS
  <1>2. PICK f : /\ Only(p, names) = f[Len(p)]
                 /\ f = [i \in 0..Len(p) |->
                            IF i = 0 THEN <<>>
                            ELSE IF p[i].name \in names THEN Append(f[i - 1], p[i])
                            ELSE f[i - 1]]
    BY OnlyDefined
  <1>3. /\ f[0] = <<>>
        /\ \A i \in 1..Len(p) :
              f[i] = IF p[i].name \in names THEN Append(f[i - 1], p[i]) ELSE f[i - 1]
    <2>1. 0 \in 0..Len(p) /\ \A i \in 1..Len(p) : i \in 0..Len(p) /\ i # 0  BY <1>1
    <2>2. \A i \in 0..Len(p) :
             f[i] = IF i = 0 THEN <<>>
                    ELSE IF p[i].name \in names THEN Append(f[i - 1], p[i]) ELSE f[i - 1]
      BY <1>2
    <2> QED  BY <2>1, <2>2
  <1> DEFINE Passed(n) == {p[i] : i \in {j \in 1..n : p[j].name \in names}}
             Fine(n) == /\ f[n] \in Seq(Setting)
                        /\ Members(f[n]) = Passed(n)
                        /\ OneOfEach(p) => OneOfEach(f[n])
             good == {n \in 0..Len(p) : Fine(n)}
  <1>4. 0 \in good
    <2>1. Passed(0) = {}  OBVIOUS
    <2>2. <<>> \in Seq(Setting) /\ Members(<<>>) = {} /\ OneOfEach(<<>>)
      BY DEF Members, OneOfEach
    <2>3. 0 \in 0..Len(p)  BY <1>1
    <2> HIDE DEF Passed
    <2> QED  BY <1>3, <2>1, <2>2, <2>3
  <1>5. ASSUME NEW n \in 0..(Len(p) - 1), n \in good
        PROVE  n + 1 \in good
    <2>1. /\ n \in Nat /\ n + 1 \in 1..Len(p) /\ n + 1 \in 0..Len(p) /\ (n + 1) - 1 = n
          /\ 1..(n + 1) = (1..n) \cup {n + 1} /\ n + 1 \notin 1..n
          /\ 1..n \subseteq 1..Len(p)
      BY <1>1
    <2>2. Fine(n)  BY <1>5
    <2>3. f[n] \in Seq(Setting) /\ Members(f[n]) = Passed(n)  BY <2>2
    <2>4. p[n + 1] \in Setting  BY <1>1, <2>1
    <2>5. CASE p[n + 1].name \in names
      <3>1. f[n + 1] = Append(f[n], p[n + 1])  BY <1>3, <2>1, <2>5
      <3>2. f[n + 1] \in Seq(Setting) /\ Members(f[n + 1]) = Members(f[n]) \cup {p[n + 1]}
        BY <2>3, <2>4, <3>1, MembersAppend
      <3>3. Passed(n + 1) = Passed(n) \cup {p[n + 1]}
        BY <2>1, <2>5
      <3>4. OneOfEach(p) => OneOfEach(f[n + 1])
        <4>1. SUFFICES ASSUME OneOfEach(p),
                              NEW i \in DOMAIN f[n + 1], NEW j \in DOMAIN f[n + 1],
                              f[n + 1][i].name = f[n + 1][j].name
                       PROVE  i = j
          BY DEF OneOfEach
        <4>2. OneOfEach(f[n])  BY <2>2, <4>1
        <4>3. /\ Len(f[n]) \in Nat /\ DOMAIN f[n] = 1..Len(f[n])
              /\ DOMAIN f[n + 1] = 1..(Len(f[n]) + 1)
              /\ f[n + 1][Len(f[n]) + 1] = p[n + 1]
              /\ \A k \in 1..Len(f[n]) : f[n + 1][k] = f[n][k]
          BY <2>3, <2>4, <3>1
        <4>4. \A k \in 1..Len(f[n]) : f[n][k].name # p[n + 1].name
          <5>1. SUFFICES ASSUME NEW k \in 1..Len(f[n])
                         PROVE  f[n][k].name # p[n + 1].name
            OBVIOUS
          <5>2. f[n][k] \in Passed(n)  BY <2>3, <4>3 DEF Members
          <5>3. PICK l \in 1..n : f[n][k] = p[l]  BY <5>2
          <5>4. l # n + 1 /\ l \in DOMAIN p /\ n + 1 \in DOMAIN p  BY <1>1, <2>1
          <5> QED  BY <4>1, <5>3, <5>4 DEF OneOfEach
        <4>5. i \in 1..Len(f[n]) \/ i = Len(f[n]) + 1  BY <4>3
        <4>6. j \in 1..Len(f[n]) \/ j = Len(f[n]) + 1  BY <4>3
        <4>7. CASE i \in 1..Len(f[n]) /\ j \in 1..Len(f[n])
          BY <4>1, <4>2, <4>3, <4>7 DEF OneOfEach
        <4>8. CASE i \in 1..Len(f[n]) /\ j = Len(f[n]) + 1
          BY <4>1, <4>3, <4>4, <4>8
        <4>9. CASE i = Len(f[n]) + 1 /\ j \in 1..Len(f[n])
          BY <4>1, <4>3, <4>4, <4>9
        <4> QED  BY <4>5, <4>6, <4>7, <4>8, <4>9
      <3>5. Fine(n + 1)  BY <2>3, <3>2, <3>3, <3>4
      <3> HIDE DEF Fine
      <3> QED  BY <2>1, <3>5
    <2>6. CASE p[n + 1].name \notin names
      <3>1. f[n + 1] = f[n]  BY <1>3, <2>1, <2>6
      <3>2. Passed(n + 1) = Passed(n)  BY <2>1, <2>6
      <3>3. Fine(n + 1)  BY <2>2, <3>1, <3>2
      <3> HIDE DEF Fine
      <3> QED  BY <2>1, <3>3
    <2> QED  BY <2>5, <2>6
  <1>6. Len(p) \in good
    <2> HIDE DEF good
    <2>1. 0..Len(p) \subseteq good  BY <1>1, <1>4, <1>5, Induction
    <2> QED  BY <1>1, <2>1
  <1>7. Fine(Len(p))  BY <1>6
  <1>8. Passed(Len(p)) = {s \in Members(p) : s.name \in names}
    BY <1>1 DEF Members
  <1> QED  BY <1>2, <1>7, <1>8

LEMMA PreloadFacts ==
    ASSUME NEW p \in Seq(Setting)
    PROVE  /\ Preload(p) \in Seq(Setting) /\ ForFile(p) \in Seq(Setting)
           /\ Members(Preload(p)) = {s \in Members(p) : s.name \notin FileScoped}
           /\ Members(ForFile(p)) = {s \in Members(p) : s.name \in FileScoped}
           /\ OneOfEach(p) => OneOfEach(ForFile(p))
  <1>1. \A s \in Members(p) : s.name \in Props
    <2>1. Members(p) \subseteq Setting  BY Membership
    <2> QED  BY <2>1 DEF Setting
  <1>2. /\ Preload(p) \in Seq(Setting)
        /\ Members(Preload(p)) = {s \in Members(p) : s.name \in Props \ FileScoped}
    BY OnlyFacts DEF Preload
  <1>3. Members(Preload(p)) = {s \in Members(p) : s.name \notin FileScoped}
    BY <1>1, <1>2
  <1> QED  BY <1>2, <1>3, OnlyFacts DEF ForFile

-----------------------------------------------------------------------------
(* What the model's operators on lists return.                             *)

CoreOp == {Set(s) : s \in Setting} \cup {Get(n) : n \in Props}

\* A set has a value and a get has none.
LEMMA CoreOpFacts ==
    /\ \A s \in Setting : /\ Set(s) \in CoreOp /\ Set(s).op = "set"
                          /\ Set(s).name = s.name /\ Set(s).value = s.value
    /\ \A n \in Props : /\ Get(n) \in CoreOp /\ Get(n).op = "get" /\ Get(n).name = n
                        /\ Get(n).value = NoValue
  <1>1. \A s \in Setting : /\ Set(s) \in CoreOp /\ Set(s).op = "set"
                           /\ Set(s).name = s.name /\ Set(s).value = s.value
                           /\ s.name \in Props /\ s.value \in Values
    BY DEF CoreOp, Set, Setting
  <1>2. \A n \in Props : /\ Get(n) \in CoreOp /\ Get(n).op = "get" /\ Get(n).name = n
                         /\ Get(n).value = NoValue
    BY DEF CoreOp, Get
  <1> QED  BY <1>1, <1>2

LEMMA CoreOpKinds ==
    ASSUME NEW c \in CoreOp
    PROVE  /\ c.op \in {"set", "get"} /\ c.name \in Props
           /\ c.op = "set" => c.value \in Values
           /\ c.op = "get" => c = Get(c.name)
  <1>1. CASE \E s \in Setting : c = Set(s)
    <2>1. PICK s \in Setting : c = Set(s)  BY <1>1
    <2>2. s.name \in Props /\ s.value \in Values  BY DEF Setting
    <2> QED  BY <2>1, <2>2, CoreOpFacts
  <1>2. CASE \E n \in Props : c = Get(n)
    <2>1. PICK n \in Props : c = Get(n)  BY <1>2
    <2> QED  BY <2>1, CoreOpFacts
  <1> QED  BY <1>1, <1>2 DEF CoreOp

LEMMA SetsFacts ==
    ASSUME NEW p \in Seq(Setting)
    PROVE  /\ Sets(p) \in Seq(CoreOp)
           /\ Members(Sets(p)) = {Set(s) : s \in Members(p)}
  <1>1. /\ Len(p) \in Nat /\ DOMAIN p = 1..Len(p)
        /\ \A i \in 1..Len(p) : p[i] \in Setting
    OBVIOUS
  <1>2. \A s \in Setting : Set(s) \in CoreOp  BY CoreOpFacts
  <1>3. Sets(p) = [i \in 1..Len(p) |-> Set(p[i])]  BY <1>1 DEF Sets
  <1>4. Sets(p) \in [1..Len(p) -> CoreOp]  BY <1>1, <1>2, <1>3
  <1>5. Sets(p) \in Seq(CoreOp)  BY <1>1, <1>4
  <1>6. DOMAIN Sets(p) = 1..Len(p) /\ \A i \in 1..Len(p) : Sets(p)[i] = Set(p[i])
    BY <1>3
  <1> QED  BY <1>1, <1>5, <1>6 DEF Members

LEMMA GetsFacts ==
    /\ Gets(Snapshot) \in Seq(CoreOp)
    /\ Members(Gets(Snapshot)) = {Get(n) : n \in Members(Snapshot)}
  <1>1. /\ Snapshot \in Seq(Props)
        /\ Len(Snapshot) \in Nat /\ DOMAIN Snapshot = 1..Len(Snapshot)
        /\ \A i \in 1..Len(Snapshot) : Snapshot[i] \in Props
    BY PropsAssumption
  <1>2. \A n \in Props : Get(n) \in CoreOp  BY CoreOpFacts
  <1>3. Gets(Snapshot) = [i \in 1..Len(Snapshot) |-> Get(Snapshot[i])]  BY <1>1 DEF Gets
  <1>4. Gets(Snapshot) \in [1..Len(Snapshot) -> CoreOp]  BY <1>1, <1>2, <1>3
  <1>5. Gets(Snapshot) \in Seq(CoreOp)  BY <1>1, <1>4
  <1>6. /\ DOMAIN Gets(Snapshot) = 1..Len(Snapshot)
        /\ \A i \in 1..Len(Snapshot) : Gets(Snapshot)[i] = Get(Snapshot[i])
    BY <1>3
  <1> QED  BY <1>1, <1>5, <1>6 DEF Members

\* A setting that comes to wait takes the place of the one of its name.
LEMMA QueueFacts ==
    ASSUME TypeOK, NEW n \in Props, NEW v \in Values
    PROVE  /\ Queue(n, v) \in Seq(Setting)
           /\ OneOfEach(Queue(n, v))
           /\ Members(Queue(n, v)) =
                 {s \in Members(pending) : s.name # n} \cup {[name |-> n, value |-> v]}
           /\ \A i \in DOMAIN pending :
                 \E j \in DOMAIN Queue(n, v) :
                    /\ Queue(n, v)[j].name = pending[i].name
                    /\ pending[i].name # n => Queue(n, v)[j] = pending[i]
  <1> DEFINE new == [name |-> n, value |-> v]
  <1>1. /\ pending \in Seq(Setting) /\ OneOfEach(pending)
        /\ Len(pending) \in Nat /\ DOMAIN pending = 1..Len(pending)
        /\ \A i \in 1..Len(pending) : pending[i] \in Setting
    BY DEF TypeOK, OneOfEach
  <1>2. new \in Setting /\ new.name = n  BY DEF Setting
  <1> HIDE DEF new
  <1>3. CASE \E i \in DOMAIN pending : pending[i].name = n
    <2>1. Queue(n, v) = [i \in 1..Len(pending) |->
                            IF pending[i].name = n THEN new ELSE pending[i]]
      BY <1>1, <1>3 DEF Queue, new
    <2>2. /\ DOMAIN Queue(n, v) = 1..Len(pending)
          /\ \A i \in 1..Len(pending) :
                Queue(n, v)[i] = IF pending[i].name = n THEN new ELSE pending[i]
      BY <2>1
    <2>3. Queue(n, v) \in [1..Len(pending) -> Setting]  BY <1>1, <1>2, <2>1
    <2>4. Queue(n, v) \in Seq(Setting)  BY <1>1, <2>3
    <2>5. \A i \in 1..Len(pending) : Queue(n, v)[i].name = pending[i].name
      BY <1>2, <2>2
    <2>6. OneOfEach(Queue(n, v))  BY <1>1, <2>2, <2>5 DEF OneOfEach
    <2>7. Members(Queue(n, v)) = {s \in Members(pending) : s.name # n} \cup {new}
      <3>1. Members(Queue(n, v)) \subseteq {s \in Members(pending) : s.name # n} \cup {new}
        BY <1>1, <2>2 DEF Members
      <3>2. {s \in Members(pending) : s.name # n} \subseteq Members(Queue(n, v))
        BY <1>1, <2>2 DEF Members
      <3>3. new \in Members(Queue(n, v))
        <4>1. PICK i \in 1..Len(pending) : pending[i].name = n  BY <1>1, <1>3
        <4> QED  BY <2>2, <4>1 DEF Members
      <3> QED  BY <3>1, <3>2, <3>3
    <2> QED  BY <1>1, <2>2, <2>4, <2>5, <2>6, <2>7 DEF new
  <1>4. CASE ~ \E i \in DOMAIN pending : pending[i].name = n
    <2>1. Queue(n, v) = Append(pending, new)  BY <1>4 DEF Queue, new
    <2>2. Queue(n, v) \in Seq(Setting) /\ Members(Queue(n, v)) = Members(pending) \cup {new}
      BY <1>1, <1>2, <2>1, MembersAppend
    <2>3. /\ DOMAIN Queue(n, v) = 1..(Len(pending) + 1)
          /\ Queue(n, v)[Len(pending) + 1] = new
          /\ \A i \in 1..Len(pending) : Queue(n, v)[i] = pending[i]
      BY <1>1, <1>2, <2>1
    <2>4. OneOfEach(Queue(n, v))
      <3>1. SUFFICES ASSUME NEW i \in 1..(Len(pending) + 1), NEW j \in 1..(Len(pending) + 1),
                            Queue(n, v)[i].name = Queue(n, v)[j].name
                     PROVE  i = j
        BY <2>3 DEF OneOfEach
      <3>2. i \in 1..Len(pending) \/ i = Len(pending) + 1  BY <1>1
      <3>3. j \in 1..Len(pending) \/ j = Len(pending) + 1  BY <1>1
      <3>4. CASE i \in 1..Len(pending) /\ j \in 1..Len(pending)
        BY <1>1, <2>3, <3>1, <3>4 DEF OneOfEach
      <3>5. CASE i \in 1..Len(pending) /\ j = Len(pending) + 1
        BY <1>1, <1>2, <1>4, <2>3, <3>1, <3>5
      <3>6. CASE i = Len(pending) + 1 /\ j \in 1..Len(pending)
        BY <1>1, <1>2, <1>4, <2>3, <3>1, <3>6
      <3> QED  BY <3>2, <3>3, <3>4, <3>5, <3>6
    <2>5. {s \in Members(pending) : s.name # n} = Members(pending)
      BY <1>4 DEF Members
    <2>6. 1..Len(pending) \subseteq 1..(Len(pending) + 1)  BY <1>1
    <2> QED  BY <1>1, <2>2, <2>3, <2>4, <2>5, <2>6 DEF new
  <1> QED  BY <1>3, <1>4

\* The value that is chosen is that of a setting, if there is one of the name.
LEMMA ChosenFacts ==
    ASSUME NEW p \in Seq(Setting), NEW n, NEW old
    PROVE  \/ \E s \in Members(p) : s.name = n /\ Chosen(p, n, old) = s.value
           \/ (\A s \in Members(p) : s.name # n) /\ Chosen(p, n, old) = old
  <1> DEFINE of == {i \in DOMAIN p : p[i].name = n}
  <1>1. CASE of = {}
    BY <1>1 DEF Chosen, Members
  <1>2. CASE of # {}
    <2>1. (CHOOSE i \in of : TRUE) \in of  BY <1>2
    <2>2. Chosen(p, n, old) = p[CHOOSE i \in of : TRUE].value  BY <1>2 DEF Chosen
    <2> HIDE DEF of
    <2>3. PICK i \in of : Chosen(p, n, old) = p[i].value  BY <2>1, <2>2
    <2> USE DEF of
    <2>4. i \in DOMAIN p /\ p[i].name = n  OBVIOUS
    <2> QED  BY <2>3, <2>4 DEF Members
  <1> QED  BY <1>1, <1>2

LEMMA ChosenType ==
    ASSUME NEW p \in Seq(Setting), NEW n, NEW S, Values \subseteq S, NEW old \in S
    PROVE  Chosen(p, n, old) \in S
  <1>1. \A s \in Members(p) : s.value \in Values
    <2>1. Members(p) \subseteq Setting  BY Membership
    <2> QED  BY <2>1 DEF Setting
  <1> QED  BY <1>1, ChosenFacts

-----------------------------------------------------------------------------
(* Types.                                                                  *)

LEMMA PropsFacts ==
    /\ Startup \subseteq Props /\ Render \subseteq Props /\ Immediate \subseteq Props
    /\ Watched \subseteq Props /\ FileScoped \subseteq Props
    /\ Pause \in Immediate /\ Pause \in Props /\ Pause \notin FileScoped
    /\ Snapshot \in Seq(Immediate)
    /\ Default \in [Props -> Values] /\ NoValue \notin Values
    /\ Values \subseteq AnyValue /\ NoValue \in AnyValue
    /\ \A n \in Immediate : n \notin Render
  BY PropsAssumption, ValuesAssumption DEF AnyValue

LEMMA TypeFacts ==
    ASSUME TypeOK
    PROVE  /\ PhaseTypeOK /\ pending \in Seq(Setting) /\ OneOfEach(pending)
           /\ render \in [Render -> AnyValue] /\ paused \in Values
           /\ cache \in [Immediate -> AnyValue] /\ observed \subseteq Props
           /\ core \in Seq(CoreOp) /\ replies \in Seq(Setting)
           /\ mpv \in [Props -> Values] /\ told \in [Props -> AnyValue]
           /\ media \in [sent : AnyValue, last : AnyValue] /\ missed \subseteq Props
           /\ left \in Budget
  BY DEF TypeOK, OneOfEach, CoreOp

LEMMA TypeInit == ASSUME Init PROVE TypeOK
  <1>1. PhaseTypeOK  BY DEF Init, PhaseInit, PhaseTypeOK, Phase
  <1>2. /\ pending \in Seq(Setting) /\ core \in Seq(CoreOp) /\ replies \in Seq(Setting)
        /\ \A i, j \in DOMAIN pending : pending[i].name = pending[j].name => i = j
    BY DEF Init
  <1>3. /\ render \in [Render -> AnyValue] /\ cache \in [Immediate -> AnyValue]
        /\ told \in [Props -> AnyValue] /\ media \in [sent : AnyValue, last : AnyValue]
    BY PropsFacts DEF Init
  <1>4. paused \in Values /\ mpv \in [Props -> Values] /\ observed \subseteq Props
    BY PropsFacts DEF Init
  <1>5. missed \subseteq Props /\ left \in Budget  BY BoundsAssumption DEF Init
  <1> QED  BY <1>1, <1>2, <1>3, <1>4, <1>5 DEF TypeOK, CoreOp

\* The steps of a file's phases.
PhaseStep == Loads \/ Stops \/ AppliesPreload \/ Fails \/ OnStartFile \/ OnFileLoaded

LEMMA PhaseStepType ==
    ASSUME PhaseTypeOK, PhaseStep
    PROVE  PhaseTypeOK'
  <1>1. Load \/ Stop \/ Sending \/ GiveUp \/ FileEnds \/ FileStarts \/ FileLoads
    BY DEF PhaseStep, Loads, Stops, AppliesPreload, Fails, OnStartFile, OnFileLoaded
  <1>2. ASSUME Load  PROVE PhaseTypeOK'
    BY <1>2 DEF Load, Sends, PhaseTypeOK, Phase
  <1>3. ASSUME Stop  PROVE PhaseTypeOK'
    BY <1>3 DEF Stop, PhaseTypeOK, Phase
  <1>4. ASSUME SendDeferred  PROVE PhaseTypeOK'
    BY <1>4 DEF SendDeferred, Sends, PhaseTypeOK, Phase
  <1>5. ASSUME FileEnds  PROVE PhaseTypeOK'
    BY <1>4, <1>5 DEF FileEnds, Sends, PhaseTypeOK, Phase
  <1>6. ASSUME Sending  PROVE PhaseTypeOK'
    BY <1>4, <1>6 DEF Sending, Reload, Recover, Release, Sends, PhaseTypeOK, Phase
  <1>7. ASSUME GiveUp \/ FileStarts \/ FileLoads  PROVE PhaseTypeOK'
    BY <1>7 DEF GiveUp, FileStarts, FileLoads, PhaseTypeOK, Phase
  <1> QED  BY <1>1, <1>2, <1>3, <1>5, <1>6, <1>7

\* Tracks are forgotten, and what is cached is of its type.
LEMMA ForgetType ==
    ASSUME TypeOK, ForgetTracks
    PROVE  cache' \in [Immediate -> AnyValue]
  BY TypeFacts, PropsFacts DEF ForgetTracks

LEMMA BelieveType ==
    ASSUME TypeOK, NEW n \in Props, NEW v \in Values, Believe(n, v)
    PROVE  cache' \in [Immediate -> AnyValue] /\ paused' \in Values
  <1>1. cache \in [Immediate -> AnyValue] /\ paused \in Values /\ v \in AnyValue
    BY TypeFacts, PropsFacts
  <1> QED  BY <1>1 DEF Believe, Cached

\* The settings of a list are sent.
LEMMA BelieveAllType ==
    ASSUME TypeOK, NEW p \in Seq(Setting)
    PROVE  /\ [n \in Immediate |-> Chosen(p, n, cache[n])] \in [Immediate -> AnyValue]
           /\ [n \in Immediate |-> IF n \in FileScoped THEN NoValue ELSE Chosen(p, n, cache[n])]
                 \in [Immediate -> AnyValue]
           /\ [n \in Render |-> Chosen(p, n, render[n])] \in [Render -> AnyValue]
           /\ Chosen(p, Pause, paused) \in Values
           /\ core \o Sets(p) \in Seq(CoreOp)
           /\ core \o Sets(p) \o Gets(Snapshot) \in Seq(CoreOp)
  <1>1. \A n \in Immediate : cache[n] \in AnyValue  BY TypeFacts
  <1>2. \A n \in Render : render[n] \in AnyValue  BY TypeFacts
  <1>3. \A n \in Immediate : Chosen(p, n, cache[n]) \in AnyValue
    BY <1>1, PropsFacts, ChosenType
  <1>4. \A n \in Render : Chosen(p, n, render[n]) \in AnyValue
    BY <1>2, PropsFacts, ChosenType
  <1>5. Chosen(p, Pause, paused) \in Values  BY TypeFacts, ChosenType
  <1>6. core \o Sets(p) \in Seq(CoreOp)  BY TypeFacts, SetsFacts, MembersConcat
  <1>7. core \o Sets(p) \o Gets(Snapshot) \in Seq(CoreOp)
    BY <1>6, GetsFacts, MembersConcat
  <1> QED  BY <1>3, <1>4, <1>5, <1>6, <1>7, PropsFacts

LEMMA TypeStep ==
    ASSUME TypeOK, [Next]_vars
    PROVE  TypeOK'
  <1> DEFINE Goal == /\ PhaseTypeOK' /\ pending' \in Seq(Setting) /\ OneOfEach(pending')
                     /\ render' \in [Render -> AnyValue] /\ paused' \in Values
                     /\ cache' \in [Immediate -> AnyValue] /\ observed' \subseteq Props
                     /\ core' \in Seq(CoreOp) /\ replies' \in Seq(Setting)
                     /\ mpv' \in [Props -> Values] /\ told' \in [Props -> AnyValue]
                     /\ media' \in [sent : AnyValue, last : AnyValue] /\ missed' \subseteq Props
                     /\ left' \in Budget
  <1>1. SUFFICES Goal
    BY DEF TypeOK, OneOfEach, CoreOp
  <1>2. /\ PhaseTypeOK /\ pending \in Seq(Setting) /\ OneOfEach(pending)
        /\ render \in [Render -> AnyValue] /\ paused \in Values
        /\ cache \in [Immediate -> AnyValue] /\ observed \subseteq Props
        /\ core \in Seq(CoreOp) /\ replies \in Seq(Setting)
        /\ mpv \in [Props -> Values] /\ told \in [Props -> AnyValue]
        /\ media \in [sent : AnyValue, last : AnyValue] /\ missed \subseteq Props
        /\ left \in Budget
    BY TypeFacts
  <1>3. UNCHANGED <<phase, deferred>> => PhaseTypeOK'  BY <1>2 DEF PhaseTypeOK
  <1>4. /\ left.sets > 0 => [left EXCEPT !.sets = @ - 1] \in Budget
        /\ left.changes > 0 => [left EXCEPT !.changes = @ - 1] \in Budget
        /\ left.reports > 0 => [left EXCEPT !.reports = @ - 1] \in Budget
    BY <1>2 DEF Budget
  <1>5. ASSUME NEW n \in Props, NEW v \in Values, PageSets(n, v)
        PROVE  Goal
    <2>1. cache' \in [Immediate -> AnyValue] /\ paused' \in Values
      BY <1>5, BelieveType DEF PageSets
    <2>2. pending' \in Seq(Setting) /\ OneOfEach(pending')
      BY <1>2, <1>5, QueueFacts DEF PageSets
    <2>3. core' \in Seq(CoreOp)
      <3>1. Set([name |-> n, value |-> v]) \in CoreOp
        BY CoreOpFacts DEF Setting
      <3>2. Append(core, Set([name |-> n, value |-> v])) \in Seq(CoreOp)
        BY <1>2, <3>1, MembersAppend
      <3> QED  BY <1>2, <1>5, <3>2 DEF PageSets
    <2>4. render' \in [Render -> AnyValue]
      <3>1. Rendered(render, n, v) \in [Render -> AnyValue]  BY <1>2, PropsFacts DEF Rendered
      <3> QED  BY <1>2, <1>5, <3>1 DEF PageSets
    <2>5. left' \in Budget  BY <1>4, <1>5 DEF PageSets
    <2> QED  BY <1>2, <1>3, <1>5, <2>1, <2>2, <2>3, <2>4, <2>5 DEF PageSets
  <1>6. ASSUME NEW n \in Props, NEW v \in Values, Becomes(n, v)
        PROVE  mpv' \in [Props -> Values] /\ missed' \subseteq Props
    BY <1>2, <1>6 DEF Becomes
  <1>7. ASSUME NEW n \in Props, NEW v \in Values, MpvChanges(n, v)
        PROVE  Goal
    BY <1>2, <1>3, <1>4, <1>6, <1>7 DEF MpvChanges, belief
  <1>8. ASSUME NEW n \in Props, PageObserves(n)
        PROVE  Goal
    BY <1>2, <1>3, <1>8 DEF PageObserves, belief
  <1>9. ASSUME NEW n \in Props, OnChange(n)
        PROVE  Goal
    <2>1. mpv[n] \in Values /\ mpv[n] \in AnyValue  BY <1>2, PropsFacts
    <2>2. cache' \in [Immediate -> AnyValue] /\ paused' \in Values
      BY <1>9, <2>1, BelieveType DEF OnChange, BelieveNotice
    <2>3. told' \in [Props -> AnyValue] /\ missed' \subseteq Props
      BY <1>2, <1>9, <2>1 DEF OnChange
    <2> QED  BY <1>2, <1>3, <1>9, <2>2, <2>3 DEF OnChange
  <1>10. ASSUME PhaseStep, pending' \in Seq(Setting), OneOfEach(pending'),
                render' \in [Render -> AnyValue], paused' \in Values,
                cache' \in [Immediate -> AnyValue], core' \in Seq(CoreOp)
         PROVE  Goal
    <2>1. UNCHANGED replies /\ Kept
      BY <1>10
      DEF PhaseStep, Loads, Stops, AppliesPreload, Fails, OnStartFile, OnFileLoaded
    <2> QED  BY <1>2, <1>10, <2>1, PhaseStepType DEF Kept
  <1>11. /\ Preload(pending) \in Seq(Setting) /\ ForFile(pending) \in Seq(Setting)
         /\ OneOfEach(ForFile(pending))
         /\ <<>> \in Seq(Setting) /\ OneOfEach(<<>>)
    <2>1. <<>> \in Seq(Setting) /\ OneOfEach(<<>>)  BY DEF OneOfEach
    <2> QED  BY <1>2, <2>1, PreloadFacts
  <1>12. CASE Loads
    <2>1. CASE phase = "Stopping"
      BY <1>2, <1>10, <1>12, <2>1, ForgetType DEF Loads, NoWord, PhaseStep
    <2>2. CASE phase # "Stopping"
      BY <1>10, <1>11, <1>12, <2>2, BelieveAllType DEF Loads, PhaseStep
    <2> QED  BY <2>1, <2>2
  <1>13. CASE Stops
    BY <1>2, <1>10, <1>13, ForgetType DEF Stops, NoWord, PhaseStep
  <1>14. CASE AppliesPreload
    BY <1>10, <1>11, <1>14, BelieveAllType
    DEF AppliesPreload, ApplyPreload, BelieveAll, PhaseStep
  <1>15. CASE Fails
    BY <1>2, <1>10, <1>15 DEF Fails, NoWord, belief, PhaseStep
  <1>16. CASE OnStartFile
    BY <1>2, <1>10, <1>16, ForgetType DEF OnStartFile, NoWord, PhaseStep
  <1>17. CASE OnFileLoaded
    BY <1>2, <1>10, <1>11, <1>17, BelieveAllType DEF OnFileLoaded, BelieveAll, PhaseStep
  <1>18. CASE PageReports
    <2>1. cache[Pause] \in AnyValue  BY <1>2, PropsFacts
    <2>2. media' \in [sent : AnyValue, last : AnyValue]  BY <1>18, <2>1 DEF PageReports
    <2> QED  BY <1>2, <1>3, <1>4, <1>18, <2>2 DEF PageReports, belief
  <1>19. CASE OnMediaStatus
    <2>1. media.sent \in Values  BY <1>2, <1>19 DEF OnMediaStatus, AnyValue
    <2>2. media' \in [sent : AnyValue, last : AnyValue]
      BY <1>2, <1>19, PropsFacts DEF OnMediaStatus
    <2> QED  BY <1>2, <1>3, <1>19, <2>1, <2>2 DEF OnMediaStatus
  <1>20. CASE MpvRuns
    <2>1. /\ Tail(core) \in Seq(CoreOp)
          /\ Head(core).op \in {"set", "get"} /\ Head(core).name \in Props
          /\ Head(core).op = "set" => Head(core).value \in Values
      <3>1. Tail(core) \in Seq(CoreOp) /\ Head(core) \in CoreOp
        BY <1>2, <1>20, MembersTail DEF MpvRuns
      <3> QED  BY <3>1, CoreOpKinds
    <2>2. CASE Head(core).op = "set" /\ Becomes(Head(core).name, Head(core).value)
               /\ UNCHANGED replies
      <3>1. Head(core).name \in Props /\ Head(core).value \in Values
        BY <2>1, <2>2
      <3>2. mpv' \in [Props -> Values] /\ missed' \subseteq Props  BY <1>6, <2>2, <3>1
      <3> QED  BY <1>2, <1>3, <1>20, <2>1, <2>2, <3>2 DEF MpvRuns, belief
    <2>3. CASE /\ Head(core).op = "get"
               /\ replies' = Append(replies, [name |-> Head(core).name,
                                              value |-> mpv[Head(core).name]])
               /\ UNCHANGED <<mpv, missed>>
      <3>1. [name |-> Head(core).name, value |-> mpv[Head(core).name]] \in Setting
        BY <1>2, <2>1 DEF Setting
      <3>2. replies' \in Seq(Setting)  BY <1>2, <2>3, <3>1, MembersAppend
      <3> QED  BY <1>2, <1>3, <1>20, <2>1, <2>3, <3>2 DEF MpvRuns, belief
    <2> QED  BY <1>20, <2>2, <2>3 DEF MpvRuns
  <1>21. CASE OnReply
    <2>1. Tail(replies) \in Seq(Setting) /\ Head(replies) \in Setting
      BY <1>2, <1>21, MembersTail DEF OnReply
    <2>2. Head(replies).value \in AnyValue  BY <2>1, PropsFacts DEF Setting
    <2>3. cache' \in [Immediate -> AnyValue]  BY <1>2, <1>21, <2>2 DEF OnReply, Cached
    <2> QED  BY <1>2, <1>3, <1>21, <2>1, <2>3 DEF OnReply
  <1>22. CASE UNCHANGED vars  BY <1>2, <1>3, <1>22 DEF vars, belief
  <1> QED
    BY <1>5, <1>7, <1>8, <1>9, <1>12, <1>13, <1>14, <1>15, <1>16, <1>17, <1>18, <1>19, <1>20,
       <1>21, <1>22
    DEF Next

\* Every variable has its type, and no two settings that wait are for the same property,
\* whatever properties and values there are (queue_startup_property).
THEOREM TypeCorrect == Spec => []TypeOK
  BY TypeInit, TypeStep, PTL DEF Spec

-----------------------------------------------------------------------------
(* When settings are sent.                                                 *)

LEMMA NewlySent ==
    ASSUME TypeOK, NEW s \in Seq(CoreOp), core' = core \o s
    PROVE  NewSets = {c \in Members(s) : c.op = "set"}
  <1>1. /\ core \in Seq(CoreOp) /\ Len(core) \in Nat /\ Len(s) \in Nat /\ DOMAIN s = 1..Len(s)
        /\ Len(core \o s) = Len(core) + Len(s)
        /\ \A i \in 1..(Len(core) + Len(s)) :
              (core \o s)[i] = IF i <= Len(core) THEN core[i] ELSE s[i - Len(core)]
    BY TypeFacts, ConcatProperties
  <1> DEFINE t == core \o s
  <1>2. NewSets = {t[i] : i \in {j \in (Len(core) + 1)..Len(t) : t[j].op = "set"}}
    BY DEF NewSets
  <1> HIDE DEF t
  <1>3. Len(t) = Len(core) + Len(s)  BY <1>1 DEF t
  <1>4. \A i \in (Len(core) + 1)..Len(t) : i - Len(core) \in 1..Len(s) /\ t[i] = s[i - Len(core)]
    <2>1. SUFFICES ASSUME NEW i \in (Len(core) + 1)..(Len(core) + Len(s))
                   PROVE  i - Len(core) \in 1..Len(s) /\ t[i] = s[i - Len(core)]
      BY <1>3
    <2>2. i \in 1..(Len(core) + Len(s)) /\ ~(i <= Len(core)) /\ i - Len(core) \in 1..Len(s)
      BY <1>1
    <2> QED  BY <1>1, <2>2 DEF t
  <1>5. \A i \in 1..Len(s) : Len(core) + i \in (Len(core) + 1)..Len(t) /\ t[Len(core) + i] = s[i]
    <2>1. SUFFICES ASSUME NEW i \in 1..Len(s)
                   PROVE  /\ Len(core) + i \in (Len(core) + 1)..(Len(core) + Len(s))
                          /\ t[Len(core) + i] = s[i]
      BY <1>3
    <2>2. /\ Len(core) + i \in 1..(Len(core) + Len(s)) /\ ~(Len(core) + i <= Len(core))
          /\ (Len(core) + i) - Len(core) = i
          /\ Len(core) + i \in (Len(core) + 1)..(Len(core) + Len(s))
      BY <1>1
    <2> QED  BY <1>1, <2>2 DEF t
  <1>6. NewSets \subseteq {c \in Members(s) : c.op = "set"}
    BY <1>1, <1>2, <1>4 DEF Members
  <1>7. {c \in Members(s) : c.op = "set"} \subseteq NewSets
    <2>1. SUFFICES ASSUME NEW i \in 1..Len(s), s[i].op = "set"
                   PROVE  s[i] \in NewSets
      BY <1>1 DEF Members
    <2> QED  BY <1>2, <1>5, <2>1
  <1> QED  BY <1>6, <1>7

\* Nothing is sent where the queue stays or mpv takes from it.
LEMMA NothingSent ==
    ASSUME TypeOK, core' = core \/ (core # <<>> /\ core' = Tail(core))
    PROVE  NewSets = {}
  <1>1. core \in Seq(CoreOp) /\ Len(core) \in Nat  BY TypeFacts
  <1>2. core # <<>> => Len(Tail(core)) = Len(core) - 1  BY <1>1
  <1>3. Len(core') <= Len(core) /\ Len(core') \in Nat
    <2>1. CASE core' = core  BY <1>1, <2>1
    <2>2. CASE core # <<>> /\ core' = Tail(core)
      <3>1. Tail(core) \in Seq(CoreOp)  BY <1>1, <2>2
      <3> QED  BY <1>1, <1>2, <2>2, <3>1
    <2> QED  BY <2>1, <2>2
  <1>4. (Len(core) + 1)..Len(core') = {}  BY <1>1, <1>3
  <1> QED  BY <1>4 DEF NewSets

\* What each step sends: the page's setting, those that need no file, or all.
LEMMA SentBy ==
    ASSUME TypeOK, [Next]_vars
    PROVE  \/ NewSets = {} /\ core' \in {core, Tail(core)} /\ pending' = pending
           \/ /\ NewSets = {} /\ core' = core
              /\ \E n \in Props, v \in Values : /\ PageSets(n, v) /\ ShouldDefer(n)
                                                /\ pending' = Queue(n, v)
           \/ /\ \E n \in Props, v \in Values :
                    PageSets(n, v) /\ ~ShouldDefer(n) /\ NewSets = {Set([name |-> n, value |-> v])}
              /\ pending' = pending
           \/ /\ NewSets = {Set(s) : s \in Members(Preload(pending))}
              /\ pending' = ForFile(pending)
           \/ /\ NewSets = {Set(s) : s \in Members(pending)}
              /\ phase' = "Loaded"
  <1>1. core \in Seq(CoreOp) /\ pending \in Seq(Setting)  BY TypeFacts
  <1>2. Preload(pending) \in Seq(Setting) /\ Members(Preload(pending)) \subseteq Members(pending)
    BY <1>1, PreloadFacts
  <1>3. Members(pending) \subseteq Setting  BY <1>1, Membership
  <1>4. ASSUME core' = core \/ (core # <<>> /\ core' = Tail(core)), pending' = pending
        PROVE  NewSets = {} /\ core' \in {core, Tail(core)} /\ pending' = pending
    BY <1>4, NothingSent
  <1>5. ASSUME NEW n \in Props, NEW v \in Values, PageSets(n, v)
        PROVE  \/ NewSets = {} /\ core' \in {core, Tail(core)} /\ pending' = pending
               \/ /\ NewSets = {} /\ core' = core /\ ShouldDefer(n) /\ pending' = Queue(n, v)
               \/ /\ ~ShouldDefer(n) /\ NewSets = {Set([name |-> n, value |-> v])}
                  /\ pending' = pending
    <2>1. CASE UNCHANGED <<pending, core, render>>  BY <1>4, <2>1
    <2>2. CASE ShouldDefer(n) /\ pending' = Queue(n, v) /\ UNCHANGED <<core, render>>
      BY <2>2, NothingSent
    <2>3. CASE /\ ~ShouldDefer(n)
               /\ core' = Append(core, Set([name |-> n, value |-> v]))
               /\ UNCHANGED pending
      <3> DEFINE c == Set([name |-> n, value |-> v])
      <3>1. c \in CoreOp /\ c.op = "set"  BY CoreOpFacts DEF Setting
      <3> HIDE DEF c
      <3>2. <<c>> \in Seq(CoreOp) /\ Members(<<c>>) = {c}  BY <3>1 DEF Members
      <3>3. core' = core \o <<c>>
        <4>1. core' = Append(core, c)  BY <2>3 DEF c
        <4> QED  BY <1>1, <3>1, <4>1
      <3>4. NewSets = {c}  BY <3>1, <3>2, <3>3, NewlySent
      <3> QED  BY <2>3, <3>4 DEF c
    <2> QED  BY <1>5, <2>1, <2>2, <2>3 DEF PageSets
  <1>6. ASSUME core' = core \o Sets(Preload(pending))
        PROVE  NewSets = {Set(s) : s \in Members(Preload(pending))}
    <2>1. /\ Sets(Preload(pending)) \in Seq(CoreOp)
          /\ Members(Sets(Preload(pending))) = {Set(s) : s \in Members(Preload(pending))}
      BY <1>2, SetsFacts
    <2>2. NewSets = {c \in Members(Sets(Preload(pending))) : c.op = "set"}
      BY <1>6, <2>1, NewlySent
    <2>3. \A c \in Members(Sets(Preload(pending))) : c.op = "set"
      BY <1>2, <1>3, <2>1, CoreOpFacts
    <2> QED  BY <2>1, <2>2, <2>3
  <1>7. ASSUME core' = core \o Sets(pending) \o Gets(Snapshot)
        PROVE  NewSets = {Set(s) : s \in Members(pending)}
    <2> DEFINE a == Sets(pending)
               b == Gets(Snapshot)
    <2>1. /\ a \in Seq(CoreOp) /\ Members(a) = {Set(s) : s \in Members(pending)}
          /\ b \in Seq(CoreOp) /\ Members(b) = {Get(n) : n \in Members(Snapshot)}
      BY <1>1, SetsFacts, GetsFacts
    <2>2. Members(Snapshot) \subseteq Props
      <3>1. Snapshot \in Seq(Props)  BY PropsAssumption
      <3> QED  BY <3>1, Membership
    <2>3. \A c \in Members(a) : c.op = "set"  BY <1>3, <2>1, CoreOpFacts
    <2>4. \A c \in Members(b) : c.op # "set"  BY <2>1, <2>2, CoreOpFacts
    <2>5. core' = (core \o a) \o b  BY <1>7
    <2> HIDE DEF a, b
    <2>6. a \o b \in Seq(CoreOp) /\ Members(a \o b) = Members(a) \cup Members(b)
      BY <2>1, MembersConcat
    <2>7. core' = core \o (a \o b)  BY <1>1, <2>1, <2>5, ConcatAssociative
    <2>8. NewSets = {c \in Members(a \o b) : c.op = "set"}  BY <2>6, <2>7, NewlySent
    <2> QED  BY <2>1, <2>3, <2>4, <2>6, <2>8
  <1>8. CASE Loads
    <2>1. CASE phase = "Stopping"  BY <1>4, <1>8, <2>1 DEF Loads, NoWord
    <2>2. CASE phase # "Stopping"  BY <1>6, <1>8, <2>2 DEF Loads
    <2> QED  BY <2>1, <2>2
  <1>9. CASE AppliesPreload  BY <1>6, <1>9 DEF AppliesPreload, ApplyPreload
  <1>10. CASE OnFileLoaded  BY <1>7, <1>10 DEF OnFileLoaded, FileLoads
  <1>11. CASE \E n \in Props, v \in Values : PageSets(n, v)  BY <1>5, <1>11
  <1>12. CASE \/ \E n \in Props, v \in Values : MpvChanges(n, v)
              \/ \E n \in Props : PageObserves(n) \/ OnChange(n)
              \/ Stops \/ Fails \/ OnStartFile \/ PageReports \/ OnMediaStatus \/ OnReply
              \/ UNCHANGED vars
    BY <1>4, <1>12
    DEF MpvChanges, PageObserves, OnChange, Stops, Fails, OnStartFile, PageReports, OnMediaStatus,
        OnReply, vars, NoWord
  <1>13. CASE MpvRuns  BY <1>4, <1>13 DEF MpvRuns
  <1> QED
    BY <1>8, <1>9, <1>10, <1>11, <1>12, <1>13 DEF Next

\* No track is chosen before the controller has a loaded file, on none of the ways by which
\* settings leave the list.
THEOREM TracksWait == Spec => TracksWaitForFile
  <1>1. ASSUME TypeOK, [Next]_vars
        PROVE  \A c \in NewSets : c.name \in FileScoped => phase' = "Loaded"
    <2>1. pending \in Seq(Setting) /\ Members(pending) \subseteq Setting
      BY <1>1, TypeFacts, Membership
    <2>2. Members(Preload(pending)) = {s \in Members(pending) : s.name \notin FileScoped}
      BY <2>1, PreloadFacts
    <2>3. ASSUME NEW n \in Props, NEW v \in Values, PageSets(n, v), ~ShouldDefer(n),
                 NewSets = {Set([name |-> n, value |-> v])}
          PROVE  \A c \in NewSets : c.name \in FileScoped => phase' = "Loaded"
      <3>1. Set([name |-> n, value |-> v]).name = n  BY CoreOpFacts DEF Setting
      <3>2. n \in FileScoped => phase = "Loaded"  BY <2>3 DEF ShouldDefer
      <3>3. phase' = phase  BY <2>3 DEF PageSets
      <3> QED  BY <2>3, <3>1, <3>2, <3>3
    <2>4. ASSUME NewSets = {Set(s) : s \in Members(Preload(pending))}
          PROVE  \A c \in NewSets : c.name \notin FileScoped
      BY <2>1, <2>2, <2>4, CoreOpFacts
    <2> QED  BY <1>1, <2>3, <2>4, SentBy
  <1> QED  BY <1>1, TypeCorrect, PTL DEF Spec, TracksWaitForFile

\* A setting that waits is sent or set anew, and given up for nothing else.
THEOREM NoneIsLost == Spec => DeferredIsKept
  <1> DEFINE Remains(i) ==
                \/ Set(pending[i]) \in NewSets
                \/ \E j \in DOMAIN pending' :
                      /\ pending'[j].name = pending[i].name
                      /\ pending'[j] = pending[i] \/ left'.sets < left.sets
  <1>1. ASSUME TypeOK, [Next]_vars, NEW i \in DOMAIN pending
        PROVE  Remains(i)
    <2>1. pending \in Seq(Setting) /\ pending[i] \in Members(pending)
      BY <1>1, TypeFacts DEF Members
    <2>2. CASE pending' = pending
      BY <2>2
    <2>3. ASSUME NEW n \in Props, NEW v \in Values, PageSets(n, v), pending' = Queue(n, v)
          PROVE  Remains(i)
      <3>1. left'.sets < left.sets
        BY <1>1, <2>3, TypeFacts DEF PageSets, Budget
      <3>2. PICK j \in DOMAIN pending' : pending'[j].name = pending[i].name
        BY <1>1, <2>3, QueueFacts
      <3> QED  BY <3>1, <3>2
    <2>4. CASE /\ NewSets = {Set(s) : s \in Members(Preload(pending))}
               /\ pending' = ForFile(pending)
      <3>1. /\ Members(Preload(pending)) = {s \in Members(pending) : s.name \notin FileScoped}
            /\ Members(ForFile(pending)) = {s \in Members(pending) : s.name \in FileScoped}
        BY <2>1, PreloadFacts
      <3>2. CASE pending[i].name \notin FileScoped
        <4>1. pending[i] \in Members(Preload(pending))  BY <2>1, <3>1, <3>2
        <4> QED  BY <2>4, <4>1
      <3>3. CASE pending[i].name \in FileScoped
        <4>1. pending[i] \in Members(pending')  BY <2>1, <2>4, <3>1, <3>3
        <4>2. PICK j \in DOMAIN pending' : pending'[j] = pending[i]  BY <4>1 DEF Members
        <4> QED  BY <4>2
      <3> QED  BY <3>2, <3>3
    <2>5. CASE NewSets = {Set(s) : s \in Members(pending)}
      <3>1. Set(pending[i]) \in NewSets  BY <2>1, <2>5
      <3> QED  BY <3>1
    <2> HIDE DEF Remains
    <2> QED  BY <1>1, <2>2, <2>3, <2>4, <2>5, SentBy
  <1>2. TypeOK /\ [Next]_vars => \A i \in DOMAIN pending : Remains(i)
    BY <1>1
  <1> QED  BY <1>2, TypeCorrect, PTL DEF Spec, DeferredIsKept

-----------------------------------------------------------------------------
(* What the shell believes.                                                *)

\* Where mpv's value comes from a set or from itself, what is heard after was heard before,
\* or the shell believed nothing else.
LEMMA BecomesHeard ==
    ASSUME TypeOK, NEW m \in Props, NEW v \in Values, Becomes(m, v), told' = told,
           NEW n \in Props, Heard(n)'
    PROVE  \/ Heard(n) /\ mpv'[n] = mpv[n]
           \/ n = m /\ mpv'[n] = v /\ told[n] = v /\ ~Misled(n, v)
  <1>1. mpv \in [Props -> Values]  BY TypeFacts
  <1>2. mpv' = [mpv EXCEPT ![m] = v]  BY DEF Becomes
  <1>3. missed \subseteq missed'  BY DEF Becomes
  <1>4. told[n] = mpv'[n] /\ n \notin missed'  BY DEF Heard
  <1>5. CASE n # m
    <2>1. mpv'[n] = mpv[n]  BY <1>1, <1>2, <1>5
    <2> QED  BY <1>3, <1>4, <2>1 DEF Heard
  <1>6. CASE n = m
    <2>1. mpv'[n] = v  BY <1>1, <1>2, <1>6
    <2>2. CASE mpv[n] = v  BY <1>3, <1>4, <2>1, <2>2 DEF Heard
    <2>3. CASE mpv[n] # v
      <3>1. SUFFICES ASSUME Misled(n, v)  PROVE FALSE
        BY <1>4, <1>6, <2>1
      <3>2. n \in missed'  BY <1>4, <1>6, <2>1, <2>3, <3>1 DEF Becomes
      <3> QED  BY <1>4, <3>2
    <2> QED  BY <2>2, <2>3
  <1> QED  BY <1>5, <1>6

\* Quiet comes by no step but a notice, or the settings' being sent.
LEMMA QuietBefore ==
    ASSUME NEW n, Quiet(n)',
           Heard(n)' => Heard(n) /\ mpv'[n] = mpv[n],
           \A s \in Members(pending) : s.name = n => s \in Members(pending'),
           \A c \in Members(core) :
              c.op = "set" /\ c.name = n => c \in Members(core') \/ c.value = mpv'[n]
    PROVE  Quiet(n) /\ mpv'[n] = mpv[n]
  <1>1. /\ Heard(n)'
        /\ \A s \in Members(pending') : s.name # n
        /\ \A c \in Members(core') : c.op = "set" /\ c.name = n => c.value = mpv'[n]
    BY DEF Quiet
  <1>2. Heard(n) /\ mpv'[n] = mpv[n]  BY <1>1
  <1> QED  BY <1>1, <1>2 DEF Quiet

\* All that Quiet speaks of stays.
LEMMA QuietSame ==
    ASSUME UNCHANGED <<pending, core, mpv, told, missed>>, NEW n
    PROVE  (Quiet(n)' <=> Quiet(n)) /\ (Heard(n)' <=> Heard(n))
  BY DEF Quiet, Heard

LEMMA RepliesStep ==
    ASSUME TypeOK, Agreement, [Next]_vars
    PROVE  RepliesAgree'
  <1>1. RepliesAgree  BY DEF Agreement
  <1>2. replies \in Seq(Setting) /\ core \in Seq(CoreOp)  BY TypeFacts
  <1>3. Members(replies) \subseteq Setting  BY <1>2, Membership
  <1>4. \A r \in Members(replies) : r.name \in Props  BY <1>3 DEF Setting
  <1>5. ASSUME UNCHANGED <<replies, mpv, told, missed>>  PROVE RepliesAgree'
    BY <1>1, <1>5 DEF RepliesAgree, Heard
  <1>6. ASSUME NEW m \in Props, NEW v \in Values, Becomes(m, v), UNCHANGED <<replies, told>>
        PROVE  RepliesAgree'
    <2>1. SUFFICES ASSUME NEW r \in Members(replies), Heard(r.name)'
                   PROVE  r.value = mpv'[r.name]
      BY <1>6 DEF RepliesAgree
    <2>2. r.name \in Props  BY <1>4
    <2>3. CASE Heard(r.name) /\ mpv'[r.name] = mpv[r.name]  BY <1>1, <2>1, <2>3 DEF RepliesAgree
    <2>4. CASE mpv'[r.name] = v /\ ~Misled(r.name, v)
      <3>1. PICK i \in DOMAIN replies : replies[i] = r  BY <2>1 DEF Members
      <3> QED  BY <2>4, <3>1 DEF Misled
    <2> QED  BY <1>6, <2>1, <2>2, <2>3, <2>4, BecomesHeard
  <1>7. ASSUME NEW n \in Props, NEW v \in Values, MpvChanges(n, v)  PROVE RepliesAgree'
    BY <1>6, <1>7 DEF MpvChanges
  <1>8. CASE MpvRuns
    <2>1. Head(core) \in CoreOp  BY <1>2, <1>8, MembersTail DEF MpvRuns
    <2>2. /\ Head(core).op \in {"set", "get"} /\ Head(core).name \in Props
          /\ Head(core).op = "set" => Head(core).value \in Values
      BY <2>1, CoreOpKinds
    <2>3. CASE Head(core).op = "set"
      BY <1>6, <1>8, <2>2, <2>3 DEF MpvRuns
    <2>4. CASE Head(core).op = "get"
      <3> DEFINE new == [name |-> Head(core).name, value |-> mpv[Head(core).name]]
      <3>1. replies' = Append(replies, new) /\ UNCHANGED <<mpv, told, missed>>
        BY <1>8, <2>4 DEF MpvRuns
      <3>2. new \in Setting  BY <2>2, TypeFacts DEF Setting
      <3>3. new.value = mpv[new.name]  OBVIOUS
      <3> HIDE DEF new
      <3>4. Members(replies') = Members(replies) \cup {new}
        BY <1>2, <3>1, <3>2, MembersAppend
      <3> QED  BY <1>1, <3>1, <3>3, <3>4 DEF RepliesAgree, Heard
    <2> QED  BY <2>2, <2>3, <2>4
  <1>9. CASE OnReply
    <2>1. Members(replies') \subseteq Members(replies)
      BY <1>2, <1>9, MembersTail DEF OnReply
    <2> QED  BY <1>1, <1>9, <2>1 DEF OnReply, RepliesAgree, Heard
  <1>10. ASSUME NEW n \in Props, OnChange(n)  PROVE RepliesAgree'
    <2>1. replies' = <<>>  BY <1>10 DEF OnChange
    <2> QED  BY <2>1 DEF RepliesAgree, Members
  <1> QED
    BY <1>5, <1>7, <1>8, <1>9, <1>10
    DEF Next, PageSets, PageObserves, Loads, Stops, AppliesPreload, Fails, OnStartFile,
        OnFileLoaded, PageReports, OnMediaStatus, Kept, vars

LEMMA MediaStep ==
    ASSUME Agreement, [Next]_vars
    PROVE  MediaAgrees'
  <1>1. MediaAgrees  BY DEF Agreement
  <1>2. CASE media' = media  BY <1>1, <1>2 DEF MediaAgrees
  <1>3. CASE PageReports  BY <1>3 DEF PageReports, MediaAgrees
  <1>4. CASE OnMediaStatus
    <2>1. media' = [media EXCEPT !.sent = NoValue]  BY <1>4 DEF OnMediaStatus
    <2> QED  BY <1>1, <1>4, <2>1 DEF OnMediaStatus, MediaAgrees
  <1> QED
    BY <1>2, <1>3, <1>4
    DEF Next, PageSets, MpvChanges, PageObserves, OnChange, Loads, Stops, AppliesPreload, Fails,
        OnStartFile, OnFileLoaded, MpvRuns, OnReply, Kept, vars

\* What a step may do to what is believed of a property: make it mpv's value, ask mpv anew
\* for a track, or leave it as it was where all was quiet before.
Believed(n) ==
    \/ cache'[n] = mpv'[n] /\ (n = Pause => paused' = mpv'[n])
    \/ n \in FileScoped /\ Asked(n)'
    \/ /\ Quiet(n) /\ mpv'[n] = mpv[n] /\ (n \in FileScoped => phase = "Loaded")
       /\ \/ cache'[n] = mpv'[n]
          \/ cache'[n] = cache[n] /\ (Asked(n) => Asked(n)')
       /\ n = Pause => \/ UNCHANGED <<paused, media>>
                       \/ media'.sent # NoValue
                       \/ paused' = media'.last

\* mpv comes back to the value that it told last, and the shell believed no other.
LEMMA BecomesBelieved ==
    ASSUME TypeOK, Agreement, NEW v \in Values, UNCHANGED <<phase, cache, paused>>,
           NEW n \in Immediate, n \in FileScoped => phase' = "Loaded",
           mpv'[n] = v, told[n] = v, ~Misled(n, v), Asked(n) => Asked(n)'
    PROVE  Believed(n)
  <1>1. cache[n] \in {v, NoValue} /\ (n = Pause => paused = v)  BY DEF Misled
  <1>2. v # NoValue  BY PropsFacts
  <1>3. cache[n] = NoValue => n \in FileScoped /\ Asked(n)
    BY <1>2 DEF Agreement, CacheFilled
  <1> QED  BY <1>1, <1>3 DEF Believed

\* What mpv is asked for is not forgotten when it runs its queue.
LEMMA MpvRunsAsked ==
    ASSUME TypeOK, MpvRuns, NEW n \in Immediate
    PROVE  Asked(n) => Asked(n)'
  <1> DEFINE c == Head(core)
             new == [name |-> c.name, value |-> mpv[c.name]]
  <1>1. /\ core \in Seq(CoreOp) /\ core # <<>> /\ core' = Tail(core)
        /\ replies \in Seq(Setting) /\ n \in Props
    BY TypeFacts, PropsFacts DEF MpvRuns
  <1>2. c \in CoreOp /\ Members(core) = {c} \cup Members(core')
    BY <1>1, MembersTail
  <1>3. \/ c.op = "set" /\ UNCHANGED replies
        \/ c.op = "get" /\ replies' = Append(replies, new)
    BY DEF MpvRuns
  <1>4. new \in Setting /\ new.name = c.name
    BY <1>2, CoreOpKinds, TypeFacts DEF Setting
  <1> HIDE DEF c, new
  <1>5. CASE c.op = "set" /\ UNCHANGED replies
    <2>1. c # Get(n)  BY <1>1, <1>5, CoreOpFacts
    <2> QED  BY <1>2, <1>5, <2>1 DEF Asked
  <1>6. CASE c.op = "get" /\ replies' = Append(replies, new)
    <2>1. Members(replies') = Members(replies) \cup {new}
      BY <1>1, <1>4, <1>6, MembersAppend
    <2>2. Get(n) = c => c.name = n  BY <1>1, CoreOpFacts
    <2> QED  BY <1>2, <1>4, <2>1, <2>2 DEF Asked
  <1> QED  BY <1>3, <1>5, <1>6

\* A loaded file's tracks have been asked for.
LEMMA LoadedAsks ==
    ASSUME TypeOK, OnFileLoaded, NEW n \in Immediate, n \in FileScoped
    PROVE  Asked(n)'
  <1> DEFINE a == core \o Sets(pending)
             b == Gets(Snapshot)
  <1>1. core' = a \o b  BY DEF OnFileLoaded
  <1>2. a \in Seq(CoreOp)
    <2>1. core \in Seq(CoreOp) /\ pending \in Seq(Setting)  BY TypeFacts
    <2>2. Sets(pending) \in Seq(CoreOp)  BY <2>1, SetsFacts
    <2> QED  BY <2>1, <2>2, MembersConcat
  <1>3. b \in Seq(CoreOp) /\ Members(b) = {Get(k) : k \in Members(Snapshot)}  BY GetsFacts
  <1> HIDE DEF a, b
  <1>4. Members(b) \subseteq Members(core')  BY <1>1, <1>2, <1>3, MembersConcat
  <1>5. n \in Members(Snapshot)  BY PropsAssumption DEF Members
  <1> QED  BY <1>3, <1>4, <1>5 DEF Asked

LEMMA PageSetsBelieved ==
    ASSUME TypeOK, NEW m \in Props, NEW v \in Values, PageSets(m, v),
           NEW n \in Immediate, Quiet(n)', n \in FileScoped => phase' = "Loaded"
    PROVE  Believed(n)
  <1> DEFINE new == [name |-> m, value |-> v]
  <1>1. /\ pending \in Seq(Setting) /\ core \in Seq(CoreOp) /\ cache \in [Immediate -> AnyValue]
        /\ new \in Setting /\ new.name = m /\ new.value = v
    BY TypeFacts DEF Setting
  <1>2. UNCHANGED <<phase, mpv, told, media, missed, replies>> /\ Believe(m, v)
    BY DEF PageSets
  <1>3. Set(new) \in CoreOp /\ Set(new).op = "set" /\ Set(new).name = m /\ Set(new).value = v
    BY <1>1, CoreOpFacts
  <1>4. /\ \A s \in Members(pending') : s.name # n
        /\ \A c \in Members(core') : c.op = "set" /\ c.name = n => c.value = mpv'[n]
    BY DEF Quiet
  <1>5. \/ Unchanged(m, v) /\ UNCHANGED <<pending, core>>
        \/ pending' = Queue(m, v) /\ UNCHANGED core
        \/ core' = Append(core, Set(new)) /\ UNCHANGED pending
    BY DEF PageSets
  <1> HIDE DEF new
  <1>6. core' = Append(core, Set(new)) => Members(core') = Members(core) \cup {Set(new)}
    BY <1>1, <1>3, MembersAppend
  <1>7. Members(Queue(m, v)) = {s \in Members(pending) : s.name # m} \cup {new}
    BY QueueFacts DEF new
  <1>8. CASE n = m
    <2>1. cache'[n] = v /\ (n = Pause => paused' = v)
      BY <1>1, <1>2, <1>8 DEF Believe, Cached
    <2>2. ~Unchanged(m, v)  BY <1>8, PropsFacts DEF Unchanged
    <2>3. pending' # Queue(m, v)  BY <1>1, <1>4, <1>7, <1>8
    <2>4. Set(new) \in Members(core')  BY <1>5, <1>6, <2>2, <2>3
    <2>5. v = mpv'[n]  BY <1>3, <1>4, <1>8, <2>4
    <2> QED  BY <2>1, <2>5 DEF Believed
  <1>9. CASE n # m
    <2>1. cache'[n] = cache[n] /\ (n = Pause => paused' = paused)
      BY <1>1, <1>2, <1>9 DEF Believe, Cached
    <2>2. \A s \in Members(pending) : s.name = n => s \in Members(pending')
      BY <1>5, <1>7, <1>9
    <2>3. Members(core) \subseteq Members(core')  BY <1>5, <1>6
    <2>4. Heard(n)' => Heard(n) /\ mpv'[n] = mpv[n]  BY <1>2 DEF Heard
    <2>5. Quiet(n) /\ mpv'[n] = mpv[n]  BY <2>2, <2>3, <2>4, QuietBefore
    <2>6. Asked(n) => Asked(n)'  BY <1>2, <2>3 DEF Asked
    <2> QED  BY <1>2, <2>1, <2>5, <2>6 DEF Believed
  <1> QED  BY <1>8, <1>9

\* A list is sent that has all the settings of a property: what was chosen last is what mpv
\* is to set.
LEMMA SentBelieved ==
    ASSUME TypeOK, NEW p \in Seq(Setting), NEW n \in Immediate \ FileScoped, Quiet(n)',
           \A s \in Members(pending) : s.name = n => s \in Members(p),
           Members(core) \cup {Set(s) : s \in Members(p)} \subseteq Members(core'),
           cache'[n] = Chosen(p, n, cache[n]),
           paused' = Chosen(p, Pause, paused),
           UNCHANGED <<mpv, told, missed, media, replies>>
    PROVE  Believed(n)
  <1>1. Members(p) \subseteq Setting  BY Membership
  <1>2. \A c \in Members(core') : c.op = "set" /\ c.name = n => c.value = mpv'[n]
    BY DEF Quiet
  <1>3. \A s \in Members(p) : s.name = n => s.value = mpv'[n]
    <2>1. SUFFICES ASSUME NEW s \in Members(p), s.name = n  PROVE s.value = mpv'[n]
      OBVIOUS
    <2>2. /\ Set(s) \in Members(core')
          /\ Set(s).op = "set" /\ Set(s).name = n /\ Set(s).value = s.value
      BY <1>1, <2>1, CoreOpFacts
    <2> QED  BY <1>2, <2>2
  <1>4. CASE \E s \in Members(p) : s.name = n
    <2>1. cache'[n] = mpv'[n]  BY <1>3, <1>4, ChosenFacts
    <2>2. n = Pause => paused' = mpv'[n]
      <3>1. SUFFICES ASSUME n = Pause  PROVE paused' = mpv'[n]
        OBVIOUS
      <3> QED  BY <1>3, <1>4, <3>1, ChosenFacts
    <2> QED  BY <2>1, <2>2 DEF Believed
  <1>5. CASE \A s \in Members(p) : s.name # n
    <2>1. cache'[n] = cache[n]  BY <1>5, ChosenFacts
    <2>2. n = Pause => paused' = paused
      <3>1. SUFFICES ASSUME n = Pause  PROVE paused' = paused
        OBVIOUS
      <3> QED  BY <1>5, <3>1, ChosenFacts
    <2>3. Heard(n)' => Heard(n) /\ mpv'[n] = mpv[n]  BY DEF Heard
    <2>4. Quiet(n) /\ mpv'[n] = mpv[n]  BY <1>5, <2>3, QuietBefore
    <2>5. Asked(n) => Asked(n)'  BY DEF Asked
    <2> QED  BY <2>1, <2>2, <2>4, <2>5 DEF Believed
  <1> QED  BY <1>4, <1>5

\* No step of a file's phases but FileLoads comes to a loaded file.
LEMMA NotLoaded ==
    ASSUME PhaseTypeOK, Loads \/ Stops \/ AppliesPreload \/ Fails \/ OnStartFile
    PROVE  phase' # "Loaded"
  <1>1. CASE Loads  BY <1>1 DEF Loads, Load, Sends
  <1>2. CASE Stops
    <2>1. Stop /\ phase \in Phase  BY <1>2 DEF Stops, PhaseTypeOK
    <2> QED  BY <2>1 DEF Stop, Phase
  <1>3. CASE AppliesPreload
    BY <1>3
    DEF AppliesPreload, Sending, Reload, Recover, Release, SendDeferred, Sends
  <1>4. CASE Fails  BY <1>4 DEF Fails, GiveUp, FileEnds, SendDeferred, Sends
  <1>5. CASE OnStartFile  BY <1>5 DEF OnStartFile, FileStarts
  <1> QED  BY <1>1, <1>2, <1>3, <1>4, <1>5

LEMMA PhaseStepBelieved ==
    ASSUME TypeOK, PhaseStep,
           NEW n \in Immediate, Quiet(n)', n \in FileScoped => phase' = "Loaded"
    PROVE  Believed(n)
  <1>1. /\ pending \in Seq(Setting) /\ core \in Seq(CoreOp) /\ PhaseTypeOK
        /\ n \in Immediate /\ n \in Props
    BY TypeFacts, PropsFacts
  <1>2. UNCHANGED <<mpv, told, missed, media, replies>>
    BY DEF PhaseStep, Loads, Stops, AppliesPreload, Fails, OnStartFile, OnFileLoaded, Kept
  <1>3. ASSUME n \notin FileScoped, cache'[n] = cache[n], UNCHANGED <<pending, core, paused>>
        PROVE  Believed(n)
    <2>1. Quiet(n) /\ mpv'[n] = mpv[n]  BY <1>2, <1>3, QuietSame
    <2> QED  BY <1>2, <1>3, <2>1 DEF Believed, Asked
  <1>4. /\ Preload(pending) \in Seq(Setting)
        /\ Members(Preload(pending)) = {s \in Members(pending) : s.name \notin FileScoped}
    BY <1>1, PreloadFacts
  <1>5. Members(core \o Sets(Preload(pending))) =
           Members(core) \cup {Set(s) : s \in Members(Preload(pending))}
    BY <1>1, <1>4, SetsFacts, MembersConcat
  <1>6. ASSUME n \notin FileScoped, core' = core \o Sets(Preload(pending)),
               cache'[n] = Chosen(Preload(pending), n, cache[n]),
               paused' = Chosen(Preload(pending), Pause, paused)
        PROVE  Believed(n)
    <2>1. \A s \in Members(pending) : s.name = n => s \in Members(Preload(pending))
      BY <1>4, <1>6
    <2> QED  BY <1>2, <1>4, <1>5, <1>6, <2>1, SentBelieved
  <1>7. ForgetTracks /\ n \notin FileScoped => cache'[n] = cache[n]
    BY DEF ForgetTracks
  <1>8. CASE Loads
    <2>1. n \notin FileScoped  BY <1>1, <1>8, NotLoaded
    <2>2. CASE phase = "Stopping"
      BY <1>3, <1>7, <1>8, <2>1, <2>2 DEF Loads, NoWord
    <2>3. CASE phase # "Stopping"
      <3>1. /\ core' = core \o Sets(Preload(pending))
            /\ paused' = Chosen(Preload(pending), Pause, paused)
            /\ cache'[n] = Chosen(Preload(pending), n, cache[n])
        BY <1>8, <2>1, <2>3 DEF Loads
      <3> QED  BY <1>6, <2>1, <3>1
    <2> QED  BY <2>2, <2>3
  <1>9. CASE Stops
    <2>1. n \notin FileScoped  BY <1>1, <1>9, NotLoaded
    <2> QED  BY <1>3, <1>7, <1>9, <2>1 DEF Stops, NoWord
  <1>10. CASE AppliesPreload
    <2>1. n \notin FileScoped  BY <1>1, <1>10, NotLoaded
    <2>2. /\ core' = core \o Sets(Preload(pending))
          /\ paused' = Chosen(Preload(pending), Pause, paused)
          /\ cache'[n] = Chosen(Preload(pending), n, cache[n])
      BY <1>10 DEF AppliesPreload, ApplyPreload, BelieveAll
    <2> QED  BY <1>6, <2>1, <2>2
  <1>11. CASE Fails
    <2>1. n \notin FileScoped  BY <1>1, <1>11, NotLoaded
    <2> QED  BY <1>3, <1>11, <2>1 DEF Fails, NoWord, belief
  <1>12. CASE OnStartFile
    <2>1. n \notin FileScoped  BY <1>1, <1>12, NotLoaded
    <2> QED  BY <1>3, <1>7, <1>12, <2>1 DEF OnStartFile, NoWord
  <1>13. CASE OnFileLoaded
    <2> DEFINE a == Sets(pending)
               b == Gets(Snapshot)
    <2>1. /\ core' = (core \o a) \o b
          /\ paused' = Chosen(pending, Pause, paused)
          /\ cache'[n] = Chosen(pending, n, cache[n])
      BY <1>13 DEF OnFileLoaded, BelieveAll
    <2>2. /\ a \in Seq(CoreOp) /\ Members(a) = {Set(s) : s \in Members(pending)}
          /\ b \in Seq(CoreOp) /\ Members(b) = {Get(k) : k \in Members(Snapshot)}
      BY <1>1, SetsFacts, GetsFacts
    <2> HIDE DEF a, b
    <2>3. core \o a \in Seq(CoreOp) /\ Members(core \o a) = Members(core) \cup Members(a)
      BY <1>1, <2>2, MembersConcat
    <2>4. Members(core') = (Members(core) \cup Members(a)) \cup Members(b)
      <3> DEFINE d == core \o a
      <3>1. d \in Seq(CoreOp) /\ Members(d) = Members(core) \cup Members(a)
        BY <2>3
      <3>2. core' = d \o b  BY <2>1
      <3> HIDE DEF d
      <3>3. Members(d \o b) = Members(d) \cup Members(b)
        BY <2>2, <3>1, MembersConcat
      <3> QED  BY <3>1, <3>2, <3>3
    <2>5. CASE n \in FileScoped
      <3>1. Asked(n)'  BY <1>13, <2>5, LoadedAsks
      <3> QED  BY <2>5, <3>1 DEF Believed
    <2>6. CASE n \notin FileScoped
      <3>1. Members(core) \cup {Set(s) : s \in Members(pending)} \subseteq Members(core')
        BY <2>2, <2>4
      <3> QED  BY <1>1, <1>2, <2>1, <2>6, <3>1, SentBelieved
    <2> QED  BY <2>5, <2>6
  <1> QED  BY <1>8, <1>9, <1>10, <1>11, <1>12, <1>13 DEF PhaseStep

LEMMA MpvRunsBelieved ==
    ASSUME TypeOK, Agreement, MpvRuns,
           NEW n \in Immediate, Quiet(n)', n \in FileScoped => phase' = "Loaded"
    PROVE  Believed(n)
  <1> DEFINE c == Head(core)
  <1>1. /\ core \in Seq(CoreOp) /\ core # <<>> /\ core' = Tail(core)
        /\ replies \in Seq(Setting) /\ n \in Props
    BY TypeFacts, PropsFacts DEF MpvRuns
  <1>2. c \in CoreOp /\ Members(core) = {c} \cup Members(core')
    BY <1>1, MembersTail
  <1>3. UNCHANGED <<phase, pending, paused, cache, told, media>>
    BY DEF MpvRuns, belief
  <1>4. /\ c.op \in {"set", "get"} /\ c.name \in Props
        /\ c.op = "set" => c.value \in Values
        /\ c.op = "get" => c = Get(c.name)
    BY <1>2, CoreOpKinds
  <1>5. \/ c.op = "set" /\ Becomes(c.name, c.value) /\ UNCHANGED replies
        \/ /\ c.op = "get"
           /\ replies' = Append(replies, [name |-> c.name, value |-> mpv[c.name]])
           /\ UNCHANGED <<mpv, missed>>
    BY DEF MpvRuns
  <1> HIDE DEF c
  <1>6. ASSUME Quiet(n), mpv'[n] = mpv[n]
        PROVE  Believed(n)
    BY <1>3, <1>6, MpvRunsAsked DEF Believed
  <1>7. CASE c.op = "set"
    <2>1. Becomes(c.name, c.value) /\ UNCHANGED replies /\ c.value \in Values
      BY <1>4, <1>5, <1>7
    <2>2. ASSUME Heard(n), mpv'[n] = mpv[n]
          PROVE  Believed(n)
      <3>1. c.name = n => c.value = mpv'[n]
        BY <1>1, <2>1, TypeFacts DEF Becomes
      <3>2. \A d \in Members(core) :
               d.op = "set" /\ d.name = n => d \in Members(core') \/ d.value = mpv'[n]
        BY <1>2, <3>1
      <3>3. Quiet(n) /\ mpv'[n] = mpv[n]  BY <1>3, <2>2, <3>2, QuietBefore
      <3> QED  BY <1>6, <3>3
    <2>3. ASSUME mpv'[n] = c.value, told[n] = c.value, ~Misled(n, c.value)
          PROVE  Believed(n)
      BY <1>3, <2>1, <2>3, MpvRunsAsked, BecomesBelieved
    <2>4. Heard(n)'  BY DEF Quiet
    <2> QED  BY <1>1, <1>3, <1>4, <2>1, <2>2, <2>3, <2>4, BecomesHeard
  <1>8. CASE c.op = "get"
    <2>1. UNCHANGED <<mpv, missed>>  BY <1>5, <1>8
    <2>2. Heard(n)' => Heard(n) /\ mpv'[n] = mpv[n]  BY <1>3, <2>1 DEF Heard
    <2>3. \A d \in Members(core) : d.op = "set" => d \in Members(core')
      BY <1>2, <1>8
    <2>4. Quiet(n) /\ mpv'[n] = mpv[n]  BY <1>3, <2>2, <2>3, QuietBefore
    <2> QED  BY <1>6, <2>4
  <1> QED  BY <1>4, <1>7, <1>8

LEMMA OnReplyBelieved ==
    ASSUME TypeOK, Agreement, OnReply,
           NEW n \in Immediate, Quiet(n)', n \in FileScoped => phase' = "Loaded"
    PROVE  Believed(n)
  <1> DEFINE r == Head(replies)
  <1>1. /\ replies \in Seq(Setting) /\ replies # <<>> /\ replies' = Tail(replies)
        /\ cache \in [Immediate -> AnyValue]
    BY TypeFacts DEF OnReply
  <1>2. r \in Setting /\ Members(replies) = {r} \cup Members(replies')
    BY <1>1, MembersTail
  <1>3. UNCHANGED <<phase, pending, paused, core, mpv, told, media, missed>>
    BY DEF OnReply
  <1>4. Quiet(n) /\ mpv'[n] = mpv[n]  BY <1>3, QuietSame
  <1>5. cache' = IF r.name \in Immediate THEN [cache EXCEPT ![r.name] = r.value] ELSE cache
    BY DEF OnReply, Cached
  <1>6. Heard(r.name) => r.value = mpv[r.name]  BY <1>2 DEF Agreement, RepliesAgree
  <1> HIDE DEF r
  <1>7. CASE r.name = n
    <2>1. cache'[n] = r.value  BY <1>1, <1>5, <1>7
    <2>2. r.value = mpv'[n]  BY <1>4, <1>6, <1>7 DEF Quiet
    <2> QED  BY <1>3, <1>4, <2>1, <2>2 DEF Believed
  <1>8. CASE r.name # n
    <2>1. cache'[n] = cache[n]  BY <1>1, <1>5, <1>8
    <2>2. Asked(n) => Asked(n)'  BY <1>2, <1>3, <1>8 DEF Asked
    <2> QED  BY <1>3, <1>4, <2>1, <2>2 DEF Believed
  <1> QED  BY <1>7, <1>8

LEMMA OnChangeBelieved ==
    ASSUME TypeOK, NEW m \in Props, OnChange(m),
           NEW n \in Immediate, Quiet(n)', n \in FileScoped => phase' = "Loaded"
    PROVE  Believed(n)
  <1>1. cache \in [Immediate -> AnyValue] /\ told \in [Props -> AnyValue] /\ n \in Props
    BY TypeFacts, PropsFacts
  <1>2. /\ UNCHANGED <<phase, pending, core, mpv, media, replies>>
        /\ Believe(m, mpv[m])
        /\ told' = [told EXCEPT ![m] = mpv[m]]
        /\ missed' = missed \ {m}
    BY DEF OnChange, BelieveNotice
  <1>3. CASE n = m
    <2>1. cache'[n] = mpv'[n] /\ (n = Pause => paused' = mpv'[n])
      BY <1>1, <1>2, <1>3 DEF Believe, Cached
    <2> QED  BY <2>1 DEF Believed
  <1>4. CASE n # m
    <2>1. cache'[n] = cache[n] /\ (n = Pause => paused' = paused)
      BY <1>1, <1>2, <1>4 DEF Believe, Cached
    <2>2. told'[n] = told[n] /\ (n \in missed' <=> n \in missed)  BY <1>1, <1>2, <1>4
    <2>3. Heard(n)' => Heard(n) /\ mpv'[n] = mpv[n]  BY <1>2, <2>2 DEF Heard
    <2>4. Quiet(n) /\ mpv'[n] = mpv[n]  BY <1>2, <2>3, QuietBefore
    <2> QED  BY <1>2, <2>1, <2>4 DEF Believed, Asked
  <1> QED  BY <1>3, <1>4

LEMMA StepBelieved ==
    ASSUME TypeOK, Agreement, [Next]_vars,
           NEW n \in Immediate, Quiet(n)', n \in FileScoped => phase' = "Loaded"
    PROVE  Believed(n)
  <1>1. n \in Props  BY PropsFacts
  <1>2. ASSUME UNCHANGED <<phase, pending, core, replies, mpv, told, missed, cache>>,
               \/ UNCHANGED <<paused, media>>
               \/ media'.sent # NoValue
               \/ paused' = media'.last
        PROVE  Believed(n)
    <2>1. Quiet(n) /\ mpv'[n] = mpv[n]  BY <1>2, QuietSame
    <2> QED  BY <1>2, <2>1 DEF Believed, Asked
  <1>3. ASSUME NEW m \in Props, NEW v \in Values, MpvChanges(m, v)
        PROVE  Believed(n)
    <2>1. Becomes(m, v) /\ UNCHANGED <<phase, pending, core, replies, told, cache, paused, media>>
      BY <1>3 DEF MpvChanges, belief
    <2>2. Asked(n) => Asked(n)'  BY <2>1 DEF Asked
    <2>3. ASSUME Heard(n), mpv'[n] = mpv[n]
          PROVE  Believed(n)
      <3>1. Quiet(n) /\ mpv'[n] = mpv[n]  BY <2>1, <2>3, QuietBefore
      <3> QED  BY <2>1, <2>2, <3>1 DEF Believed
    <2>4. ASSUME mpv'[n] = v, told[n] = v, ~Misled(n, v)
          PROVE  Believed(n)
      BY <2>1, <2>2, <2>4, BecomesBelieved
    <2>5. Heard(n)'  BY DEF Quiet
    <2> QED  BY <1>1, <1>3, <2>1, <2>3, <2>4, <2>5, BecomesHeard
  <1>4. CASE PageReports
    <2>1. cache[Pause] # NoValue /\ media' = [sent |-> cache[Pause], last |-> cache[Pause]]
      BY <1>4 DEF PageReports
    <2>2. media'.sent # NoValue  BY <2>1
    <2> QED  BY <1>2, <1>4, <2>2 DEF PageReports, belief
  <1>5. CASE OnMediaStatus
    <2>1. media.sent = media.last  BY <1>5 DEF Agreement, MediaAgrees, OnMediaStatus
    <2>2. media'.last = media.last  BY <1>5, TypeFacts DEF OnMediaStatus
    <2>3. paused' = media'.last  BY <1>5, <2>1, <2>2 DEF OnMediaStatus
    <2> QED  BY <1>2, <1>5, <2>3 DEF OnMediaStatus
  <1>6. CASE \E m \in Props : PageObserves(m)
    BY <1>2, <1>6 DEF PageObserves, belief
  <1>7. CASE UNCHANGED vars  BY <1>2, <1>7 DEF vars, belief
  <1>8. CASE \E m \in Props, v \in Values : PageSets(m, v)  BY <1>8, PageSetsBelieved
  <1>9. CASE PhaseStep  BY <1>9, PhaseStepBelieved
  <1> QED
    BY <1>3, <1>4, <1>5, <1>6, <1>7, <1>8, <1>9, MpvRunsBelieved, OnReplyBelieved,
       OnChangeBelieved
    DEF Next, PhaseStep

\* What a step may do to what CacheFilled speaks of.
Filled(n) ==
    \/ cache'[n] # NoValue
    \/ n \in FileScoped /\ Asked(n)'
    \/ /\ cache'[n] = cache[n]
       /\ IF n \in FileScoped THEN phase = "Loaded" /\ (Asked(n) => Asked(n)') 
          ELSE told'[n] = told[n]

LEMMA PhaseStepFilled ==
    ASSUME TypeOK, PhaseStep, NEW n \in Immediate, n \in FileScoped => phase' = "Loaded"
    PROVE  Filled(n)
  <1>1. PhaseTypeOK /\ pending \in Seq(Setting)  BY TypeFacts
  <1>2. CASE n \in FileScoped
    <2>1. OnFileLoaded  BY <1>1, <1>2, NotLoaded DEF PhaseStep
    <2> QED  BY <1>2, <2>1, LoadedAsks DEF Filled
  <1>3. CASE n \notin FileScoped
    <2>1. told' = told
      BY DEF PhaseStep, Loads, Stops, AppliesPreload, Fails, OnStartFile, OnFileLoaded, Kept
    <2>2. /\ Preload(pending) \in Seq(Setting)
          /\ \A p \in Seq(Setting) : Chosen(p, n, cache[n]) \in Values \cup {cache[n]}
      <3> DEFINE S == Values \cup {cache[n]}
      <3>1. ASSUME NEW p \in Seq(Setting)
            PROVE  Chosen(p, n, cache[n]) \in S
        <4>1. Values \subseteq S /\ cache[n] \in S  OBVIOUS
        <4> HIDE DEF S
        <4> QED  BY <4>1, ChosenType
      <3> QED  BY <1>1, <3>1, PreloadFacts
    <2>3. cache'[n] \in Values \cup {cache[n]}
      <3>1. CASE Loads
        BY <1>3, <2>2, <3>1 DEF Loads, ForgetTracks
      <3>2. CASE Stops  BY <1>3, <3>2 DEF Stops, ForgetTracks
      <3>3. CASE AppliesPreload
        BY <2>2, <3>3 DEF AppliesPreload, ApplyPreload, BelieveAll
      <3>4. CASE Fails  BY <3>4 DEF Fails, belief
      <3>5. CASE OnStartFile  BY <1>3, <3>5 DEF OnStartFile, ForgetTracks
      <3>6. CASE OnFileLoaded  BY <1>1, <2>2, <3>6 DEF OnFileLoaded, BelieveAll
      <3> QED  BY <3>1, <3>2, <3>3, <3>4, <3>5, <3>6 DEF PhaseStep
    <2> QED  BY <1>3, <2>1, <2>3, PropsFacts DEF Filled
  <1> QED  BY <1>2, <1>3

LEMMA FilledStep ==
    ASSUME TypeOK, Agreement, [Next]_vars
    PROVE  CacheFilled'
  <1>1. SUFFICES ASSUME NEW n \in Immediate, n \in FileScoped => phase' = "Loaded"
                 PROVE  Filled(n)
    <2>1. \A n \in Immediate :
             cache[n] = NoValue =>
                IF n \in FileScoped THEN phase = "Loaded" => Asked(n) ELSE told[n] = NoValue
      BY DEF Agreement, CacheFilled
    <2>2. \A n \in Immediate : (n \in FileScoped => phase' = "Loaded") => Filled(n)
      BY <1>1
    <2> QED  BY <2>1, <2>2 DEF Filled, CacheFilled
  <1>2. cache \in [Immediate -> AnyValue] /\ n \in Props  BY TypeFacts, PropsFacts
  <1>3. ASSUME UNCHANGED <<phase, cache>>, Asked(n) => Asked(n)', told' = told
        PROVE  Filled(n)
    BY <1>1, <1>3 DEF Filled
  <1>4. ASSUME NEW m \in Props, NEW v \in Values, Cached(m, v)
        PROVE  cache'[n] = IF m = n THEN v ELSE cache[n]
    BY <1>2, <1>4 DEF Cached
  <1>5. \A v \in Values : v # NoValue  BY PropsFacts
  <1>6. ASSUME NEW m \in Props, NEW v \in Values, PageSets(m, v)
        PROVE  Filled(n)
    <2>1. Cached(m, v) /\ UNCHANGED <<phase, told, replies>>  BY <1>6 DEF PageSets, Believe
    <2>2. Asked(n) => Asked(n)'
      <3>1. Set([name |-> m, value |-> v]) \in CoreOp  BY CoreOpFacts DEF Setting
      <3>2. \/ UNCHANGED core
            \/ core' = Append(core, Set([name |-> m, value |-> v]))
        BY <1>6 DEF PageSets
      <3>3. core \in Seq(CoreOp)  BY TypeFacts
      <3> DEFINE s == Set([name |-> m, value |-> v])
      <3> HIDE DEF s
      <3>4. core' = Append(core, s) => Members(core') = Members(core) \cup {s}
        BY <3>1, <3>3, MembersAppend DEF s
      <3>5. Members(core) \subseteq Members(core')  BY <3>2, <3>4 DEF s
      <3> QED  BY <2>1, <3>5 DEF Asked
    <2>3. cache'[n] = IF m = n THEN v ELSE cache[n]  BY <1>4, <2>1
    <2> QED  BY <1>1, <1>5, <2>1, <2>2, <2>3 DEF Filled
  <1>7. ASSUME NEW m \in Props, OnChange(m)
        PROVE  Filled(n)
    <2>1. mpv[m] \in Values /\ told \in [Props -> AnyValue]  BY TypeFacts
    <2>2. /\ Cached(m, mpv[m]) /\ UNCHANGED <<phase, core, replies>>
          /\ told' = [told EXCEPT ![m] = mpv[m]]
      BY <1>7 DEF OnChange, BelieveNotice, Believe
    <2>3. cache'[n] = IF m = n THEN mpv[m] ELSE cache[n]  BY <1>4, <2>1, <2>2
    <2>4. CASE m = n  BY <1>5, <2>1, <2>3, <2>4 DEF Filled
    <2>5. CASE m # n /\ n \in FileScoped
      BY <1>1, <2>2, <2>3, <2>5 DEF Filled, Asked
    <2>6. CASE m # n /\ n \notin FileScoped
      <3>1. told'[n] = told[n]  BY <1>2, <2>1, <2>2, <2>6
      <3> QED  BY <2>3, <2>6, <3>1 DEF Filled
    <2> QED  BY <2>4, <2>5, <2>6
  <1>8. CASE OnReply
    <2> DEFINE r == Head(replies)
    <2>1. /\ replies \in Seq(Setting) /\ replies # <<>> /\ replies' = Tail(replies)
          /\ Cached(r.name, r.value) /\ UNCHANGED <<phase, core, told>>
      BY <1>8, TypeFacts DEF OnReply
    <2>2. r \in Setting /\ Members(replies) = {r} \cup Members(replies')
      BY <2>1, MembersTail
    <2> HIDE DEF r
    <2>3. r.name \in Props /\ r.value \in Values  BY <2>2 DEF Setting
    <2>4. cache'[n] = IF r.name = n THEN r.value ELSE cache[n]  BY <1>4, <2>1, <2>3
    <2>5. CASE r.name = n  BY <1>5, <2>3, <2>4, <2>5 DEF Filled
    <2>6. CASE r.name # n
      <3>1. Asked(n) => Asked(n)'  BY <2>1, <2>2, <2>6 DEF Asked
      <3> QED  BY <1>1, <2>1, <2>4, <2>6, <3>1 DEF Filled
    <2> QED  BY <2>5, <2>6
  <1>9. CASE MpvRuns
    BY <1>3, <1>9, MpvRunsAsked DEF MpvRuns, belief
  <1>10. CASE PhaseStep  BY <1>1, <1>10, PhaseStepFilled
  <1>11. ASSUME UNCHANGED <<phase, cache, core, replies, told>>
         PROVE  Filled(n)
    BY <1>3, <1>11 DEF Asked
  <1>12. CASE \E m \in Props, v \in Values : MpvChanges(m, v)
    BY <1>11, <1>12 DEF MpvChanges, belief
  <1>13. CASE \E m \in Props : PageObserves(m)
    BY <1>11, <1>13 DEF PageObserves, belief
  <1>14. CASE PageReports \/ OnMediaStatus \/ UNCHANGED vars
    BY <1>11, <1>14 DEF PageReports, OnMediaStatus, vars, belief
  <1> QED
    BY <1>6, <1>7, <1>8, <1>9, <1>10, <1>12, <1>13, <1>14 DEF Next, PhaseStep

LEMMA AgreementStep ==
    ASSUME TypeOK, Agreement, [Next]_vars
    PROVE  Agreement'
  <1>1. CacheAgrees'
    <2>1. SUFFICES ASSUME NEW n \in Immediate, Quiet(n)', n \in FileScoped => phase' = "Loaded"
                   PROVE  cache'[n] = mpv'[n] \/ (n \in FileScoped /\ Asked(n)')
      BY DEF CacheAgrees
    <2>2. Believed(n)  BY <2>1, StepBelieved
    <2>3. Quiet(n) /\ (n \in FileScoped => phase = "Loaded") =>
             cache[n] = mpv[n] \/ (n \in FileScoped /\ Asked(n))
      BY DEF Agreement, CacheAgrees
    <2> QED  BY <2>2, <2>3 DEF Believed
  <1>2. PausedAgrees'
    <2>1. SUFFICES ASSUME Quiet(Pause)'
                   PROVE  paused' = mpv'[Pause] \/ paused' = media'.last \/ media'.sent # NoValue
      BY DEF PausedAgrees
    <2>2. Pause \in Immediate /\ Pause \notin FileScoped  BY PropsFacts
    <2>3. Believed(Pause)  BY <2>1, <2>2, StepBelieved
    <2>4. CASE paused' = mpv'[Pause]  BY <2>4
    <2>5. CASE UNCHANGED <<paused, media>> /\ Quiet(Pause) /\ mpv'[Pause] = mpv[Pause]
      BY <2>5 DEF Agreement, PausedAgrees
    <2> QED  BY <2>2, <2>3, <2>4, <2>5 DEF Believed
  <1> QED  BY <1>1, <1>2, RepliesStep, MediaStep, FilledStep DEF Agreement

\* Nothing has been heard at the beginning.
LEMMA AgreementInit == ASSUME Init PROVE Agreement
  <1>1. Pause \in Props /\ \A n \in Props : told[n] # mpv[n]
    BY PropsFacts DEF Init
  <1>2. \A n \in Props : ~Quiet(n)  BY <1>1 DEF Quiet, Heard
  <1>3. CacheAgrees  BY <1>2, PropsFacts DEF CacheAgrees
  <1>4. PausedAgrees  BY <1>1, <1>2 DEF PausedAgrees
  <1>5. RepliesAgree  BY DEF Init, RepliesAgree, Members
  <1>6. MediaAgrees  BY DEF Init, MediaAgrees
  <1>7. CacheFilled  BY PropsFacts DEF Init, PhaseInit, CacheFilled
  <1> QED  BY <1>3, <1>4, <1>5, <1>6, <1>7 DEF Agreement

LEMMA Agreed == Spec => [](TypeOK /\ Agreement)
  <1>1. TypeOK /\ Agreement /\ [Next]_vars => Agreement'  BY AgreementStep
  <1> QED  BY <1>1, AgreementInit, TypeCorrect, PTL DEF Spec

\* Where nothing is under way there is nothing to be set, and no answer to come.
LEMMA SettledIsQuiet ==
    ASSUME TypeOK, NEW n \in Immediate, Settled(n), n \notin missed
    PROVE  Quiet(n) /\ ~Asked(n)
  <1>1. /\ \A c \in Members(core) : c.name # n
        /\ \A r \in Members(replies) : r.name # n
        /\ \A s \in Members(pending) : s.name # n
    BY DEF Settled, Members
  <1>2. Heard(n)  BY DEF Settled, Heard
  <1>3. Get(n).name = n  BY CoreOpFacts, PropsFacts
  <1> QED  BY <1>1, <1>2, <1>3 DEF Quiet, Asked

\* Once all is quiet a page that asks for a property it observes is told mpv's value, of a
\* track while its file is loaded, unless the property is `missed': whatever properties there
\* are and however long the queues of mpv and of the thread, mpv's return to the value it
\* told last, while the shell believed or was about to be told another, is the only order
\* of settings, replies and notices that leaves the cache wrong
\* (observe_and_emit_current_property, update_cached_property).
THEOREM CacheIsRight == Spec => []CacheSettles
  <1>1. ASSUME TypeOK, Agreement
        PROVE  CacheSettles
    <2>1. SUFFICES ASSUME NEW n \in observed \cap Immediate, Settled(n), n \notin missed,
                          n \in FileScoped => phase = "Loaded"
                   PROVE  Known(n) = mpv[n]
      BY DEF CacheSettles
    <2>2. Quiet(n) /\ ~Asked(n)  BY <1>1, <2>1, SettledIsQuiet
    <2>3. cache[n] = mpv[n]  BY <1>1, <2>1, <2>2 DEF Agreement, CacheAgrees
    <2>4. mpv[n] \in Values  BY <1>1, TypeFacts, PropsFacts
    <2>5. cache[n] # NoValue  BY <2>3, <2>4, PropsFacts
    <2> QED  BY <2>3, <2>5 DEF Known
  <1>2. TypeOK /\ Agreement => CacheSettles  BY <1>1
  <1> QED  BY <1>2, Agreed, PTL

\* Once all is quiet, and the page has said what it was told last if it speaks of it at
\* all, IS_PAUSED says whether mpv pauses, unless "pause" is `missed': it is left wrong by
\* mpv's return to the pause it told last while the shell believed another, and by no other
\* order of its writes (apply_property_set_side_effect, the notices of "pause" and
\* handle_media_status, of two threads).
THEOREM PausedIsRight == Spec => []PausedSettles
  <1>1. ASSUME TypeOK, Agreement
        PROVE  PausedSettles
    <2>1. SUFFICES ASSUME Settled(Pause), Reported, Pause \notin missed
                   PROVE  paused = mpv[Pause]
      BY DEF PausedSettles
    <2>2. Pause \in Immediate /\ Pause \notin FileScoped  BY PropsFacts
    <2>3. Quiet(Pause) /\ ~Asked(Pause)  BY <1>1, <2>1, <2>2, SettledIsQuiet
    <2>4. cache[Pause] = mpv[Pause]  BY <1>1, <2>2, <2>3 DEF Agreement, CacheAgrees
    <2>5. paused = mpv[Pause] \/ paused = media.last
      BY <1>1, <2>1, <2>3 DEF Agreement, PausedAgrees, Reported
    <2>6. paused # NoValue  BY <1>1, TypeFacts, PropsFacts
    <2>7. media.last \in {NoValue, cache[Pause]}  BY <2>1 DEF Reported
    <2> QED  BY <2>4, <2>5, <2>6, <2>7
  <1>2. TypeOK /\ Agreement => PausedSettles  BY <1>1
  <1> QED  BY <1>2, Agreed, PTL

=============================================================================

----------------------- MODULE DependencyParser_proof -----------------------
(***************************************************************************)
(* Safety of create_instances and of the parser, for every training set,   *)
(* data set, batch size and classifier.                                    *)
(*                                                                         *)
(* create_instances never trips over its own assertion: no sentence, tree  *)
(* or not, runs its stack and buffer out before the loop of 2n turns ends. *)
(* It keeps a sentence exactly when its heads are a projective tree.  The  *)
(* argument is Reducible: what the oracle has put on the stack can still   *)
(* be attached.  The instances it records are a parse: ReplayInv follows,  *)
(* beside the lists of create_instances, the PartialParse that would be    *)
(* given them.  The parser only takes legal steps and only answers with    *)
(* projective trees.  The steps of MPNext come first, create_instances     *)
(* next, and the theorems after the lemmas on either.                      *)
(***************************************************************************)
EXTENDS DependencyParser, SequenceTheorems, WellFoundedInduction, TLAPS

-----------------------------------------------------------------------------
(* minibatch_parse: the parses in the making, and the steps of MPNext. *)

(* The first m words have been moved to the stack.  It ascends, and starts
   with the root. *)
StackSound(row, m) ==
    /\ Len(row) >= 1
    /\ row[1] \in {Root, RootString}
    /\ \A i \in 2 .. Len(row) : row[i] \in 1 .. m
    /\ \A i, j \in 1 .. Len(row) : i < j => row[i] < row[j]

Inside(w, a) == (a[1] < w /\ w < a[2]) \/ (a[2] < w /\ w < a[1])

(* A word leaves the stack when it gets its head, and for good: later arcs do
   not touch it, and no word that is still on the stack is below an arc. *)
ArcsSound(row, deps, m) ==
    /\ \A j \in 1 .. Len(deps) : deps[j][1] \in 0 .. m /\ deps[j][2] \in 1 .. m
    /\ \A j \in 1 .. Len(deps), i \in 1 .. Len(row) :
         row[i] # deps[j][2] /\ ~ Inside(row[i], deps[j])
    /\ \A j, l \in 1 .. Len(deps) : j < l => deps[j][2] # deps[l][2]
    /\ \A j, l \in 1 .. Len(deps) : j <= l => deps[j][2] # deps[l][1]
    /\ \A j, l \in 1 .. Len(deps) : ~ Crossing(deps[j], deps[l])
    /\ \A w \in 1 .. m :
         \/ \E i \in 1 .. Len(row) : row[i] = w
         \/ \E j \in 1 .. Len(deps) : deps[j][2] = w

(* A parse of a sentence of n words.  The root is a string only until the
   first transition. *)
Sound(c, n) ==
    /\ c \in Configuration
    /\ Len(c.buffer) <= n
    /\ \A i \in 1 .. Len(c.buffer) : c.buffer[i] = n - Len(c.buffer) + i
    /\ Len(c.deps) + Len(c.stack) + Len(c.buffer) = n + 1
    /\ c.stack[1] = RootString => Len(c.stack) <= 1 /\ Len(c.deps) <= 0
    /\ StackSound(c.stack, n - Len(c.buffer))
    /\ ArcsSound(c.stack, c.deps, n - Len(c.buffer))

ParsesSound == \A k \in 1 .. Len(sentences) : Sound(parse[k], sentences[k])

(* unfinished_parses lists every parse that is not finished, once. *)
QueueIsExact ==
    /\ \A a, b \in 1 .. Len(unfinished) : unfinished[a] = unfinished[b] => a = b
    /\ \A k \in 1 .. Len(sentences) :
         Finished(parse[k]) <=> ~ \E a \in 1 .. Len(unfinished) : unfinished[a] = k

(* The parses of a batch are different objects, so that the step of one does
   not spoil the prediction of another; predict renumbered their roots. *)
BatchIsDistinct ==
    /\ \A a, b \in 1 .. Len(batch) : batch[a] = batch[b] => a = b
    /\ Len(transitions) = Len(batch)
    /\ \A m \in turn .. Len(batch) : parse[batch[m]].stack[1] = Root

(* Nothing happens before the sentences are there and after the answers are. *)
Phases ==
    /\ sentences = <<>> => batch = <<>> /\ heads = <<>>
    /\ heads # <<>> =>
         /\ unfinished = <<>>
         /\ ~ Applying
         /\ heads = [k \in DOMAIN parse |->
                       [w \in 1 .. sentences[k] |-> HeadOf(parse[k].deps, w)]]

MPInv ==
    /\ MPTypeOK
    /\ ParsesSound
    /\ QueueIsExact
    /\ BatchIsDistinct
    /\ StepIsLegal
    /\ Phases

-----------------------------------------------------------------------------
(* Numbers and sequences *)

LEMMA Least ==
    ASSUME NEW T, T \subseteq Nat, T # {}
    PROVE  \E x \in T : \A y \in T : x <= y
  <1> DEFINE R == OpToRel(<, Nat)
  <1>1. IsWellFoundedOn(R, Nat)
    BY NatLessThanWellFounded
  <1>2. \A a, b \in Nat : a < b => <<a, b>> \in R
    BY DEF OpToRel
  <1> HIDE DEF R
  <1>3. PICK x \in T : \A y \in T : ~ (<<y, x>> \in R)
    BY <1>1, WFMin
  <1>4. ASSUME NEW y \in T
        PROVE  x <= y
    <2>1. x \in Nat /\ y \in Nat
      OBVIOUS
    <2>2. ~ (y < x)
      BY <1>2, <1>3, <2>1
    <2> QED  BY <2>1, <2>2
  <1> QED  BY <1>4

(* The parts of s before and after its element i. *)
Around(s, i, before, after) ==
    /\ Len(before) = i - 1 /\ \A a \in 1 .. i - 1 : before[a] = s[a]
    /\ Len(after) = Len(s) - i /\ \A a \in 1 .. Len(s) - i : after[a] = s[i + a]

LEMMA Spliced ==
    ASSUME NEW S, NEW s \in Seq(S), NEW i \in 1 .. Len(s),
           NEW before \in Seq(S), NEW after \in Seq(S), Around(s, i, before, after)
    PROVE  /\ before \o after \in Seq(S)
           /\ Len(before \o after) = Len(s) - 1
           /\ \A a \in 1 .. Len(s) - 1 : (before \o after)[a] = IF a < i THEN s[a] ELSE s[a + 1]
  <1>1. Len(s) \in Nat
    BY LenProperties
  <1>2. /\ before \o after \in Seq(S)
        /\ Len(before \o after) = Len(before) + Len(after)
        /\ \A a \in 1 .. Len(before) + Len(after) :
             (before \o after)[a] = IF a <= Len(before) THEN before[a] ELSE after[a - Len(before)]
    BY ConcatProperties
  <1>3. ASSUME NEW a \in 1 .. Len(s) - 1
        PROVE  (before \o after)[a] = IF a < i THEN s[a] ELSE s[a + 1]
    <2>1. CASE a < i
      BY <1>1, <1>2, <2>1 DEF Around
    <2>2. CASE ~ (a < i)
      <3>1. a - (i - 1) \in 1 .. Len(s) - i /\ i + (a - (i - 1)) = a + 1
        BY <1>1, <2>2
      <3>2. after[a - (i - 1)] = s[i + (a - (i - 1))]
        BY <3>1 DEF Around
      <3>3. (before \o after)[a] = after[a - (i - 1)]
        BY <1>1, <1>2, <2>2 DEF Around
      <3> QED  BY <2>2, <3>1, <3>2, <3>3
    <2> QED  BY <2>1, <2>2
  <1> QED  BY <1>1, <1>2, <1>3 DEF Around

Distinct(s) == \A a, b \in 1 .. Len(s) : s[a] = s[b] => a = b

(* r lists what s lists, except y. *)
Without(r, s, y) ==
    \A x : (\E a \in 1 .. Len(r) : r[a] = x) <=> x # y /\ \E a \in 1 .. Len(s) : s[a] = x

(* list.remove on a list without duplicates *)
LEMMA Removed ==
    ASSUME NEW S, NEW s \in Seq(S), NEW i \in 1 .. Len(s), Distinct(s)
    PROVE  /\ RemoveFirst(s, s[i]) \in Seq(S)
           /\ Distinct(RemoveFirst(s, s[i]))
           /\ Without(RemoveFirst(s, s[i]), s, s[i])
  <1> DEFINE found == {j \in 1 .. Len(s) : s[j] = s[i]}
             r == RemoveFirst(s, s[i])
  <1>1. Len(s) \in Nat
    BY LenProperties
  <1>2. r = SubSeq(s, 1, i - 1) \o SubSeq(s, i + 1, Len(s))
    <2>1. found = {i}
      BY DEF Distinct
    <2>2. Min(found) = i
      BY <1>1, <2>1 DEF Min
    <2>3. SelectInSeq(s, LAMBDA v : v = s[i]) = i
      BY <2>1, <2>2 DEF SelectInSeq
    <2> QED  BY <2>3 DEF RemoveFirst, RemoveAt
  <1>3. \A a \in 1 .. Len(s) : s[a] \in S
    BY ElementOfSeq
  <1>4. /\ SubSeq(s, 1, i - 1) \in Seq(S) /\ Len(SubSeq(s, 1, i - 1)) = i - 1
        /\ \A a \in 1 .. i - 1 : SubSeq(s, 1, i - 1)[a] = s[a]
    BY <1>1, <1>3, SubSeqProperties
  <1>5. /\ SubSeq(s, i + 1, Len(s)) \in Seq(S) /\ Len(SubSeq(s, i + 1, Len(s))) = Len(s) - i
        /\ \A a \in 1 .. Len(s) - i : SubSeq(s, i + 1, Len(s))[a] = s[i + a]
    BY <1>1, <1>3, SubSeqProperties
  <1> HIDE DEF r
  <1>r. /\ r \in Seq(S) /\ Len(r) = Len(s) - 1
        /\ \A a \in 1 .. Len(s) - 1 : r[a] = IF a < i THEN s[a] ELSE s[a + 1]
    <2>1. Around(s, i, SubSeq(s, 1, i - 1), SubSeq(s, i + 1, Len(s)))
      BY <1>4, <1>5 DEF Around
    <2> DEFINE joined == SubSeq(s, 1, i - 1) \o SubSeq(s, i + 1, Len(s))
    <2>2. SubSeq(s, 1, i - 1) \in Seq(S) /\ SubSeq(s, i + 1, Len(s)) \in Seq(S)
      BY <1>4, <1>5
    <2>3. /\ joined \in Seq(S) /\ Len(joined) = Len(s) - 1
          /\ \A a \in 1 .. Len(s) - 1 : joined[a] = IF a < i THEN s[a] ELSE s[a + 1]
      <3>1. \A before, after \in Seq(S) : Around(s, i, before, after) =>
               /\ before \o after \in Seq(S) /\ Len(before \o after) = Len(s) - 1
               /\ \A a \in 1 .. Len(s) - 1 :
                    (before \o after)[a] = IF a < i THEN s[a] ELSE s[a + 1]
        BY Spliced
      <3> QED  BY <2>1, <2>2, <3>1, Zenon
    <2> QED  BY <1>2, <2>3
  <1>6. Distinct(r)
    BY <1>1, <1>r DEF Distinct
  <1>7. ASSUME NEW x
        PROVE  (\E a \in 1 .. Len(r) : r[a] = x)
                 <=> x # s[i] /\ \E a \in 1 .. Len(s) : s[a] = x
    <2>1. ASSUME NEW a \in 1 .. Len(r), r[a] = x
          PROVE  x # s[i] /\ \E b \in 1 .. Len(s) : s[b] = x
      BY <1>1, <1>r, <2>1 DEF Distinct
    <2>2. ASSUME NEW a \in 1 .. Len(s), s[a] = x, a # i
          PROVE  \E b \in 1 .. Len(r) : r[b] = x
      <3>1. CASE a < i
        BY <1>1, <1>r, <2>2, <3>1
      <3>2. CASE i < a
        <4>1. a - 1 \in 1 .. Len(r) /\ r[a - 1] = x
          BY <1>1, <1>r, <2>2, <3>2
        <4> QED  BY <4>1
      <3> QED  BY <1>1, <2>2, <3>1, <3>2
    <2> QED  BY <2>1, <2>2
  <1> QED  BY <1>r, <1>6, <1>7 DEF r, Without

-----------------------------------------------------------------------------
(* One parse *)

LEMMA NewParseSound ==
    ASSUME NEW n \in Nat \ {0}
    PROVE  Sound(NewParse(n), n) /\ ~ Finished(NewParse(n))
  <1> DEFINE c == NewParse(n)
  <1>1. [w \in 1 .. n |-> w] \in Seq(Nat) /\ Len([w \in 1 .. n |-> w]) = n
    <2>1. [w \in 1 .. n |-> w] \in [1 .. n -> Nat]
      OBVIOUS
    <2>2. \A f \in [1 .. n -> Nat] : f \in Seq(Nat) /\ Len(f) = n
      BY IsASeq, LenProperties
    <2> QED  BY <2>1, <2>2
  <1>2. /\ c.stack = <<RootString>> /\ c.deps = <<>>
        /\ c.buffer = [w \in 1 .. n |-> w]
        /\ c.buffer \in Seq(Nat) /\ Len(c.buffer) = n
        /\ c \in Configuration
    <2>1. <<RootString>> \in Seq(Int) /\ <<>> \in Seq(Nat \X Nat)
      BY DEF RootString
    <2> QED  BY <1>1, <2>1 DEF NewParse, Configuration
  <1>3. \A i \in 1 .. n : c.buffer[i] = i
    BY <1>2
  <1> HIDE DEF c
  <1>4. StackSound(<<RootString>>, 0)
    BY DEF StackSound
  <1>5. ArcsSound(<<RootString>>, <<>>, 0)
    BY DEF ArcsSound
  <1>6. ~ Finished(c)
    BY <1>2 DEF Finished
  <1>7. n - Len(c.buffer) = 0
    BY <1>2
  <1> QED  BY <1>2, <1>3, <1>4, <1>5, <1>6, <1>7 DEF Sound, c

(* predict replaces the string "ROOT" by the number 0, and nothing else. *)
LEMMA RootRenumbered ==
    ASSUME NEW m \in Nat, NEW s \in Seq(Int), NEW d, StackSound(s, m), ArcsSound(s, d, m),
           s[1] = RootString => Len(s) <= 1 /\ Len(d) <= 0
    PROVE  /\ Renumbered(s) \in Seq(Int)
           /\ Len(Renumbered(s)) = Len(s)
           /\ Renumbered(s)[1] = Root
           /\ StackSound(Renumbered(s), m)
           /\ ArcsSound(Renumbered(s), d, m)
  <1>1. CASE s[1] = RootString
    <2>1. PICK k \in Nat : k = Len(s)
      BY LenProperties
    <2>2. k = 1
      BY <1>1, <2>1 DEF StackSound
    <2>3. Renumbered(s) = [s EXCEPT ![1] = Root]
      BY <1>1 DEF Renumbered
    <2>4. PICK r : r = [s EXCEPT ![1] = Root]
      OBVIOUS
    <2>5. r \in Seq(Int) /\ Len(r) = Len(s) /\ r[1] = Root
      <3>1. 1 \in 1 .. Len(s) /\ Root \in Int
        BY <2>1, <2>2 DEF Root
      <3> QED  BY <2>4, <3>1, ExceptSeq
    <2>6. StackSound(r, m)
      <3>1. PICK size : size = Len(r) /\ size = 1
        BY <2>1, <2>2, <2>5
      <3> QED  BY <2>5, <3>1 DEF StackSound
    <2>7. m = 0
      <3>1. \A w \in 1 .. m : w = s[1]
        BY <1>1, <2>1, <2>2 DEF ArcsSound
      <3>2. 1 \in 1 .. m => 1 = RootString
        BY <1>1, <3>1
      <3> QED  BY <3>2 DEF RootString
    <2>8. ArcsSound(r, d, m)
      BY <1>1, <2>1, <2>2, <2>5, <2>7 DEF ArcsSound
    <2> QED  BY <2>1, <2>2, <2>3, <2>4, <2>5, <2>6, <2>8
  <1>2. CASE s[1] # RootString
    <2>1. Renumbered(s) = s /\ s[1] = Root
      BY <1>2 DEF Renumbered, StackSound
    <2> QED  BY <2>1
  <1> QED  BY <1>1, <1>2

(* The ends of crossing arcs are inside each other. *)
LEMMA CrossingIsInside ==
    ASSUME NEW a, a[1] \in Int, a[2] \in Int, NEW b, b[1] \in Int, b[2] \in Int,
           Crossing(a, b)
    PROVE  /\ Inside(a[1], b) \/ Inside(a[2], b)
           /\ Inside(b[1], a) \/ Inside(b[2], a)
  BY DEF Crossing, Inside

(* The head of an arc, and a word before both its ends, are not below it. *)
LEMMA OutsideArc ==
    ASSUME NEW head \in Int, NEW dep \in Int, head # dep, NEW v \in Int,
           v = head \/ (v < head /\ v < dep),
           NEW a, a[1] = head, a[2] = dep
    PROVE  v # a[2] /\ ~ Inside(v, a)
  BY DEF Inside

(* Of the two words on top of the stack s, which becomes t, the one at p gets
   the one at q as its head, and leaves. *)
Attached(s, size, d, links, p, q, t, f) ==
    /\ size = Len(s) /\ links = Len(d)
    /\ \/ p = size - 1 /\ q = size
       \/ p = size /\ q = size - 1
    /\ Len(t) = size - 1
    /\ \A i \in 1 .. size - 1 : t[i] = IF i < p THEN s[i] ELSE s[i + 1]
    /\ Len(f) = links + 1
    /\ \A j \in 1 .. links : f[j] = d[j]
    /\ f[links + 1][1] = s[q] /\ f[links + 1][2] = s[p]

LEMMA ArcAdded ==
    ASSUME NEW m \in Nat, NEW s, NEW d, StackSound(s, m), ArcsSound(s, d, m), s[1] = Root,
           NEW size \in Nat, NEW links \in Nat, NEW p \in 2 .. size, NEW q \in 1 .. size,
           NEW t, NEW f, Attached(s, size, d, links, p, q, t, f)
    PROVE  t[1] = Root /\ StackSound(t, m) /\ ArcsSound(t, f, m)
  <1> SUFFICES ASSUME size = Len(s), links = Len(d),
                      NEW last \in Nat, last = links + 1,
                      \/ p = size - 1 /\ q = size
                      \/ p = size /\ q = size - 1,
                      Len(t) = size - 1,
                      \A i \in 1 .. size - 1 : t[i] = IF i < p THEN s[i] ELSE s[i + 1],
                      Len(f) = last,
                      \A j \in 1 .. last - 1 : f[j] = d[j],
                      NEW dep, dep = s[p], NEW head, head = s[q],
                      f[last][1] = head, f[last][2] = dep
               PROVE  t[1] = Root /\ StackSound(t, m) /\ ArcsSound(t, f, m)
    BY DEF Attached
  <1>1. size >= 2
    OBVIOUS
  <1>2. /\ dep \in 1 .. m /\ head \in 0 .. m /\ head # dep
        /\ \A i \in 1 .. size : s[i] \in 0 .. m
    BY DEF StackSound, Root
  <1>3. ASSUME NEW i \in 1 .. size - 1
        PROVE  \E a \in 1 .. size : a = (IF i < p THEN i ELSE i + 1) /\ t[i] = s[a]
    <2>1. CASE i < p
      <3>1. i \in 1 .. size /\ t[i] = s[i]
        BY <2>1
      <3> QED  BY <2>1, <3>1
    <2>2. CASE ~ (i < p)
      <3>1. i + 1 \in 1 .. size /\ t[i] = s[i + 1]
        BY <2>2
      <3> QED  BY <2>2, <3>1
    <2> QED  BY <2>1, <2>2
  <1>4. \A a \in 1 .. size : a # p => \E i \in 1 .. size - 1 : t[i] = s[a]
    <2>1. ASSUME NEW a \in 1 .. size, a < p
          PROVE  a \in 1 .. size - 1 /\ t[a] = s[a]
      BY <2>1
    <2>2. ASSUME NEW a \in 1 .. size, p < a
          PROVE  a - 1 \in 1 .. size - 1 /\ t[a - 1] = s[a]
      BY <2>2
    <2> QED  BY <2>1, <2>2
  <1>5. t[1] = Root
    OBVIOUS
  <1>6. StackSound(t, m)
    <2>1. ASSUME NEW i \in 2 .. size - 1
          PROVE  t[i] \in 1 .. m
      <3>1. PICK a \in 2 .. size : t[i] = s[a]
        OBVIOUS
      <3> QED  BY <3>1 DEF StackSound
    <2>2. ASSUME NEW i \in 1 .. size - 1, NEW j \in 1 .. size - 1, i < j
          PROVE  t[i] < t[j]
      <3>1. PICK a \in 1 .. size : a = (IF i < p THEN i ELSE i + 1) /\ t[i] = s[a]
        BY <1>3
      <3>2. CASE j < p
        BY <2>2, <3>1, <3>2 DEF StackSound
      <3>3. CASE ~ (j < p)
        <4>1. t[j] = s[j + 1]
          BY <3>3
        <4>2. j + 1 \in 1 .. size /\ a < j + 1
          BY <2>2, <3>1
        <4> QED  BY <3>1, <4>1, <4>2 DEF StackSound
      <3> QED  BY <3>2, <3>3
    <2> QED
      BY <1>1, <1>5, <2>1, <2>2 DEF StackSound
  <1>7. \A j \in 1 .. last : j = last \/ j \in 1 .. last - 1
    OBVIOUS
  <1>8. ASSUME NEW j \in 1 .. last
        PROVE  f[j][1] \in 0 .. m /\ f[j][2] \in 1 .. m
    <2>1. CASE j \in 1 .. last - 1
      BY <2>1 DEF ArcsSound
    <2>2. CASE j = last
      BY <1>2, <2>2
    <2> QED  BY <1>7, <2>1, <2>2
  <1>9. ASSUME NEW j \in 1 .. last, NEW i \in 1 .. size - 1
        PROVE  t[i] # f[j][2] /\ ~ Inside(t[i], f[j])
    <2>1. PICK a \in 1 .. size : a # p /\ t[i] = s[a]
      <3>1. PICK a \in 1 .. size : a = (IF i < p THEN i ELSE i + 1) /\ t[i] = s[a]
        BY <1>3
      <3>2. a # p
        BY <3>1
      <3> QED  BY <3>1, <3>2
    <2>2. CASE j \in 1 .. last - 1
      BY <2>1, <2>2 DEF ArcsSound
    <2>3. CASE j = last
      <3>1. a = q \/ (a < p /\ a < q)
        BY <2>1
      <3>2. s[a] = head \/ (s[a] < head /\ s[a] < dep)
        BY <3>1 DEF StackSound
      <3>3. s[a] \in Int /\ head \in Int /\ dep \in Int /\ head # dep
        BY <1>2
      <3>4. f[j][1] = head /\ f[j][2] = dep
        BY <2>3
      <3>5. s[a] # f[j][2] /\ ~ Inside(s[a], f[j])
        BY <3>2, <3>3, <3>4, OutsideArc, SMTT(20)
      <3> QED  BY <2>1, <3>5
    <2>4. j = last \/ j \in 1 .. last - 1
      BY <1>7
    <2> QED  BY <2>2, <2>3, <2>4
  <1>10. \A j \in 1 .. last - 1 :
           /\ d[j][2] # head /\ d[j][2] # dep
           /\ ~ Inside(head, d[j]) /\ ~ Inside(dep, d[j])
    BY DEF ArcsSound
  <1>11. ASSUME NEW j \in 1 .. last, NEW l \in 1 .. last
         PROVE  /\ j < l => f[j][2] # f[l][2]
                /\ j <= l => f[j][2] # f[l][1]
    <2>1. CASE j \in 1 .. last - 1 /\ l \in 1 .. last - 1
      <3>1. f[j] = d[j] /\ f[l] = d[l] /\ j \in 1 .. links /\ l \in 1 .. links
        BY <2>1
      <3> QED  BY <3>1 DEF ArcsSound
    <2>2. CASE j \in 1 .. last - 1 /\ l = last
      BY <1>10, <2>2
    <2>3. CASE j = last
      <3>1. l <= j
        BY <2>3
      <3>2. f[last][2] # f[last][1]
        BY <1>2
      <3> QED  BY <2>3, <3>1, <3>2
    <2> QED  BY <1>7, <2>1, <2>2, <2>3
  <1>12. ASSUME NEW j \in 1 .. last, NEW l \in 1 .. last
         PROVE  ~ Crossing(f[j], f[l])
    <2>1. \A k \in 1 .. last : f[k][1] \in Int /\ f[k][2] \in Int
      <3>1. 0 .. m \subseteq Int /\ 1 .. m \subseteq Int
        OBVIOUS
      <3> QED  BY <1>8, <3>1
    <2>2. CASE j \in 1 .. last - 1 /\ l \in 1 .. last - 1
      <3>1. f[j] = d[j] /\ f[l] = d[l] /\ j \in 1 .. links /\ l \in 1 .. links
        BY <2>2
      <3> QED  BY <3>1 DEF ArcsSound
    <2>3. CASE j \in 1 .. last - 1 /\ l = last
      <3>1. f[j] = d[j] /\ ~ Inside(f[last][1], f[j]) /\ ~ Inside(f[last][2], f[j])
        BY <1>10, <2>3
      <3> QED  BY <2>1, <2>3, <3>1, CrossingIsInside
    <2>4. CASE j = last /\ l \in 1 .. last - 1
      <3>1. f[l] = d[l] /\ ~ Inside(f[last][1], f[l]) /\ ~ Inside(f[last][2], f[l])
        BY <1>10, <2>4
      <3> QED  BY <2>1, <2>4, <3>1, CrossingIsInside
    <2>5. CASE j = last /\ l = last
      BY <2>1, <2>5 DEF Crossing
    <2>6. (j = last \/ j \in 1 .. last - 1) /\ (l = last \/ l \in 1 .. last - 1)
      BY <1>7
    <2> QED  BY <2>2, <2>3, <2>4, <2>5, <2>6
  <1>13. ASSUME NEW w \in 1 .. m
         PROVE  \/ \E i \in 1 .. size - 1 : t[i] = w
                \/ \E j \in 1 .. last : f[j][2] = w
    <2>1. CASE \E a \in 1 .. size : s[a] = w
      <3>1. PICK a \in 1 .. size : s[a] = w
        BY <2>1
      <3>2. a = p => f[last][2] = w
        BY <3>1
      <3>3. last \in 1 .. last
        OBVIOUS
      <3> QED  BY <1>4, <3>1, <3>2, <3>3
    <2>2. CASE \E j \in 1 .. links : d[j][2] = w
      <3>1. \A j \in 1 .. links : j \in 1 .. last /\ f[j] = d[j]
        OBVIOUS
      <3> QED  BY <2>2, <3>1
    <2>3. (\E a \in 1 .. size : s[a] = w) \/ (\E j \in 1 .. links : d[j][2] = w)
      BY DEF ArcsSound
    <2> QED  BY <2>1, <2>2, <2>3
  <1>14. ArcsSound(t, f, m)
    BY <1>8, <1>9, <1>11, <1>12, <1>13 DEF ArcsSound
  <1> QED  BY <1>5, <1>6, <1>14

(* A shift: the stack gains the first word of the buffer. *)
LEMMA WordShifted ==
    ASSUME NEW m \in Nat, NEW s, NEW d, StackSound(s, m), ArcsSound(s, d, m), s[1] = Root,
           NEW size \in Nat, size = Len(s),
           \A j \in 1 .. Len(d) : d[j][1] \in Nat /\ d[j][2] \in Nat,
           NEW t, Len(t) = size + 1,
           \A i \in 1 .. size : t[i] = s[i],
           t[size + 1] = m + 1
    PROVE  t[1] = Root /\ StackSound(t, m + 1) /\ ArcsSound(t, d, m + 1)
  <1>1. size >= 1
    BY DEF StackSound
  <1>2. t[1] = Root
    BY <1>1
  <1>3. \A i \in 1 .. size + 1 : i \in 1 .. size \/ i = size + 1
    OBVIOUS
  <1>4. \A i \in 1 .. size : t[i] \in 0 .. m
    BY DEF StackSound, Root
  <1>5. StackSound(t, m + 1)
    <2>1. ASSUME NEW i \in 2 .. size + 1
          PROVE  t[i] \in 1 .. m + 1
      BY <1>3 DEF StackSound
    <2>2. ASSUME NEW i \in 1 .. size + 1, NEW j \in 1 .. size + 1, i < j
          PROVE  t[i] < t[j]
      <3>1. i \in 1 .. size
        BY <2>2
      <3>2. CASE j \in 1 .. size
        BY <2>2, <3>1, <3>2 DEF StackSound
      <3>3. CASE j = size + 1
        BY <1>4, <3>1, <3>3
      <3> QED  BY <1>3, <3>2, <3>3
    <2>3. Len(t) >= 1
      BY <1>1
    <2> QED  BY <1>2, <2>1, <2>2, <2>3 DEF StackSound
  <1>6. ASSUME NEW j \in 1 .. Len(d)
        PROVE  d[j][1] \in 0 .. m + 1 /\ d[j][2] \in 1 .. m + 1
    BY DEF ArcsSound
  <1>7. ASSUME NEW j \in 1 .. Len(d), NEW i \in 1 .. size + 1
        PROVE  t[i] # d[j][2] /\ ~ Inside(t[i], d[j])
    <2>1. CASE i \in 1 .. size
      BY <2>1 DEF ArcsSound
    <2>2. CASE i = size + 1
      <3>1. d[j][1] \in 0 .. m /\ d[j][2] \in 1 .. m
        BY DEF ArcsSound
      <3> QED  BY <2>2, <3>1 DEF Inside
    <2> QED  BY <1>3, <2>1, <2>2
  <1>8. ASSUME NEW w \in 1 .. m + 1
        PROVE  \/ \E i \in 1 .. size + 1 : t[i] = w
               \/ \E j \in 1 .. Len(d) : d[j][2] = w
    <2>1. CASE w \in 1 .. m
      <3>1. CASE \E i \in 1 .. size : s[i] = w
        <4>1. PICK i \in 1 .. size : s[i] = w
          BY <3>1
        <4>2. i \in 1 .. size + 1 /\ t[i] = w
          BY <4>1
        <4> QED  BY <4>2
      <3> QED  BY <2>1, <3>1 DEF ArcsSound
    <2>2. CASE w = m + 1
      <3>1. size + 1 \in 1 .. size + 1
        BY <1>1
      <3> QED  BY <2>2, <3>1
    <2> QED  BY <2>1, <2>2
  <1>9. ArcsSound(t, d, m + 1)
    BY <1>6, <1>7, <1>8 DEF ArcsSound
  <1> QED  BY <1>2, <1>5, <1>9

(* What a parse of a sound configuration may rest on. *)
LEMMA SoundTypes ==
    ASSUME NEW n \in Nat, NEW c, Sound(c, n)
    PROVE  \E size, words, links \in Nat :
             /\ size = Len(c.stack) /\ words = Len(c.buffer) /\ links = Len(c.deps)
             /\ size >= 1 /\ words <= n /\ links + size + words = n + 1
             /\ c.stack \in Seq(Int) /\ c.buffer \in Seq(Nat) /\ c.deps \in Seq(Nat \X Nat)
             /\ \A j \in 1 .. links : c.deps[j] \in Nat \X Nat
             /\ \A i \in 1 .. size : c.stack[i] \in Int
  <1>1. c.stack \in Seq(Int) /\ c.buffer \in Seq(Nat) /\ c.deps \in Seq(Nat \X Nat)
    BY DEF Sound, Configuration
  <1>2. Len(c.stack) \in Nat /\ Len(c.buffer) \in Nat /\ Len(c.deps) \in Nat
    BY <1>1, LenProperties
  <1>3. /\ \A j \in 1 .. Len(c.deps) : c.deps[j] \in Nat \X Nat
        /\ \A i \in 1 .. Len(c.stack) : c.stack[i] \in Int
    BY <1>1, ElementOfSeq
  <1>4. /\ Len(c.stack) >= 1 /\ Len(c.buffer) <= n
        /\ Len(c.deps) + Len(c.stack) + Len(c.buffer) = n + 1
    BY DEF Sound, StackSound
  <1> QED  BY <1>1, <1>2, <1>3, <1>4

LEMMA SoundCounts ==
    ASSUME NEW n \in Nat, NEW c, Sound(c, n)
    PROVE  \E size, words, links \in Nat :
             /\ size = Len(c.stack) /\ words = Len(c.buffer) /\ links = Len(c.deps)
             /\ size >= 1 /\ words <= n /\ links + size + words = n + 1
  BY SoundTypes

(* stack.pop() and stack.pop(-2) *)
LEMMA TopPopped ==
    ASSUME NEW s \in Seq(Int), NEW size \in Nat, size = Len(s), size >= 2
    PROVE  /\ DropTop(s) \in Seq(Int)
           /\ Len(DropTop(s)) = size - 1
           /\ \A i \in 1 .. size - 1 : DropTop(s)[i] = s[i]
  <1>1. \A i \in 1 .. size - 1 : s[i] \in Int
    BY ElementOfSeq
  <1> QED  BY <1>1, SubSeqProperties DEF DropTop

LEMMA SecondPopped ==
    ASSUME NEW s \in Seq(Int), NEW size \in Nat, size = Len(s), size >= 2
    PROVE  /\ DropSecond(s) \in Seq(Int)
           /\ Len(DropSecond(s)) = size - 1
           /\ \A i \in 1 .. size - 1 :
                DropSecond(s)[i] = IF i < size - 1 THEN s[i] ELSE s[i + 1]
  <1>1. PICK below : below = SubSeq(s, 1, size - 2)
    OBVIOUS
  <1>2. \A i \in 1 .. size : s[i] \in Int
    BY ElementOfSeq
  <1>3. /\ below \in Seq(Int) /\ Len(below) = size - 2
        /\ \A i \in 1 .. size - 2 : below[i] = s[i]
    BY <1>1, <1>2, SubSeqProperties
  <1>4. PICK top \in Int : top = s[size]
    BY <1>2
  <1>5. PICK r : r = Append(below, top)
    OBVIOUS
  <1>6. /\ r \in Seq(Int) /\ Len(r) = Len(below) + 1
        /\ \A i \in 1 .. Len(below) : r[i] = below[i]
        /\ r[Len(below) + 1] = top
    BY <1>3, <1>5, AppendProperties
  <1>7. Len(r) = size - 1 /\ r[size - 1] = top /\ \A i \in 1 .. size - 2 : r[i] = s[i]
    BY <1>3, <1>6
  <1>8. DropSecond(s) = r
    BY <1>1, <1>4, <1>5 DEF DropSecond, Top
  <1>9. ASSUME NEW i \in 1 .. size - 1
        PROVE  r[i] = IF i < size - 1 THEN s[i] ELSE s[i + 1]
    <2>1. CASE i < size - 1
      BY <1>7, <2>1
    <2>2. CASE ~ (i < size - 1)
      <3>1. i = size - 1 /\ i + 1 = size
        BY <2>2
      <3> QED  BY <1>4, <1>7, <2>2, <3>1
    <2> QED  BY <2>1, <2>2
  <1> QED  BY <1>6, <1>7, <1>8, <1>9

LEMMA ShiftSound ==
    ASSUME NEW n \in Nat, NEW c, Sound(c, n), c.stack[1] = Root, c.buffer # <<>>,
           NEW e, e = ParseStep(c, "S")
    PROVE  Sound(e, n) /\ e.stack[1] = Root
  <1>1. PICK size, words, links \in Nat :
          /\ size = Len(c.stack) /\ words = Len(c.buffer) /\ links = Len(c.deps)
          /\ size >= 1 /\ words <= n /\ links + size + words = n + 1
          /\ c.stack \in Seq(Int) /\ c.buffer \in Seq(Nat) /\ c.deps \in Seq(Nat \X Nat)
          /\ \A j \in 1 .. links : c.deps[j] \in Nat \X Nat
          /\ \A i \in 1 .. size : c.stack[i] \in Int
    BY SoundTypes
  <1>n. size >= 1 /\ words <= n /\ links + size + words = n + 1
    BY <1>1
  <1>s. /\ c.stack \in Seq(Int) /\ c.buffer \in Seq(Nat) /\ c.deps \in Seq(Nat \X Nat)
        /\ size = Len(c.stack) /\ words = Len(c.buffer) /\ links = Len(c.deps)
    BY <1>1
  <1>2. /\ e = [stack |-> Append(c.stack, Head(c.buffer)), buffer |-> Tail(c.buffer), deps |-> c.deps]
        /\ e.stack = Append(c.stack, Head(c.buffer))
        /\ e.buffer = Tail(c.buffer) /\ e.deps = c.deps
    BY DEF ParseStep
  <1>3. words >= 1
    BY <1>1, EmptySeq
  <1>4. PICK m \in Nat : m = n - words
    BY <1>n
  <1>5. PICK rest \in Seq(Nat) :
          /\ rest = Tail(c.buffer) /\ Len(rest) = words - 1
          /\ \A i \in 1 .. words - 1 : rest[i] = c.buffer[i + 1]
    <2>1. PICK rest \in Seq(Nat) :
            /\ rest = Tail(c.buffer) /\ Len(rest) = Len(c.buffer) - 1
            /\ \A i \in 1 .. Len(rest) : rest[i] = c.buffer[i + 1]
      BY <1>s, HeadTailProperties
    <2>2. Len(rest) = words - 1
      BY <1>s, <2>1
    <2> QED  BY <2>1, <2>2
  <1>6. \A i \in 1 .. words : c.buffer[i] = m + i
    <2>1. \A i \in 1 .. words : c.buffer[i] = n - words + i
      BY <1>s DEF Sound
    <2> QED  BY <1>4, <2>1
  <1>7. PICK w \in Nat : w = Head(c.buffer) /\ w = m + 1
    <2>1. 1 \in 1 .. words
      BY <1>3
    <2>2. c.buffer[1] = m + 1
      BY <1>6, <2>1
    <2>3. Head(c.buffer) = c.buffer[1]
      BY <1>s, <1>3
    <2> QED  BY <2>2, <2>3
  <1>8. PICK t \in Seq(Int) :
          /\ t = Append(c.stack, w) /\ Len(t) = size + 1
          /\ \A i \in 1 .. size : t[i] = c.stack[i]
          /\ t[size + 1] = m + 1
    <2>1. PICK t : t = Append(c.stack, w)
      OBVIOUS
    <2>2. w \in Int
      BY <1>7
    <2>3. /\ t \in Seq(Int) /\ Len(t) = Len(c.stack) + 1
          /\ \A i \in 1 .. Len(c.stack) : t[i] = c.stack[i]
          /\ t[Len(c.stack) + 1] = w
      BY <1>s, <2>1, <2>2, AppendProperties
    <2>4. Len(t) = size + 1 /\ t[size + 1] = m + 1
      BY <1>s, <1>7, <2>3
    <2> QED  BY <1>s, <2>1, <2>3, <2>4
  <1>9. e.stack = t /\ e.buffer = rest /\ e.deps = c.deps
    BY <1>2, <1>5, <1>7, <1>8
  <1>10. t[1] = Root /\ StackSound(t, m + 1) /\ ArcsSound(t, c.deps, m + 1)
    <2>1. StackSound(c.stack, m) /\ ArcsSound(c.stack, c.deps, m)
      BY <1>1, <1>4 DEF Sound
    <2>2. \A j \in 1 .. Len(c.deps) : c.deps[j][1] \in Nat /\ c.deps[j][2] \in Nat
      BY <1>1
    <2>3. size = Len(c.stack)
      BY <1>s
    <2>4. PICK s, d : s = c.stack /\ d = c.deps
      OBVIOUS
    <2>5. StackSound(s, m) /\ ArcsSound(s, d, m) /\ s[1] = Root /\ size = Len(s)
      BY <2>1, <2>3, <2>4
    <2>6. \A j \in 1 .. Len(d) : d[j][1] \in Nat /\ d[j][2] \in Nat
      BY <2>2, <2>4
    <2>7. /\ Len(t) = size + 1 /\ t[size + 1] = m + 1
          /\ \A i \in 1 .. size : t[i] = s[i]
      BY <1>8, <2>4
    <2>8. t[1] = Root /\ StackSound(t, m + 1) /\ ArcsSound(t, d, m + 1)
      BY <2>5, <2>6, <2>7, WordShifted
    <2> QED  BY <2>4, <2>8
  <1>11. e \in Configuration
    BY <1>1, <1>2, <1>5, <1>7, <1>8 DEF Configuration
  <1>12. ASSUME NEW i \in 1 .. words - 1
         PROVE  rest[i] = n - (words - 1) + i
    <2>1. i + 1 \in 1 .. words /\ n - (words - 1) + i = m + (i + 1)
      BY <1>4, <1>n
    <2> QED  BY <1>5, <1>6, <2>1
  <1>13. n - (words - 1) = m + 1 /\ words - 1 <= n /\ links + (size + 1) + (words - 1) = n + 1
    BY <1>n, <1>4
  <1>14. t[1] # RootString
    BY <1>10 DEF Root, RootString
  <1> QED  BY <1>1, <1>5, <1>8, <1>9, <1>10, <1>11, <1>12, <1>13, <1>14 DEF Sound

LEMMA ArcSound ==
    ASSUME NEW n \in Nat, NEW c, Sound(c, n), c.stack[1] = Root, Len(c.stack) >= 2,
           NEW t \in {"LA", "RA"}, t = "LA" => Len(c.stack) > 2,
           NEW e, e = ParseStep(c, t)
    PROVE  Sound(e, n) /\ e.stack[1] = Root
  <1>1. PICK size, words, links \in Nat :
          /\ size = Len(c.stack) /\ words = Len(c.buffer) /\ links = Len(c.deps)
          /\ size >= 1 /\ words <= n /\ links + size + words = n + 1
          /\ c.stack \in Seq(Int) /\ c.buffer \in Seq(Nat) /\ c.deps \in Seq(Nat \X Nat)
          /\ \A j \in 1 .. links : c.deps[j] \in Nat \X Nat
          /\ \A i \in 1 .. size : c.stack[i] \in Int
    BY SoundTypes
  <1>n. size >= 1 /\ words <= n /\ links + size + words = n + 1
    BY <1>1
  <1>s. /\ c.stack \in Seq(Int) /\ c.buffer \in Seq(Nat) /\ c.deps \in Seq(Nat \X Nat)
        /\ size = Len(c.stack) /\ words = Len(c.buffer) /\ links = Len(c.deps)
    BY <1>1
  <1>2. PICK p \in 2 .. size, q \in 1 .. size :
          /\ p = IF t = "LA" THEN size - 1 ELSE size
          /\ q = IF t = "LA" THEN size ELSE size - 1
    <2>1. CASE t = "LA"
      <3>1. size > 2
        BY <1>s, <2>1
      <3>2. size - 1 \in 2 .. size /\ size \in 1 .. size
        BY <3>1
      <3> QED  BY <2>1, <3>2
    <2>2. CASE t # "LA"
      <3>1. size >= 2
        BY <1>s
      <3>2. size \in 2 .. size /\ size - 1 \in 1 .. size
        BY <3>1
      <3> QED  BY <2>2, <3>2
    <2> QED  BY <2>1, <2>2
  <1>3. PICK s : s = IF t = "LA" THEN DropSecond(c.stack) ELSE DropTop(c.stack)
    OBVIOUS
  <1>4. /\ s \in Seq(Int) /\ Len(s) = size - 1
        /\ \A i \in 1 .. size - 1 : s[i] = IF i < p THEN c.stack[i] ELSE c.stack[i + 1]
    <2>1. CASE t = "LA"
      <3>1. s = DropSecond(c.stack) /\ p = size - 1 /\ size >= 2
        BY <1>2, <1>3, <2>1
      <3> QED  BY <1>s, <3>1, SecondPopped
    <2>2. CASE t # "LA"
      <3>1. s = DropTop(c.stack) /\ p = size /\ size >= 2
        BY <1>2, <1>3, <2>2
      <3>2. /\ s \in Seq(Int) /\ Len(s) = size - 1
            /\ \A i \in 1 .. size - 1 : s[i] = c.stack[i]
        BY <1>s, <3>1, TopPopped
      <3>3. \A i \in 1 .. size - 1 : i < p
        BY <3>1
      <3> QED  BY <3>2, <3>3
    <2> QED  BY <2>1, <2>2
  <1>5. PICK m \in Nat : m = n - words
    BY <1>n
  <1>6. StackSound(c.stack, m) /\ ArcsSound(c.stack, c.deps, m)
    BY <1>1, <1>5 DEF Sound
  <1>7. PICK dep, head \in Nat : dep = c.stack[p] /\ head = c.stack[q]
    <2>1. \A i \in 1 .. size : i = 1 \/ i \in 2 .. size
      OBVIOUS
    <2>2. ASSUME NEW i \in 2 .. size
          PROVE  c.stack[i] \in Nat
      <3>1. c.stack[i] \in 1 .. m
        BY <1>s, <1>6 DEF StackSound
      <3> QED  BY <3>1
    <2>3. c.stack[1] \in Nat
      BY DEF Root
    <2>4. c.stack[p] \in Nat /\ c.stack[q] \in Nat
      BY <2>1, <2>2, <2>3
    <2> QED  BY <2>4
  <1>8. PICK arc \in Nat \X Nat : arc = <<head, dep>>
    BY <1>7
  <1>9. arc[1] = head /\ arc[2] = dep
    BY <1>8
  <1>10. PICK f \in Seq(Nat \X Nat) :
           /\ f = Append(c.deps, arc) /\ Len(f) = links + 1
           /\ \A j \in 1 .. links : f[j] = c.deps[j]
           /\ f[links + 1] = arc
    <2>1. PICK f : f = Append(c.deps, arc)
      OBVIOUS
    <2>2. /\ f \in Seq(Nat \X Nat) /\ Len(f) = Len(c.deps) + 1
          /\ \A j \in 1 .. Len(c.deps) : f[j] = c.deps[j]
          /\ f[Len(c.deps) + 1] = arc
      <3>1. c.deps \in Seq(Nat \X Nat) /\ arc \in Nat \X Nat
        BY <1>s
      <3> QED  BY <2>1, <3>1, AppendProperties
    <2>3. Len(f) = links + 1 /\ f[links + 1] = arc
      BY <1>s, <2>2
    <2> QED  BY <1>s, <2>1, <2>2, <2>3
  <1>11. e = [stack |-> s, buffer |-> c.buffer, deps |-> f]
    <2>1. CASE t = "LA"
      BY <1>1, <1>2, <1>3, <1>7, <1>8, <1>10, <2>1 DEF ParseStep, Top, Second
    <2>2. CASE t = "RA"
      BY <1>1, <1>2, <1>3, <1>7, <1>8, <1>10, <2>2 DEF ParseStep, Top, Second
    <2> QED  BY <2>1, <2>2
  <1>12. e.stack = s /\ e.buffer = c.buffer /\ e.deps = f
    BY <1>11
  <1>13. s[1] = Root /\ StackSound(s, m) /\ ArcsSound(s, f, m)
    <2>1. PICK old, d : old = c.stack /\ d = c.deps
      OBVIOUS
    <2>2. StackSound(old, m) /\ ArcsSound(old, d, m) /\ old[1] = Root
      BY <1>6, <2>1
    <2>3. Attached(old, size, d, links, p, q, s, f)
      <3>1. \/ p = size - 1 /\ q = size
            \/ p = size /\ q = size - 1
        BY <1>2
      <3>2. size = Len(old) /\ links = Len(d) /\ dep = old[p] /\ head = old[q]
        BY <1>s, <1>7, <2>1
      <3>3. /\ Len(f) = links + 1 /\ f[links + 1][1] = head /\ f[links + 1][2] = dep
            /\ \A j \in 1 .. links : f[j] = d[j]
        BY <1>9, <1>10, <2>1
      <3>4. \A i \in 1 .. size - 1 : s[i] = IF i < p THEN old[i] ELSE old[i + 1]
        BY <1>4, <2>1
      <3> QED  BY <1>4, <3>1, <3>2, <3>3, <3>4 DEF Attached
    <2>4. s[1] = Root /\ StackSound(s, m) /\ ArcsSound(s, f, m)
      BY <2>2, <2>3, ArcAdded
    <2> QED  BY <2>4
  <1>14. e \in Configuration
    BY <1>1, <1>4, <1>10, <1>11 DEF Configuration
  <1>15. \A i \in 1 .. words : c.buffer[i] = n - words + i
    BY <1>1 DEF Sound
  <1>16. (links + 1) + (size - 1) + words = n + 1
    BY <1>n
  <1>17. s[1] # RootString
    BY <1>13 DEF Root, RootString
  <1> QED  BY <1>1, <1>4, <1>5, <1>10, <1>12, <1>13, <1>14, <1>15, <1>16, <1>17 DEF Sound

(* parse_step keeps a parse sound when it takes a legal transition. *)
LEMMA StepSound ==
    ASSUME NEW n \in Nat, NEW c, Sound(c, n), c.stack[1] = Root,
           NEW t \in Transitions, t \in LegalLabels(c.stack, c.buffer)
    PROVE  Sound(ParseStep(c, t), n) /\ ParseStep(c, t).stack[1] = Root
  <1>1. Len(c.stack) \in Nat
    BY SoundTypes
  <1>2. CASE t = "S"
    <2>1. c.buffer # <<>>
      BY <1>2 DEF LegalLabels
    <2> QED  BY <1>2, <2>1, ShiftSound
  <1>3. CASE t \in {"LA", "RA"}
    <2>1. Len(c.stack) >= 2 /\ (t = "LA" => Len(c.stack) > 2)
      BY <1>1, <1>3 DEF LegalLabels
    <2> QED  BY <1>3, <2>1, ArcSound
  <1> QED  BY <1>2, <1>3 DEF Transitions

(* The configuration with its stack renumbered, and what it keeps. *)
Relabelled(c) == [c EXCEPT !.stack = Renumbered(@)]

SameTurn(c, e, n) ==
    /\ Sound(e, n)
    /\ e.stack[1] = Root
    /\ Finished(e) <=> Finished(c)
    /\ LegalLabels(e.stack, e.buffer) = LegalLabels(c.stack, c.buffer)

(* predict leaves a parse where it is, with its root renumbered. *)
LEMMA RenumberedSound ==
    ASSUME NEW n \in Nat, NEW c, Sound(c, n),
           NEW e, e = Relabelled(c)
    PROVE  SameTurn(c, e, n)
  <1>1. PICK s, d, words, m :
          s = c.stack /\ d = c.deps /\ words = Len(c.buffer) /\ m = n - words
    OBVIOUS
  <1>2. words \in Nat /\ words <= n
    BY <1>1, SoundTypes
  <1>3. s \in Seq(Int) /\ c \in Configuration
    BY <1>1 DEF Sound, Configuration
  <1>4. /\ StackSound(s, m) /\ ArcsSound(s, d, m)
        /\ s[1] = RootString => Len(s) <= 1 /\ Len(d) <= 0
    BY <1>1 DEF Sound
  <1>5. m \in Nat
    BY <1>1, <1>2
  <1>6. PICK r : r = Renumbered(s)
    OBVIOUS
  <1>7. /\ r \in Seq(Int) /\ Len(r) = Len(s) /\ r[1] = Root
        /\ StackSound(r, m) /\ ArcsSound(r, d, m)
    BY <1>3, <1>4, <1>5, <1>6, RootRenumbered
  <1>8. e.stack = r /\ e.buffer = c.buffer /\ e.deps = c.deps
    BY <1>1, <1>3, <1>6 DEF Configuration, Relabelled
  <1>9. e \in Configuration
    BY <1>1, <1>3, <1>6, <1>7 DEF Configuration, Relabelled
  <1>10. r[1] # RootString
    BY <1>7 DEF Root, RootString
  <1>11. Len(e.stack) = Len(c.stack)
    BY <1>1, <1>7, <1>8
  <1>12. Sound(e, n)
    BY <1>1, <1>7, <1>8, <1>9, <1>10, <1>11 DEF Sound
  <1> QED  BY <1>7, <1>8, <1>11, <1>12 DEF SameTurn, Finished, LegalLabels

(* A parse that is not finished can go on, and one that can go on is not
   finished. *)
LEMMA GoesOn ==
    ASSUME NEW n \in Nat, NEW c, Sound(c, n)
    PROVE  Finished(c) <=> LegalLabels(c.stack, c.buffer) = {}
  <1>1. PICK size \in Nat : size = Len(c.stack) /\ size >= 1
    BY SoundTypes
  <1>n. size >= 1
    BY <1>1
  <1>2. CASE Finished(c)
    BY <1>1, <1>2 DEF Finished, LegalLabels
  <1>3. CASE ~ Finished(c)
    <2>1. CASE c.buffer # <<>>
      <3>1. "S" \in LegalLabels(c.stack, c.buffer)
        BY <2>1 DEF LegalLabels
      <3> QED  BY <1>3, <3>1
    <2>2. CASE c.buffer = <<>>
      <3>1. size # 1
        BY <1>1, <1>3, <2>2 DEF Finished
      <3>2. size >= 2
        BY <1>n, <3>1
      <3>3. "RA" \in LegalLabels(c.stack, c.buffer)
        BY <1>1, <3>2 DEF LegalLabels
      <3> QED  BY <1>3, <3>3
    <2> QED  BY <2>1, <2>2
  <1> QED  BY <1>2, <1>3

LEMMA LegalIsTransition ==
    ASSUME NEW s, NEW b
    PROVE  LegalLabels(s, b) \subseteq Transitions
  BY DEF LegalLabels, Transitions

(* No word has two heads: HeadOf finds the only arc to it. *)
LEMMA HeadFound ==
    ASSUME NEW m, NEW s, NEW d, ArcsSound(s, d, m), NEW j \in 1 .. Len(d), Len(d) \in Nat
    PROVE  HeadOf(d, d[j][2]) = d[j][1]
  <1> DEFINE found == {l \in 1 .. Len(d) : d[l][2] = d[j][2]}
  <1>1. \A l \in 1 .. Len(d) : d[l][2] = d[j][2] => l = j
    BY DEF ArcsSound
  <1>2. found = {j}
    BY <1>1
  <1>3. (CHOOSE k \in found : \A l \in found : l <= k) = j
    BY <1>2
  <1> QED  BY <1>2, <1>3 DEF HeadOf

LEMMA NoHeadFound ==
    ASSUME NEW d, NEW w, ~ \E j \in 1 .. Len(d) : d[j][2] = w
    PROVE  HeadOf(d, w) = NoHead
  BY DEF HeadOf

LEMMA HeadTyped ==
    ASSUME NEW n \in Nat, NEW c, Sound(c, n), NEW w
    PROVE  HeadOf(c.deps, w) \in Int
  <1>1. PICK d, m : d = c.deps /\ m = n - Len(c.buffer)
    OBVIOUS
  <1>2. Len(d) \in Nat
    BY <1>1, SoundTypes
  <1>3. ArcsSound(c.stack, d, m)
    BY <1>1 DEF Sound
  <1>4. \A j \in 1 .. Len(d) : d[j][1] \in Int
    <2>1. \A j \in 1 .. Len(d) : d[j][1] \in 0 .. m
      BY <1>3 DEF ArcsSound
    <2>2. \A x \in 0 .. m : x \in Int
      OBVIOUS
    <2> QED  BY <2>1, <2>2
  <1>5. CASE \E j \in 1 .. Len(d) : d[j][2] = w
    BY <1>1, <1>2, <1>3, <1>4, <1>5, HeadFound
  <1>6. CASE ~ \E j \in 1 .. Len(d) : d[j][2] = w
    BY <1>1, <1>6, NoHeadFound DEF NoHead
  <1> QED  BY <1>5, <1>6

-----------------------------------------------------------------------------
(* The steps *)

LEMMA Counting ==
    ASSUME NEW n \in Nat, NEW f, f = [k \in 1 .. n |-> k]
    PROVE  f \in Seq(1 .. n) /\ Len(f) = n /\ \A k \in 1 .. n : f[k] = k
  <1>1. f \in [1 .. n -> 1 .. n]
    OBVIOUS
  <1>2. f \in Seq(1 .. n) /\ Len(f) = n
    BY <1>1, IsASeq, LenProperties
  <1> QED  BY <1>2

LEMMA MPInitInv == MPInit => MPInv
  <1> SUFFICES ASSUME MPInit PROVE MPInv
    OBVIOUS
  <1>1. /\ sentences = <<>> /\ batchSize = 1 /\ parse = <<>> /\ unfinished = <<>>
        /\ batch = <<>> /\ transitions = <<>> /\ turn = 1 /\ heads = <<>>
    BY DEF MPInit
  <1>2. MPTypeOK
    BY <1>1 DEF MPTypeOK
  <1>3. ParsesSound /\ QueueIsExact /\ BatchIsDistinct /\ StepIsLegal
    BY <1>1 DEF ParsesSound, QueueIsExact, BatchIsDistinct, StepIsLegal
  <1> QED  BY <1>1, <1>2, <1>3 DEF MPInv, Phases

(* Every sentence starts as a new parse and as an entry of the list. *)
LEMMA StartInv == ASSUME MPInv, Start PROVE MPInv'
  <1>1. PICK lengths \in Datasets, size \in BatchSizes :
          /\ sentences' = lengths /\ batchSize' = size
          /\ parse' = [k \in 1 .. Len(lengths) |-> NewParse(lengths[k])]
          /\ unfinished' = [k \in 1 .. Len(lengths) |-> k]
    BY DEF Start
  <1>2. lengths \in Seq(Nat \ {0}) /\ size \in Nat \ {0}
    BY DatasetsAssumption
  <1>3. /\ sentences = <<>> /\ batch' = batch /\ transitions' = transitions
        /\ turn' = turn /\ heads' = heads
    BY DEF Start
  <1>4. batch = <<>> /\ heads = <<>>
    BY <1>3 DEF MPInv, Phases
  <1>5. PICK n \in Nat : n = Len(lengths)
    BY <1>2, LenProperties
  <1>6. \A k \in 1 .. n : lengths[k] \in Nat \ {0}
    BY <1>2, <1>5, ElementOfSeq
  <1>7. \A k \in 1 .. n : parse'[k] = NewParse(lengths[k])
    BY <1>1, <1>5
  <1>8. ASSUME NEW k \in 1 .. n
        PROVE  Sound(parse'[k], lengths[k]) /\ ~ Finished(parse'[k])
    BY <1>6, <1>7, NewParseSound
  <1>9. /\ parse' \in [1 .. n -> Configuration] /\ DOMAIN parse' = 1 .. n
    <2>1. \A k \in 1 .. n : NewParse(lengths[k]) \in Configuration
      BY <1>7, <1>8 DEF Sound
    <2> QED  BY <1>1, <1>5, <2>1
  <1>10. parse' \in Seq(Configuration) /\ Len(parse') = n
    BY <1>9, IsASeq, LenProperties
  <1>11. /\ unfinished' \in Seq(1 .. n) /\ Len(unfinished') = n
         /\ \A k \in 1 .. n : unfinished'[k] = k
    BY <1>1, <1>5, Counting
  <1>12. MPTypeOK'
    <2>1. batch' \in Seq(1 .. n) /\ heads' \in Seq(Seq(Int))
      BY <1>3, <1>4
    <2>2. transitions' \in Seq(Transitions) /\ turn' \in Nat \ {0}
      BY <1>3 DEF MPInv, MPTypeOK
    <2> QED
      BY <1>1, <1>2, <1>5, <1>9, <1>10, <1>11, <2>1, <2>2 DEF MPTypeOK
  <1>13. ParsesSound'
    BY <1>1, <1>5, <1>8 DEF ParsesSound
  <1>14. QueueIsExact'
    BY <1>1, <1>5, <1>8, <1>11 DEF QueueIsExact
  <1>15. Len(batch') = 0 /\ turn' \in Nat \ {0}
    BY <1>3, <1>4, <1>12 DEF MPTypeOK
  <1>16. BatchIsDistinct'
    <2>1. Len(transitions) = 0
      BY <1>4 DEF MPInv, BatchIsDistinct
    <2> QED  BY <1>3, <1>15, <2>1 DEF BatchIsDistinct
  <1>17. StepIsLegal'
    BY <1>15 DEF StepIsLegal
  <1>18. Phases'
    BY <1>3, <1>4 DEF Phases
  <1> QED  BY <1>12, <1>13, <1>14, <1>16, <1>17, <1>18 DEF MPInv

(* The invariant rests on nothing but these variables. *)
LEMMA MPStutter == MPInv /\ UNCHANGED mpVars => MPInv'
  BY DEF MPInv, mpVars, MPTypeOK, ParsesSound, QueueIsExact, BatchIsDistinct,
         StepIsLegal, Phases, Applying

(* A stretch of the list becomes the batch; each of its parses is renumbered
   and gets a transition that is legal for it, since it is not finished. *)
LEMMA PredictInv == ASSUME MPInv, Predict PROVE MPInv'
  <1>t. MPTypeOK /\ ParsesSound /\ QueueIsExact
    BY DEF MPInv
  <1>1. PICK n \in Nat : n = Len(sentences)
    BY <1>t, LenProperties DEF MPTypeOK
  <1>2. /\ parse \in Seq(Configuration) /\ Len(parse) = n /\ DOMAIN parse = 1 .. n
        /\ unfinished \in Seq(1 .. n) /\ unfinished # <<>>
        /\ \A k \in 1 .. n : parse[k] \in Configuration /\ sentences[k] \in Nat \ {0}
    BY <1>t, <1>1, LenProperties, ElementOfSeq DEF MPTypeOK, Predict
  <1>3. PICK listed \in Nat : listed = Len(unfinished) /\ listed >= 1
    BY <1>2, LenProperties, EmptySeq
  <1>l. listed >= 1
    BY <1>3
  <1>4. PICK size \in 1 .. listed :
          size = IF batchSize < Len(unfinished) THEN batchSize ELSE Len(unfinished)
    <2>1. batchSize \in Nat \ {0}
      BY <1>t DEF MPTypeOK
    <2>2. PICK size : size = IF batchSize < listed THEN batchSize ELSE listed
      OBVIOUS
    <2>3. size \in 1 .. listed
      BY <1>l, <2>1, <2>2
    <2> QED  BY <1>3, <2>2, <2>3
  <1>5. /\ batch' = SubSeq(unfinished, 1, size)
        /\ transitions' \in [1 .. Len(batch') -> Transitions]
        /\ Predicted(batch', transitions')
        /\ parse' = [k \in DOMAIN parse |->
                      IF \E m \in 1 .. Len(batch') : batch'[m] = k
                      THEN [parse[k] EXCEPT !.stack = Renumbered(@)]
                      ELSE parse[k]]
        /\ turn' = 1
        /\ sentences' = sentences /\ batchSize' = batchSize
        /\ unfinished' = unfinished /\ heads' = heads
    BY <1>4 DEF Predict
  <1>6. /\ batch' \in Seq(1 .. n) /\ Len(batch') = size
        /\ \A a \in 1 .. size : batch'[a] = unfinished[a] /\ a \in 1 .. listed
    <2>1. \A a \in 1 .. size : unfinished[a] \in 1 .. n /\ a \in 1 .. listed
      BY <1>2, <1>3, ElementOfSeq
    <2> QED  BY <1>5, <2>1, SubSeqProperties
  <1>7. \A a \in 1 .. size : batch'[a] \in 1 .. n
    BY <1>6, ElementOfSeq
  <1>8. \A k \in 1 .. n :
          parse'[k] = IF \E a \in 1 .. size : batch'[a] = k
                      THEN [parse[k] EXCEPT !.stack = Renumbered(@)] ELSE parse[k]
    BY <1>2, <1>5, <1>6
  <1>9. \A k \in 1 .. n : Sound(parse[k], sentences[k])
    BY <1>t, <1>1 DEF ParsesSound
  <1>10. ASSUME NEW k \in 1 .. n
         PROVE  /\ Sound(parse'[k], sentences[k])
                /\ Finished(parse'[k]) <=> Finished(parse[k])
                /\ LegalLabels(parse'[k].stack, parse'[k].buffer)
                      = LegalLabels(parse[k].stack, parse[k].buffer)
    <2>1. CASE \E a \in 1 .. size : batch'[a] = k
      <3>1. PICK c, e : c = parse[k] /\ e = parse'[k]
        OBVIOUS
      <3>2. e = Relabelled(c)
        BY <1>8, <2>1, <3>1 DEF Relabelled
      <3>3. sentences[k] \in Nat /\ Sound(c, sentences[k])
        BY <1>2, <1>9, <3>1
      <3>4. /\ Sound(e, sentences[k])
            /\ Finished(e) <=> Finished(c)
            /\ LegalLabels(e.stack, e.buffer) = LegalLabels(c.stack, c.buffer)
        <4>1. SameTurn(c, e, sentences[k])
          BY <3>2, <3>3, RenumberedSound
        <4> QED  BY <4>1 DEF SameTurn
      <3> QED  BY <3>1, <3>4
    <2>2. CASE ~ \E a \in 1 .. size : batch'[a] = k
      <3>1. parse'[k] = parse[k]
        BY <1>8, <2>2
      <3> QED  BY <1>9, <3>1
    <2> QED  BY <2>1, <2>2
  <1>11. ASSUME NEW a \in 1 .. size
         PROVE  parse'[batch'[a]].stack[1] = Root
    <2>1. PICK k \in 1 .. n : k = batch'[a]
      BY <1>7
    <2>2. PICK c, e : c = parse[k] /\ e = parse'[k]
      OBVIOUS
    <2>3. e = Relabelled(c)
      BY <1>8, <2>1, <2>2 DEF Relabelled
    <2>4. sentences[k] \in Nat /\ Sound(c, sentences[k])
      BY <1>2, <1>9, <2>2
    <2>5. e.stack[1] = Root
      BY <2>3, <2>4, RenumberedSound DEF SameTurn
    <2> QED  BY <2>1, <2>2, <2>5
  <1>12. ASSUME NEW a \in 1 .. size
         PROVE  transitions'[a] \in LegalLabels(parse[batch'[a]].stack, parse[batch'[a]].buffer)
    <2>1. PICK k \in 1 .. n : k = batch'[a]
      BY <1>7
    <2>2. ~ Finished(parse[k])
      BY <1>t, <1>1, <1>3, <1>6, <2>1 DEF QueueIsExact
    <2>3. LegalLabels(parse[k].stack, parse[k].buffer) # {}
      BY <1>2, <1>9, <2>2, GoesOn
    <2>4. transitions'[a] \in Predictable(parse[k])
      BY <1>5, <1>6, <2>1 DEF Predicted
    <2> QED  BY <2>1, <2>3, <2>4 DEF Predictable
  <1>13. /\ parse' \in [1 .. n -> Configuration] /\ DOMAIN parse' = 1 .. n
    <2>1. \A k \in 1 .. n : parse'[k] \in Configuration
      BY <1>10 DEF Sound
    <2>2. DOMAIN parse' = 1 .. n /\ parse' = [k \in 1 .. n |-> parse'[k]]
      BY <1>2, <1>5
    <2> QED  BY <2>1, <2>2
  <1>14. parse' \in Seq(Configuration) /\ Len(parse') = n
    BY <1>13, IsASeq, LenProperties
  <1>15. transitions' \in Seq(Transitions) /\ Len(transitions') = size
    BY <1>5, <1>6, IsASeq, LenProperties
  <1>16. MPTypeOK'
    <2>1. /\ sentences' \in Seq(Nat \ {0}) /\ batchSize' \in Nat \ {0}
          /\ heads' \in Seq(Seq(Int)) /\ turn' \in Nat \ {0}
      BY <1>t, <1>5 DEF MPTypeOK
    <2>2. Len(parse') = Len(sentences')
      BY <1>1, <1>5, <1>14
    <2>3. unfinished' \in Seq(DOMAIN parse') /\ batch' \in Seq(DOMAIN parse')
      BY <1>2, <1>5, <1>6, <1>13
    <2> QED  BY <1>14, <1>15, <2>1, <2>2, <2>3 DEF MPTypeOK
  <1>17. ParsesSound'
    BY <1>1, <1>5, <1>10 DEF ParsesSound
  <1>18. QueueIsExact'
    <2>1. \A a, b \in 1 .. listed : unfinished[a] = unfinished[b] => a = b
      BY <1>t, <1>3 DEF QueueIsExact
    <2>2. \A k \in 1 .. n : Finished(parse[k]) <=> ~ \E a \in 1 .. listed : unfinished[a] = k
      BY <1>t, <1>1, <1>3 DEF QueueIsExact
    <2>3. \A k \in 1 .. n : Finished(parse'[k]) <=> ~ \E a \in 1 .. listed : unfinished[a] = k
      BY <1>10, <2>2
    <2>4. Len(unfinished') = listed /\ Len(sentences') = n
      BY <1>1, <1>3, <1>5
    <2>5. \A k \in 1 .. n : Finished(parse'[k]) <=> ~ \E a \in 1 .. listed : unfinished'[a] = k
      BY <1>5, <2>3
    <2>6. \A a, b \in 1 .. listed : unfinished'[a] = unfinished'[b] => a = b
      BY <1>5, <2>1
    <2> QED  BY <2>4, <2>5, <2>6 DEF QueueIsExact
  <1>19. BatchIsDistinct'
    <2>1. \A a, b \in 1 .. size : batch'[a] = batch'[b] => a = b
      BY <1>t, <1>3, <1>6 DEF QueueIsExact
    <2>2. \A a \in turn' .. Len(batch') : parse'[batch'[a]].stack[1] = Root
      BY <1>5, <1>6, <1>11
    <2> QED  BY <1>6, <1>15, <2>1, <2>2 DEF BatchIsDistinct
  <1>20. StepIsLegal'
    BY <1>5, <1>6, <1>7, <1>10, <1>12 DEF StepIsLegal
  <1>21. Phases'
    <2>1. heads = <<>>
      BY <1>2 DEF MPInv, Phases
    <2>2. sentences # <<>>
      BY <1>1, <1>2, <1>3, <1>l, ElementOfSeq
    <2> QED  BY <1>5, <2>1, <2>2 DEF Phases
  <1> QED  BY <1>16, <1>17, <1>18, <1>19, <1>20, <1>21 DEF MPInv

(* One parse of the batch moves.  The predictions for the later ones are not
   spoilt, for those are other objects; a parse that this step finishes, and
   no other, leaves the list. *)
LEMMA ApplyInv == ASSUME MPInv, Apply PROVE MPInv'
  <1>t. MPTypeOK /\ ParsesSound /\ QueueIsExact /\ BatchIsDistinct /\ StepIsLegal /\ Phases
    BY DEF MPInv
  <1>1. PICK n, listed, size \in Nat :
          n = Len(sentences) /\ listed = Len(unfinished) /\ size = Len(batch)
    BY <1>t, LenProperties DEF MPTypeOK
  <1>2. /\ parse \in Seq(Configuration) /\ Len(parse) = n /\ DOMAIN parse = 1 .. n
        /\ unfinished \in Seq(1 .. n) /\ batch \in Seq(1 .. n)
        /\ \A k \in 1 .. n : parse[k] \in Configuration /\ sentences[k] \in Nat \ {0}
        /\ \A a \in 1 .. size : batch[a] \in 1 .. n
    BY <1>t, <1>1, LenProperties, ElementOfSeq DEF MPTypeOK
  <1>3. turn \in 1 .. size
    <2>1. turn \in Nat \ {0}
      BY <1>t DEF MPTypeOK
    <2>2. turn <= size
      BY <1>1 DEF Apply, Applying
    <2> QED  BY <2>1, <2>2
  <1>4. PICK k \in 1 .. n : k = batch[turn]
    BY <1>2, <1>3
  <1>5. PICK c, next : c = parse[k] /\ next = ParseStep(c, transitions[turn])
    OBVIOUS
  <1>6. /\ parse' = [parse EXCEPT ![k] = next]
        /\ unfinished' = IF Finished(next) THEN RemoveFirst(unfinished, k) ELSE unfinished
        /\ turn' = turn + 1
        /\ sentences' = sentences /\ batchSize' = batchSize /\ batch' = batch
        /\ transitions' = transitions /\ heads' = heads
    BY <1>4, <1>5 DEF Apply
  <1>7. \A j \in 1 .. n : parse'[j] = IF j = k THEN next ELSE parse[j]
    BY <1>2, <1>6
  <1>8. /\ Sound(c, sentences[k]) /\ c.stack[1] = Root
        /\ transitions[turn] \in LegalLabels(c.stack, c.buffer)
    <2>1. turn \in turn .. Len(batch)
      BY <1>1, <1>3
    <2> QED  BY <1>t, <1>1, <1>4, <1>5, <2>1 DEF ParsesSound, BatchIsDistinct, StepIsLegal
  <1>9. Sound(next, sentences[k]) /\ next.stack[1] = Root
    <2>1. PICK t \in Transitions : t = transitions[turn]
      BY <1>8, LegalIsTransition
    <2> QED  BY <1>2, <1>5, <1>8, <2>1, StepSound
  <1>10. \A j \in 1 .. n : Sound(parse'[j], sentences[j])
    BY <1>t, <1>1, <1>7, <1>9 DEF ParsesSound
  <1>11. PICK i \in 1 .. listed : unfinished[i] = k
    <2>1. ~ Finished(c)
      BY <1>2, <1>8, GoesOn
    <2> QED  BY <1>t, <1>1, <1>5, <2>1 DEF QueueIsExact
  <1>12. /\ unfinished' \in Seq(1 .. n)
         /\ \A a, b \in 1 .. Len(unfinished') : unfinished'[a] = unfinished'[b] => a = b
         /\ \A j \in 1 .. n : (\E a \in 1 .. Len(unfinished') : unfinished'[a] = j)
               <=> /\ j = k => ~ Finished(next)
                   /\ \E a \in 1 .. listed : unfinished[a] = j
    <2>1. \A a, b \in 1 .. Len(unfinished) : unfinished[a] = unfinished[b] => a = b
      BY <1>t DEF QueueIsExact
    <2>2. CASE Finished(next)
      <3>1. PICK r : r = RemoveFirst(unfinished, unfinished[i])
        OBVIOUS
      <3>2. /\ r \in Seq(1 .. n)
            /\ \A a, b \in 1 .. Len(r) : r[a] = r[b] => a = b
            /\ \A x : (\E a \in 1 .. Len(r) : r[a] = x)
                         <=> x # k /\ \E a \in 1 .. Len(unfinished) : unfinished[a] = x
        <4>1. unfinished \in Seq(1 .. n) /\ i \in 1 .. Len(unfinished)
          BY <1>1, <1>2
        <4>2. Distinct(unfinished)
          BY <2>1 DEF Distinct
        <4>3. r \in Seq(1 .. n) /\ Distinct(r) /\ Without(r, unfinished, unfinished[i])
          BY <3>1, <4>1, <4>2, Removed
        <4> QED  BY <1>11, <4>3 DEF Distinct, Without
      <3>3. unfinished' = r
        BY <1>6, <1>11, <2>2, <3>1
      <3> QED  BY <1>1, <2>2, <3>2, <3>3
    <2>3. CASE ~ Finished(next)
      <3>1. unfinished' = unfinished
        BY <1>6, <2>3
      <3> QED  BY <1>1, <1>2, <2>1, <2>3, <3>1
    <2> QED  BY <2>2, <2>3
  <1>13. parse' \in [1 .. n -> Configuration] /\ DOMAIN parse' = 1 .. n
    <2>1. next \in Configuration
      BY <1>9 DEF Sound
    <2>2. parse \in [1 .. n -> Configuration]
      BY <1>2, LenProperties
    <2> QED  BY <1>6, <2>1, <2>2
  <1>14. parse' \in Seq(Configuration) /\ Len(parse') = n
    BY <1>13, IsASeq, LenProperties
  <1>15. MPTypeOK'
    <2>1. /\ sentences' \in Seq(Nat \ {0}) /\ batchSize' \in Nat \ {0}
          /\ heads' \in Seq(Seq(Int)) /\ transitions' \in Seq(Transitions)
          /\ turn' \in Nat \ {0}
      BY <1>t, <1>6 DEF MPTypeOK
    <2>2. Len(parse') = Len(sentences')
      BY <1>1, <1>6, <1>14
    <2>3. unfinished' \in Seq(DOMAIN parse') /\ batch' \in Seq(DOMAIN parse')
      BY <1>2, <1>6, <1>12, <1>13
    <2> QED  BY <1>14, <2>1, <2>2, <2>3 DEF MPTypeOK
  <1>16. ParsesSound'
    BY <1>1, <1>6, <1>10 DEF ParsesSound
  <1>17. QueueIsExact'
    <2>1. ASSUME NEW j \in 1 .. n
          PROVE  Finished(parse'[j]) <=> ~ \E a \in 1 .. Len(unfinished') : unfinished'[a] = j
      <3>1. CASE j = k
        <4>1. \E a \in 1 .. listed : unfinished[a] = k
          BY <1>11
        <4> QED  BY <1>7, <1>12, <3>1, <4>1 DEF Finished
      <3>2. CASE j # k
        <4>1. parse'[j] = parse[j]
          BY <1>7, <3>2
        <4>2. Finished(parse[j]) <=> ~ \E a \in 1 .. listed : unfinished[a] = j
          BY <1>t, <1>1 DEF QueueIsExact
        <4> QED  BY <1>12, <3>2, <4>1, <4>2 DEF Finished
      <3> QED  BY <3>1, <3>2
    <2>2. Len(sentences') = n
      BY <1>1, <1>6
    <2> QED  BY <1>12, <2>1, <2>2 DEF QueueIsExact
  <1>18. ASSUME NEW m \in turn + 1 .. size
         PROVE  m \in turn .. Len(batch) /\ parse'[batch[m]] = parse[batch[m]]
    <2>1. m \in 1 .. size /\ m \in turn .. size /\ m # turn
      BY <1>3
    <2>2. batch[m] # k
      BY <1>t, <1>1, <1>3, <1>4, <2>1 DEF BatchIsDistinct
    <2> QED  BY <1>1, <1>2, <1>7, <2>1, <2>2
  <1>19. BatchIsDistinct'
    <2>1. \A m \in turn' .. Len(batch') : parse'[batch'[m]].stack[1] = Root
      BY <1>t, <1>1, <1>6, <1>18 DEF BatchIsDistinct
    <2>2. /\ \A a, b \in 1 .. Len(batch') : batch'[a] = batch'[b] => a = b
          /\ Len(transitions') = Len(batch')
      BY <1>t, <1>6 DEF BatchIsDistinct
    <2> QED  BY <2>1, <2>2 DEF BatchIsDistinct
  <1>20. StepIsLegal'
    BY <1>t, <1>1, <1>6, <1>18 DEF StepIsLegal
  <1>21. Phases'
    <2>1. heads = <<>>
      BY <1>t DEF Phases, Apply
    <2>2. sentences # <<>>
      BY <1>t, <1>1, <1>3 DEF Phases
    <2> QED  BY <1>6, <2>1, <2>2 DEF Phases
  <1> QED  BY <1>15, <1>16, <1>17, <1>19, <1>20, <1>21 DEF MPInv

(* The answers are read off when every parse is finished. *)
LEMMA ScoreInv == ASSUME MPInv, Score PROVE MPInv'
  <1>t. MPTypeOK /\ ParsesSound
    BY DEF MPInv
  <1>1. /\ heads' = [k \in DOMAIN parse |->
                       [w \in 1 .. sentences[k] |-> HeadOf(parse[k].deps, w)]]
        /\ sentences' = sentences /\ batchSize' = batchSize /\ parse' = parse
        /\ unfinished' = unfinished /\ batch' = batch
        /\ transitions' = transitions /\ turn' = turn
        /\ sentences # <<>> /\ unfinished = <<>> /\ ~ Applying
    BY DEF Score
  <1>2. PICK n \in Nat : n = Len(sentences)
    BY <1>t, LenProperties DEF MPTypeOK
  <1>3. DOMAIN parse = 1 .. n /\ \A k \in 1 .. n : sentences[k] \in Nat
    BY <1>t, <1>2, LenProperties, ElementOfSeq DEF MPTypeOK
  <1>4. ASSUME NEW k \in 1 .. n
        PROVE  [w \in 1 .. sentences[k] |-> HeadOf(parse[k].deps, w)] \in Seq(Int)
    <2>1. Sound(parse[k], sentences[k])
      BY <1>t, <1>2 DEF ParsesSound
    <2>2. \A w : HeadOf(parse[k].deps, w) \in Int
      BY <1>3, <2>1, HeadTyped
    <2>3. [w \in 1 .. sentences[k] |-> HeadOf(parse[k].deps, w)] \in [1 .. sentences[k] -> Int]
      BY <2>2
    <2> QED  BY <1>3, <2>3, IsASeq
  <1>5. heads' \in [1 .. n -> Seq(Int)]
    BY <1>1, <1>3, <1>4
  <1>6. heads' \in Seq(Seq(Int))
    BY <1>5, IsASeq
  <1>7. MPTypeOK'
    BY <1>t, <1>1, <1>6 DEF MPTypeOK
  <1>8. ParsesSound' /\ QueueIsExact' /\ BatchIsDistinct' /\ StepIsLegal'
    BY <1>1 DEF MPInv, ParsesSound, QueueIsExact, BatchIsDistinct, StepIsLegal
  <1>9. Phases'
    BY <1>1 DEF Phases, Applying
  <1> QED  BY <1>7, <1>8, <1>9 DEF MPInv

-----------------------------------------------------------------------------
(* The answers *)

(* In a finished parse every word has its arc. *)
LEMMA FinishedIsComplete ==
    ASSUME NEW n \in Nat \ {0}, NEW c, Sound(c, n), Finished(c)
    PROVE  /\ Len(c.deps) = n
           /\ ArcsSound(c.stack, c.deps, n)
           /\ \A w \in 1 .. n : \E j \in 1 .. n : c.deps[j][2] = w
  <1>1. PICK size, words, links \in Nat :
          /\ size = Len(c.stack) /\ words = Len(c.buffer) /\ links = Len(c.deps)
          /\ size >= 1 /\ words <= n /\ links + size + words = n + 1
    <2>1. n \in Nat /\ Sound(c, n)
      OBVIOUS
    <2> QED  BY <2>1, SoundCounts
  <1>2. size = 1 /\ words = 0
    BY <1>1 DEF Finished
  <1>3. links + size + words = n + 1
    BY <1>1
  <1>4. links = n
    BY <1>2, <1>3
  <1>5. n - words = n
    BY <1>2
  <1>6. StackSound(c.stack, n) /\ ArcsSound(c.stack, c.deps, n)
    BY <1>1, <1>5 DEF Sound
  <1>7. ASSUME NEW w \in 1 .. n
        PROVE  \E j \in 1 .. n : c.deps[j][2] = w
    <2>1. \A i \in 1 .. Len(c.stack) : i = 1
      BY <1>1, <1>2
    <2>2. c.stack[1] # w
      BY <1>6 DEF StackSound, Root, RootString
    <2> QED  BY <1>1, <1>4, <1>6, <2>1, <2>2 DEF ArcsSound
  <1> QED  BY <1>1, <1>4, <1>6, <1>7

(* The word of a set that was the last to get its head got it from outside:
   its head was still on the stack then, and all others of the set were not. *)
LEMMA HeadsEscape ==
    ASSUME NEW n \in Nat, NEW d, Len(d) = n,
           NEW s, ArcsSound(s, d, n),
           \A w \in 1 .. n : \E j \in 1 .. n : d[j][2] = w,
           NEW W, W \subseteq 1 .. n, W # {}
    PROVE  \E j \in 1 .. n : d[j][2] \in W /\ d[j][1] \notin W
  <1> DEFINE J == {j \in 1 .. n : d[j][2] \in W}
             T == {n - j : j \in J}
  <1>1. PICK w \in W : w \in 1 .. n
    OBVIOUS
  <1>2. PICK i \in 1 .. n : d[i][2] = w
    BY <1>1
  <1>3. i \in J /\ n - i \in T
    BY <1>1, <1>2
  <1>4. T \subseteq Nat
    <2>1. \A j \in 1 .. n : n - j \in Nat
      OBVIOUS
    <2> QED  BY <2>1
  <1>5. PICK x \in T : \A y \in T : x <= y
    BY <1>3, <1>4, Least
  <1>6. PICK j \in J : x = n - j
    BY <1>5
  <1>7. ASSUME NEW l \in J
        PROVE  l <= j
    <2>1. n - l \in T
      OBVIOUS
    <2>2. n - j <= n - l
      BY <1>5, <1>6, <2>1
    <2>3. l \in Nat /\ j \in Nat
      OBVIOUS
    <2> QED  BY <2>2, <2>3
  <1>8. ASSUME d[j][1] \in W
        PROVE  FALSE
    <2>1. PICK l \in 1 .. n : d[l][2] = d[j][1]
      BY <1>8
    <2>2. l \in J
      BY <1>8, <2>1
    <2>3. l <= j
      BY <1>7, <2>2
    <2>4. j \in 1 .. n
      OBVIOUS
    <2> QED  BY <2>1, <2>3, <2>4 DEF ArcsSound
  <1>9. j \in 1 .. n /\ d[j][2] \in W
    OBVIOUS
  <1> QED  BY <1>8, <1>9

(* The arcs of a finished parse are a projective tree. *)
LEMMA ArcsAreTree ==
    ASSUME NEW n \in Nat \ {0}, NEW c, Sound(c, n), Finished(c),
           NEW tree, Len(tree) = n,
           \A j \in 1 .. n : tree[c.deps[j][2]] = c.deps[j][1]
    PROVE  IsProjective(tree)
  <1>1. PICK d, s : d = c.deps /\ s = c.stack
    OBVIOUS
  <1>2. /\ Len(d) = n /\ ArcsSound(s, d, n)
        /\ \A w \in 1 .. n : \E j \in 1 .. n : d[j][2] = w
    BY <1>1, FinishedIsComplete, SMTT(20)
  <1>3. \A j \in 1 .. n : tree[d[j][2]] = d[j][1]
    BY <1>1
  <1>4. ASSUME NEW w \in 1 .. n
        PROVE  \E j \in 1 .. n : d[j][2] = w /\ d[j][1] = tree[w]
    <2>1. PICK j \in 1 .. n : d[j][2] = w
      BY <1>2
    <2>2. d[j][1] = tree[w]
      BY <1>3, <2>1
    <2> QED  BY <2>1, <2>2
  <1>5. IsTree(tree)
    <2>1. ASSUME NEW W \in SUBSET (1 .. n), W # {}
          PROVE  \E w \in W : tree[w] \notin W
      <3>1. PICK j \in 1 .. n : d[j][2] \in W /\ d[j][1] \notin W
        BY <1>2, <2>1, HeadsEscape
      <3>2. d[j][2] \in W /\ tree[d[j][2]] \notin W
        BY <1>3, <3>1
      <3> QED  BY <3>2
    <2>2. Words(tree) = 1 .. n
      BY DEF Words
    <2>3. ASSUME NEW W \in (SUBSET Words(tree)) \ {{}}
          PROVE  \E w \in W : tree[w] \notin W
      <3>1. W \subseteq Words(tree) /\ W # {}
        OBVIOUS
      <3>2. W \in SUBSET (1 .. n)
        BY <2>2, <3>1
      <3> QED  BY <2>1, <3>1, <3>2
    <2> QED  BY <2>3 DEF IsTree
  <1>6. ASSUME NEW a \in GoldArcs(tree), NEW b \in GoldArcs(tree)
        PROVE  ~ Crossing(a, b)
    <2>1. PICK v \in 1 .. n : a = <<tree[v], v>>
      BY DEF GoldArcs, Words
    <2>2. PICK w \in 1 .. n : b = <<tree[w], w>>
      BY DEF GoldArcs, Words
    <2>3. PICK j \in 1 .. n : d[j][2] = v /\ d[j][1] = tree[v]
      BY <1>4
    <2>4. PICK l \in 1 .. n : d[l][2] = w /\ d[l][1] = tree[w]
      BY <1>4
    <2>5. ~ Crossing(d[j], d[l])
      BY <1>2 DEF ArcsSound
    <2>6. a[1] = d[j][1] /\ a[2] = d[j][2] /\ b[1] = d[l][1] /\ b[2] = d[l][2]
      BY <2>1, <2>2, <2>3, <2>4
    <2> QED  BY <2>5, <2>6 DEF Crossing
  <1> QED  BY <1>5, <1>6 DEF IsProjective

LEMMA FinishedIsTree ==
    ASSUME NEW n \in Nat \ {0}, NEW c, Sound(c, n), Finished(c),
           NEW tree, tree = [w \in 1 .. n |-> HeadOf(c.deps, w)]
    PROVE  /\ Len(tree) = n
           /\ \A w \in 1 .. n : tree[w] \in 0 .. n
           /\ IsProjective(tree)
  <1>1. PICK d, s : d = c.deps /\ s = c.stack
    OBVIOUS
  <1>2. /\ Len(d) = n /\ ArcsSound(s, d, n)
        /\ \A w \in 1 .. n : \E j \in 1 .. n : d[j][2] = w
    <2>1. /\ Len(c.deps) = n /\ ArcsSound(c.stack, c.deps, n)
          /\ \A w \in 1 .. n : \E j \in 1 .. n : c.deps[j][2] = w
      BY FinishedIsComplete, SMTT(20)
    <2> QED  BY <1>1, <2>1
  <1>3. \A j \in 1 .. n : tree[d[j][2]] = d[j][1] /\ d[j][1] \in 0 .. n /\ d[j][2] \in 1 .. n
    <2>1. ASSUME NEW j \in 1 .. n
          PROVE  tree[d[j][2]] = d[j][1] /\ d[j][1] \in 0 .. n /\ d[j][2] \in 1 .. n
      <3>1. HeadOf(d, d[j][2]) = d[j][1]
        <4>1. j \in 1 .. Len(d) /\ Len(d) \in Nat /\ ArcsSound(s, d, n)
          BY <1>2
        <4> QED  BY <4>1, HeadFound
      <3>2. d[j][1] \in 0 .. n /\ d[j][2] \in 1 .. n
        BY <1>2 DEF ArcsSound
      <3> QED  BY <1>1, <3>1, <3>2
    <2> QED  BY <2>1
  <1>4. Len(tree) = n
    <2>1. \A w : HeadOf(c.deps, w) \in Int
      BY HeadTyped
    <2>2. tree \in [1 .. n -> Int]
      BY <2>1
    <2> QED  BY <2>2, IsASeq, LenProperties
  <1>5. ASSUME NEW w \in 1 .. n
        PROVE  tree[w] \in 0 .. n
    <2>1. PICK j \in 1 .. n : d[j][2] = w
      BY <1>2
    <2> QED  BY <1>3, <2>1
  <1>6. \A j \in 1 .. n : tree[c.deps[j][2]] = c.deps[j][1]
    BY <1>1, <1>3
  <1> QED  BY <1>4, <1>5, <1>6, ArcsAreTree

LEMMA AnswersFollow == MPInv => AnswersAreTrees
  <1> SUFFICES ASSUME MPInv, heads # <<>>, NEW k \in 1 .. Len(sentences)
               PROVE  /\ Len(heads[k]) = sentences[k]
                      /\ \A w \in 1 .. sentences[k] : heads[k][w] \in 0 .. sentences[k]
                      /\ Len(parse[k].deps) = sentences[k]
                      /\ IsProjective(heads[k])
    BY DEF AnswersAreTrees
  <1>1. PICK n \in Nat \ {0} : n = sentences[k]
    BY ElementOfSeq DEF MPInv, MPTypeOK
  <1>2. k \in DOMAIN parse
    BY LenProperties DEF MPInv, MPTypeOK
  <1>3. PICK c : c = parse[k]
    OBVIOUS
  <1>4. Sound(c, n) /\ Finished(c)
    <2>1. Len(unfinished) = 0
      BY DEF MPInv, Phases
    <2> QED  BY <1>1, <1>3, <2>1 DEF MPInv, ParsesSound, QueueIsExact
  <1>5. PICK tree : tree = [w \in 1 .. n |-> HeadOf(c.deps, w)]
    OBVIOUS
  <1>6. heads[k] = tree
    BY <1>1, <1>2, <1>3, <1>5 DEF MPInv, Phases
  <1>7. /\ Len(tree) = n /\ IsProjective(tree) /\ Len(c.deps) = n
        /\ \A w \in 1 .. n : tree[w] \in 0 .. n
    <2>1. Len(c.deps) = n
      BY <1>4, FinishedIsComplete
    <2>2. Len(tree) = n /\ IsProjective(tree) /\ \A w \in 1 .. n : tree[w] \in 0 .. n
      BY <1>4, <1>5, FinishedIsTree
    <2> QED  BY <2>1, <2>2
  <1> QED  BY <1>1, <1>3, <1>6, <1>7

LEMMA MPNextInv == MPInv /\ [MPNext]_mpVars => MPInv'
  BY StartInv, PredictInv, ApplyInv, ScoreInv, MPStutter DEF MPNext

-----------------------------------------------------------------------------
(* create_instances: the stack and the buffer of the loop. *)

\* The root stays at the bottom of the stack, and nothing else is the root.
StackShape ==
    /\ stack \in Seq(Nat) /\ Len(stack) >= 1
    /\ stack[1] = Root
    /\ buf \in Seq(Nat)
    /\ step \in Nat
    /\ id \in Nat \ {0}
    /\ examples \in Seq(Seq(Nat))

\* A shift costs the buffer a word that the stack gains, an arc costs the
\* stack a word: each word is worth two turns.
TurnsLeft == Busy => step + 2 * Len(buf) + Len(stack) = 2 * Len(Example) + 1

LoopInv == StackShape /\ TurnsLeft

-----------------------------------------------------------------------------
\* The words of a sentence, in order, are as many as its heads.
LEMMA FullBuffer ==
    ASSUME NEW tree \in Seq(Nat)
    PROVE  LET b == [w \in Words(tree) |-> w]
           IN  b \in Seq(Nat) /\ Len(b) = Len(tree)
<1>1. Len(tree) \in Nat
  BY LenProperties
<1>2. [w \in 1 .. Len(tree) |-> w] \in [1 .. Len(tree) -> Nat]
  BY <1>1
<1>3. \A n \in Nat : \A f \in [1 .. n -> Nat] : f \in Seq(Nat) /\ Len(f) = n
  BY IsASeq, LenProperties
<1> QED
  BY <1>1, <1>2, <1>3 DEF Words

\* Where the oracle answers at all, its answer is legal: two words in sight
\* for an arc, a third for a left arc, since the root is nobody's dependent.
LEMMA OracleIsLegal ==
    ASSUME StackShape, Len(stack) >= 2 \/ buf # <<>>,
           NEW tree, GetOracle(stack, buf, tree) # NoAnswer
    PROVE  /\ GetOracle(stack, buf, tree) \in LegalLabels(stack, buf)
           /\ GetOracle(stack, buf, tree) \in Transitions
<1>1. Len(stack) \in Nat
  BY LenProperties DEF StackShape
<1>2. Len(stack) = 2 => Second(stack) = 0
  BY DEF StackShape, Second, Root
<1> DEFINE gold == GetOracle(stack, buf, tree)
           toLeft == Second(stack) > 0 /\ tree[Second(stack)] = Top(stack)
           toRight == /\ tree[Top(stack)] = Second(stack)
                      /\ ~\E k \in 1 .. Len(buf) : tree[buf[k]] = Top(stack)
<1>3. gold = IF Len(stack) < 2 THEN "S"
             ELSE IF toLeft THEN "LA" ELSE IF toRight THEN "RA"
             ELSE IF buf = <<>> THEN NoAnswer ELSE "S"
  BY DEF GetOracle
<1>4. Len(stack) = 2 => ~toLeft
  BY <1>2
<1> HIDE DEF gold, toLeft, toRight
<1>5. gold \in Transitions
  BY <1>3 DEF gold, Transitions
<1>6. gold \in LegalLabels(stack, buf)
  <2>1. CASE gold = "S"
    BY <1>1, <1>3, <2>1 DEF StackShape, LegalLabels, NoAnswer
  <2>2. CASE gold = "LA"
    BY <1>1, <1>3, <1>4, <2>2, SMTT(20) DEF LegalLabels, NoAnswer
  <2>3. CASE gold = "RA"
    BY <1>1, <1>3, <2>3 DEF LegalLabels, NoAnswer
  <2> QED
    BY <1>5, <2>1, <2>2, <2>3 DEF Transitions
<1> QED
  BY <1>5, <1>6 DEF gold

\* The loop cannot reach the end of both lists in fewer than 2n turns.
LEMMA SomethingLeft ==
    ASSUME LoopInv, InnerLoop
    PROVE  Len(stack) >= 2 \/ buf # <<>>
<1>1. Len(stack) \in Nat /\ Len(buf) \in Nat /\ step \in Nat
  BY LenProperties DEF LoopInv, StackShape
<1>2. step < 2 * Len(Example) /\ step + 2 * Len(buf) + Len(stack) = 2 * Len(Example) + 1
  BY DEF LoopInv, TurnsLeft, InnerLoop
<1>3. buf = <<>> => Len(buf) = 0
  OBVIOUS
<1>4. Len(Example) \in Nat
  BY LenProperties DEF LoopInv, StackShape, InnerLoop, Busy, Example
<1> QED
  BY <1>1, <1>2, <1>3, <1>4

LEMMA AssertionFollows == LoopInv => AssertionHolds
  BY OracleIsLegal, SomethingLeft DEF AssertionHolds, LoopInv, Gold

-----------------------------------------------------------------------------
\* What the three transitions make of the lists.
LEMMA Shifted ==
    ASSUME StackShape, buf # <<>>
    PROVE  LET s == Append(stack, Head(buf)) IN
           /\ s \in Seq(Nat) /\ Len(s) = Len(stack) + 1 /\ s[1] = Root
           /\ Tail(buf) \in Seq(Nat) /\ Len(Tail(buf)) = Len(buf) - 1
  BY HeadTailProperties, AppendProperties, LenProperties DEF StackShape

LEMMA TopDropped ==
    ASSUME StackShape, Len(stack) >= 2
    PROVE  LET s == DropTop(stack) IN
           s \in Seq(Nat) /\ Len(s) = Len(stack) - 1 /\ s[1] = Root
  BY SubSeqProperties, LenProperties, SMTT(20) DEF StackShape, DropTop

LEMMA SecondDropped ==
    ASSUME StackShape, Len(stack) > 2
    PROVE  LET s == DropSecond(stack) IN
           s \in Seq(Nat) /\ Len(s) = Len(stack) - 1 /\ s[1] = Root
<1> DEFINE below == SubSeq(stack, 1, Len(stack) - 2)
<1>1. below \in Seq(Nat) /\ Len(below) = Len(stack) - 2 /\ below[1] = Root
  BY SubSeqProperties, LenProperties DEF StackShape
<1>2. Top(stack) \in Nat
  BY LenProperties, ElementOfSeq DEF StackShape, Top
<1> HIDE DEF below
<1>3. LET s == Append(below, Top(stack)) IN
      s \in Seq(Nat) /\ Len(s) = Len(stack) - 1 /\ s[1] = Root
  BY <1>1, <1>2, AppendProperties, LenProperties DEF StackShape
<1> QED
  BY <1>3 DEF DropSecond, below

\* Lines 979-985: a new sentence has its root on the stack and its words in
\* the buffer, two turns for each.
LEMMA ResetInv ==
    ASSUME LoopInv, NEW k \in Nat \ {0}, Reset(k)
    PROVE  LoopInv'
<1>1. CASE k <= Len(examples)
  <2>1. examples[k] \in Seq(Nat)
    BY <1>1, ElementOfSeq, LenProperties DEF LoopInv, StackShape
  <2>2. /\ buf' \in Seq(Nat) /\ Len(buf') = Len(examples[k])
        /\ examples' = examples /\ id' = k /\ step' = 0 /\ stack' = <<Root>>
    BY <1>1, <2>1, FullBuffer DEF Reset
  <2>3. Len(examples[k]) \in Nat
    BY <2>1, LenProperties
  <2> QED
    BY <2>2, <2>3 DEF LoopInv, StackShape, TurnsLeft, Busy, Example, Root
<1>2. CASE ~(k <= Len(examples))
  BY <1>2 DEF Reset, LoopInv, StackShape, TurnsLeft, Busy, Root
<1> QED
  BY <1>1, <1>2

LEMMA InitInv == Init => LoopInv
<1> SUFFICES ASSUME Init PROVE LoopInv
  OBVIOUS
<1>1. examples \in Seq(Seq(Nat)) /\ Len(examples) \in Nat
  BY CorporaAssumption, LenProperties DEF Init, CIInit, CorporaAssumption
<1>2. CASE examples # <<>>
  <2>1. examples[1] \in Seq(Nat) /\ 1 <= Len(examples)
    BY <1>1, <1>2, ElementOfSeq, EmptySeq
  <2>2. buf \in Seq(Nat) /\ Len(buf) = Len(examples[1])
    BY <1>2, <2>1, FullBuffer DEF Init, CIInit
  <2>3. Len(examples[1]) \in Nat
    BY <2>1, LenProperties
  <2>4. id = 1 /\ step = 0 /\ stack = <<Root>>
    BY DEF Init, CIInit
  <2>5. StackShape
    BY <1>1, <2>2, <2>4 DEF StackShape, Root
  <2>6. TurnsLeft
    BY <2>2, <2>3, <2>4 DEF TurnsLeft, Example
  <2> QED
    BY <2>5, <2>6 DEF LoopInv
<1>3. CASE examples = <<>>
  BY <1>1, <1>3
  DEF Init, CIInit, LoopInv, StackShape, TurnsLeft, Busy, Root
<1> QED
  BY <1>2, <1>3

\* Lines 986-1002: one turn of the inner loop.
LEMMA TurnInv == ASSUME LoopInv, TakeTransition PROVE LoopInv'
<1>1. Len(stack) \in Nat /\ Len(buf) \in Nat /\ step \in Nat
  BY LenProperties DEF LoopInv, StackShape
<1>2. /\ examples' = examples /\ id' = id /\ step' = step + 1
      /\ InnerLoop /\ Gold # NoAnswer
  BY DEF TakeTransition
<1>3. Gold \in LegalLabels(stack, buf)
  BY <1>2, AssertionFollows DEF AssertionHolds
<1>4. Len(Example) \in Nat
  BY <1>2, LenProperties DEF LoopInv, StackShape, InnerLoop, Busy, Example
<1>5. ASSUME stack' \in Seq(Nat), Len(stack') >= 1, stack'[1] = Root,
             buf' \in Seq(Nat),
             2 * Len(buf') + Len(stack') = 2 * Len(buf) + Len(stack) - 1
      PROVE  LoopInv'
  <2>1. StackShape'
    BY <1>1, <1>2, <1>5 DEF LoopInv, StackShape
  <2>2. Example' = Example /\ (Busy' <=> Busy)
    BY <1>2 DEF Example, Busy
  <2>3. Len(stack') \in Nat /\ Len(buf') \in Nat
    BY <1>5, LenProperties
  <2>4. TurnsLeft'
    BY <1>1, <1>2, <1>4, <1>5, <2>2, <2>3, SMTT(20) DEF LoopInv, TurnsLeft
  <2> QED
    BY <2>1, <2>4 DEF LoopInv
<1>6. CASE Gold = "S"
  <2>1. buf # <<>>
    BY <1>3, <1>6 DEF LegalLabels
  <2>2. stack' = Append(stack, Head(buf)) /\ buf' = Tail(buf)
    BY <1>6 DEF TakeTransition
  <2> QED
    BY <1>1, <1>5, <2>1, <2>2, Shifted DEF LoopInv
<1>7. CASE Gold = "LA"
  <2>1. Len(stack) > 2
    BY <1>3, <1>7 DEF LegalLabels
  <2>2. stack' = DropSecond(stack) /\ buf' = buf
    BY <1>7 DEF TakeTransition
  <2>3. stack' \in Seq(Nat) /\ Len(stack') = Len(stack) - 1 /\ stack'[1] = Root
    BY <2>1, <2>2, SecondDropped DEF LoopInv
  <2>4. buf' \in Seq(Nat) /\ Len(buf') = Len(buf)
    BY <2>2 DEF LoopInv, StackShape
  <2> QED
    BY <1>1, <1>5, <2>1, <2>3, <2>4
<1>8. CASE Gold = "RA"
  <2>1. Len(stack) >= 2
    BY <1>3, <1>8 DEF LegalLabels
  <2>2. stack' = DropTop(stack) /\ buf' = buf
    BY <1>8 DEF TakeTransition
  <2>3. stack' \in Seq(Nat) /\ Len(stack') = Len(stack) - 1 /\ stack'[1] = Root
    BY <2>1, <2>2, TopDropped DEF LoopInv
  <2>4. buf' \in Seq(Nat) /\ Len(buf') = Len(buf)
    BY <2>2 DEF LoopInv, StackShape
  <2> QED
    BY <1>1, <1>5, <2>1, <2>3, <2>4
<1> QED
  BY <1>6, <1>7, <1>8 DEF TakeTransition

LEMMA NextInv == LoopInv /\ [Next]_vars => LoopInv'
<1> SUFFICES ASSUME LoopInv, [Next]_vars PROVE LoopInv'
  OBVIOUS
<1>1. CASE Preprocess
  <2>1. id + 1 \in Nat \ {0}
    BY DEF LoopInv, StackShape
  <2> QED
    BY <1>1, <2>1, TurnInv, ResetInv DEF Preprocess, CINext, GiveUp, Keep
<1>2. CASE Train
  BY <1>2 DEF Train, LoopInv, StackShape, TurnsLeft, Busy, Root
<1>3. CASE Evaluate \/ UNCHANGED vars
  BY <1>3 DEF Evaluate, vars, ciVars, LoopInv, StackShape, TurnsLeft, Busy, Example
<1> QED
  BY <1>1, <1>2, <1>3 DEF Next

\* Lines 986-1005: the stack and the buffer last exactly 2n turns.
THEOREM TurnsAreEnough == Spec => []LoopInv
  BY InitInv, NextInv, PTL DEF Spec

\* Line 991: assert legal_labels[gold_t] == 1 never fails.
THEOREM NoAssertionError == Spec => []AssertionHolds
  BY TurnsAreEnough, AssertionFollows, PTL

-----------------------------------------------------------------------------
\* The lists create_instances fills.
Lists ==
    /\ examples \in Corpora \cup {<<>>}
    /\ arcs \in Seq(Nat \X Nat)
    /\ instances \in Seq(Transitions)
    /\ allInstances \in Seq([example : Nat, gold : Transitions])

LEMMA ListsInit == Init => Lists
  BY DEF Init, CIInit, Lists

LEMMA ListsTurn == ASSUME LoopInv, Lists, TakeTransition PROVE Lists'
<1>1. Gold \in LegalLabels(stack, buf) /\ Gold \in Transitions
  BY AssertionFollows, LegalIsTransition DEF AssertionHolds, TakeTransition
<1>2. PICK size \in Nat : size = Len(stack)
  BY LenProperties DEF LoopInv, StackShape
<1>3. \A i \in 1 .. size : stack[i] \in Nat
  BY <1>2, ElementOfSeq DEF LoopInv, StackShape
<1>4. instances' \in Seq(Transitions)
  BY <1>1, AppendProperties DEF Lists, TakeTransition
<1>5. ASSUME NEW arc \in Nat \X Nat, arcs' = Append(arcs, arc)
      PROVE  arcs' \in Seq(Nat \X Nat)
  BY <1>5, AppendProperties DEF Lists
<1>6. Gold # "S" => <<Top(stack), Second(stack)>> \in Nat \X Nat
                    /\ <<Second(stack), Top(stack)>> \in Nat \X Nat
  <2>1. SUFFICES ASSUME Gold # "S" PROVE Top(stack) \in Nat /\ Second(stack) \in Nat
    OBVIOUS
  <2>2. size >= 2
    BY <1>1, <1>2, <2>1 DEF LegalLabels
  <2>3. stack[size] \in Nat /\ stack[size - 1] \in Nat
    BY <1>3, <2>2
  <2> QED
    BY <1>2, <2>3 DEF Top, Second
<1>7. arcs' \in Seq(Nat \X Nat)
  <2>1. CASE Gold = "S"
    BY <2>1 DEF TakeTransition, Lists
  <2>2. CASE Gold = "LA"
    <3>1. arcs' = Append(arcs, <<Top(stack), Second(stack)>>)
      BY <2>2 DEF TakeTransition
    <3> QED
      BY <1>5, <1>6, <2>2, <3>1
  <2>3. CASE Gold = "RA"
    <3>1. arcs' = Append(arcs, <<Second(stack), Top(stack)>>)
      BY <2>3 DEF TakeTransition
    <3> QED
      BY <1>5, <1>6, <2>3, <3>1
  <2> QED
    BY <1>1, <2>1, <2>2, <2>3 DEF Transitions
<1> QED
  BY <1>4, <1>7 DEF TakeTransition, Lists

\* The for loop's else: the recorded transitions join the others.
LEMMA ListsKeep == ASSUME LoopInv, Lists, Keep PROVE Lists'
<1>1. PICK n \in Nat : n = Len(instances)
  BY LenProperties DEF Lists
<1>2. \A k \in 1 .. n : instances[k] \in Transitions
  BY <1>1, ElementOfSeq DEF Lists
<1>3. PICK kept : kept = [k \in 1 .. n |-> [example |-> id, gold |-> instances[k]]]
  OBVIOUS
<1>4. kept \in [1 .. n -> [example : Nat, gold : Transitions]]
  BY <1>2, <1>3 DEF LoopInv, StackShape
<1>5. kept \in Seq([example : Nat, gold : Transitions])
  <2>1. PICK R : R = [example : Nat, gold : Transitions]
    OBVIOUS
  <2>2. kept \in [1 .. n -> R]
    BY <1>4, <2>1
  <2>3. kept \in Seq(R)
    BY <2>2, IsASeq
  <2> QED
    BY <2>1, <2>3
<1>6. allInstances' = allInstances \o kept
  BY <1>1, <1>3 DEF Keep
<1>7. allInstances' \in Seq([example : Nat, gold : Transitions])
  BY <1>5, <1>6, ConcatProperties DEF Lists
<1> QED
  BY <1>7 DEF Keep, Reset, Lists

LEMMA ListsNext == LoopInv /\ Lists /\ [Next]_vars => Lists'
<1> SUFFICES ASSUME LoopInv, Lists, [Next]_vars PROVE Lists'
  OBVIOUS
<1>1. CASE TakeTransition
  BY <1>1, ListsTurn
<1>2. CASE GiveUp
  BY <1>2 DEF GiveUp, Reset, Lists
<1>3. CASE Keep
  BY <1>3, ListsKeep
<1>4. CASE Train
  BY <1>4 DEF Train, Lists
<1>5. CASE Evaluate \/ UNCHANGED vars
  BY <1>5 DEF Evaluate, vars, ciVars, Lists
<1> QED
  BY <1>1, <1>2, <1>3, <1>4, <1>5 DEF Next, Preprocess, CINext

\* Preprocessing leaves the parses alone, training starts them.
LEMMA ParsesNext == MPInv /\ [Next]_vars => MPInv'
<1> SUFFICES ASSUME MPInv, [Next]_vars PROVE MPInv'
  OBVIOUS
<1>1. CASE Preprocess \/ UNCHANGED vars
  BY <1>1, MPStutter DEF Preprocess, vars
<1>2. CASE Train
  BY <1>2, StartInv DEF Train
<1>3. CASE Evaluate
  BY <1>3, PredictInv, ApplyInv, ScoreInv DEF Evaluate
<1> QED
  BY <1>1, <1>2, <1>3 DEF Next

\* minibatch_parse (lines 561-573) and parse_step (lines 373-395): the stacks
\* ascend, the buffers are what is left of the sentence, the list of parses
\* is exact and no arc found so far will ever cross another.
THEOREM ParsesStaySound == Spec => []MPInv
<1>1. Init => MPInv
  BY MPInitInv DEF Init
<1> QED
  BY <1>1, ParsesNext, PTL DEF Spec

\* What create_instances and minibatch_parse keep in their lists is what the
\* code that reads them expects.
THEOREM TypeCorrect == Spec => []TypeOK
<1> DEFINE PhaseOK == phase \in {"preprocess", "evaluate"}
<1>1. Init => PhaseOK
  BY DEF Init
<1>2. PhaseOK /\ [Next]_vars => PhaseOK'
  BY DEF Next, Preprocess, Train, Evaluate, vars
<1>3. LoopInv /\ Lists /\ MPInv /\ PhaseOK => TypeOK
  BY DEF TypeOK, CITypeOK, LoopInv, StackShape, Lists, MPInv
<1> HIDE DEF PhaseOK
<1> QED
  BY <1>1, <1>2, <1>3, ListsInit, ListsNext, TurnsAreEnough, ParsesStaySound, PTL DEF Spec

\* Lines 566-568: a prediction is used when the parses before it in the batch have
\* moved, and still fits the parse it was made for; so no list is popped empty.
THEOREM StepsAreLegal == Spec => []StepIsLegal
<1>1. MPInv => StepIsLegal
  BY DEF MPInv
<1> QED
  BY <1>1, ParsesStaySound, PTL

\* Parser.parse: whatever the network predicts, every sentence gets a
\* projective tree over all its words.
THEOREM AnswersAreProjective == Spec => []AnswersAreTrees
  BY AnswersFollow, ParsesStaySound, PTL

-----------------------------------------------------------------------------
(* What the oracle can still attach *)

(* A gold tree of n words, and a stack of the given size that has seen m of
   them. *)
Setting(tree, n, s, size, m) ==
    /\ n = Len(tree) /\ size = Len(s) /\ m <= n
    /\ \A w \in 1 .. n : tree[w] \in 0 .. n
    /\ IsProjective(tree)
    /\ StackSound(s, m) /\ s[1] = Root

(* The words that have no head yet. *)
Alive(v, s, m) == v > m \/ \E i \in 1 .. Len(s) : s[i] = v

(* A word leaves after its dependents have. *)
HeadsAlive(tree, s, m) ==
    \A w \in 1 .. Len(tree) : Alive(w, s, m) => Alive(tree[w], s, m)

(* Below the top no word waits for the one above it. *)
NoneToTheLeft(tree, s) ==
    \A i \in 2 .. Len(s) - 2 : tree[s[i]] # s[i + 1]

(* A dependent of the word below it is covered only while a dependent of its
   own is to come. *)
StillNeeded(tree, s, m) ==
    \A i \in 1 .. Len(s) - 2 : tree[s[i + 1]] = s[i] =>
      \E x \in 1 .. Len(tree) : Alive(x, s, m) /\ x > s[i + 1] /\ tree[x] = s[i + 1]

(* The words left can be attached from the top of the stack down: what keeps
   the oracle from getting stuck. *)
Reducible(tree, s, m) ==
    HeadsAlive(tree, s, m) /\ NoneToTheLeft(tree, s) /\ StillNeeded(tree, s, m)

-----------------------------------------------------------------------------
(* Projective trees *)

LEMMA ArcsApart ==
    ASSUME NEW n, NEW tree, n = Len(tree), IsProjective(tree),
           NEW v \in 1 .. n, NEW w \in 1 .. n
    PROVE  ~ Crossing(<<tree[v], v>>, <<tree[w], w>>)
<1>1. <<tree[v], v>> \in GoldArcs(tree) /\ <<tree[w], w>> \in GoldArcs(tree)
  BY DEF GoldArcs, Words
<1> QED
  BY <1>1 DEF IsProjective

\* A word below an arc has its head below it, too, or at one of its ends.
LEMMA UnderArc ==
    ASSUME NEW n \in Nat, NEW tree, n = Len(tree), IsProjective(tree),
           \A w \in 1 .. n : tree[w] \in 0 .. n,
           NEW w \in 1 .. n, NEW a \in 1 .. n
    PROVE  /\ w < a /\ a < tree[w] => w <= tree[a] /\ tree[a] <= tree[w]
           /\ tree[w] < a /\ a < w => tree[w] <= tree[a] /\ tree[a] <= w
<1>1. PICK b, c : b = <<tree[w], w>> /\ c = <<tree[a], a>>
  OBVIOUS
<1>2. ~ Crossing(b, c) /\ ~ Crossing(c, b)
  BY <1>1, ArcsApart
<1>3. PICK hw, ha \in 0 .. n : hw = tree[w] /\ ha = tree[a]
  OBVIOUS
<1>4. b[1] = hw /\ b[2] = w /\ c[1] = ha /\ c[2] = a
  BY <1>1, <1>3
<1>5. /\ w < a /\ a < hw => w <= ha /\ ha <= hw
      /\ hw < a /\ a < w => hw <= ha /\ ha <= w
  BY <1>2, <1>4, SMTT(20) DEF Crossing
<1> QED
  BY <1>3, <1>5

LEMMA Escape ==
    ASSUME NEW n, NEW tree, n = Len(tree), IsProjective(tree),
           NEW W, W \subseteq 1 .. n, W # {}
    PROVE  \E w \in W : tree[w] \notin W
<1>1. W \in (SUBSET Words(tree)) \ {{}}
  BY DEF Words
<1> QED
  BY <1>1 DEF IsProjective, IsTree

LEMMA NoLoop ==
    ASSUME NEW n, NEW tree, n = Len(tree), IsProjective(tree), NEW w \in 1 .. n
    PROVE  tree[w] # w
<1>1. {w} \subseteq 1 .. n /\ {w} # {}
  OBVIOUS
<1>2. \E v \in {w} : tree[v] \notin {w}
  BY <1>1, Escape
<1> QED
  BY <1>2

LEMMA NoPair ==
    ASSUME NEW n, NEW tree, n = Len(tree), IsProjective(tree),
           NEW v \in 1 .. n, NEW w \in 1 .. n, tree[v] = w
    PROVE  tree[w] # v
<1>1. {v, w} \subseteq 1 .. n /\ {v, w} # {}
  OBVIOUS
<1>2. \E x \in {v, w} : tree[x] \notin {v, w}
  BY <1>1, Escape
<1> QED
  BY <1>2

\* No stretch of words is closed: if its ends have their heads in it, it
\* would be.
LEMMA NoClosedStretch ==
    ASSUME NEW n \in Nat, NEW tree, n = Len(tree), IsProjective(tree),
           \A w \in 1 .. n : tree[w] \in 0 .. n,
           NEW v \in 1 .. n, NEW w \in 1 .. n, v < w
    PROVE  /\ tree[w] = v /\ v <= tree[v] => tree[v] > w
           /\ tree[v] = w /\ tree[w] <= w => tree[w] < v
<1> DEFINE W == {x \in 1 .. n : v <= x /\ x <= w}
<1>1. PICK x \in W : tree[x] \notin W
  <2>1. W \subseteq 1 .. n /\ v \in W
    OBVIOUS
  <2>2. W # {}
    BY <2>1
  <2> HIDE DEF W
  <2> QED
    BY <2>1, <2>2, Escape
<1>2. x \in 1 .. n /\ v <= x /\ x <= w
  OBVIOUS
<1>3. PICK h \in 0 .. n : h = tree[x]
  BY <1>2
<1>4. ~ (v <= h /\ h <= w)
  <2>1. 1 <= v
    OBVIOUS
  <2>2. v <= h /\ h <= w => h \in 1 .. n
    BY <2>1
  <2> QED
    BY <1>1, <1>3, <2>2
<1> HIDE DEF W
<1>5. (tree[w] = v \/ tree[v] = w) => x = v \/ x = w
  <2>1. CASE tree[w] = v
    <3>1. tree[w] < x /\ x < w => tree[w] <= h /\ h <= w
      BY <1>2, <1>3, UnderArc
    <3> QED
      BY <1>2, <1>4, <2>1, <3>1
  <2>2. CASE tree[v] = w
    <3>1. v < x /\ x < tree[v] => v <= h /\ h <= tree[v]
      BY <1>2, <1>3, UnderArc
    <3> QED
      BY <1>2, <1>4, <2>2, <3>1
  <2> QED
    BY <2>1, <2>2
<1>6. PICK hv, hw \in 0 .. n : hv = tree[v] /\ hw = tree[w]
  OBVIOUS
<1>7. (hw = v \/ hv = w) => (hv = h /\ x = v) \/ (hw = h /\ x = w)
  BY <1>3, <1>5, <1>6
<1>8. /\ hw = v /\ v <= hv => hv > w
      /\ hv = w /\ hw <= w => hw < v
  BY <1>4, <1>7
<1> QED
  BY <1>6, <1>8

-----------------------------------------------------------------------------
(* Arcs on the stack *)

\* What a Setting says about places in the stack.
LEMMA Places ==
    ASSUME NEW n \in Nat, NEW tree, NEW s, NEW size \in Nat, NEW m \in Nat,
           Setting(tree, n, s, size, m)
    PROVE  /\ size >= 1
           /\ \A i \in 1 .. size : s[i] \in 0 .. m
           /\ \A i \in 2 .. size : s[i] \in 1 .. n /\ s[i] <= m
           /\ \A i, j \in 1 .. size : i < j => s[i] < s[j]
           /\ \A i, j \in 1 .. size : s[i] <= s[j] => i <= j
           /\ \A i \in 2 .. size : tree[s[i]] \in 0 .. n
<1>1. size = Len(s) /\ StackSound(s, m) /\ s[1] = 0 /\ m <= n
  BY DEF Setting, Root
<1>2. size >= 1
  BY <1>1 DEF StackSound
<1>3. \A i \in 2 .. size : s[i] \in 1 .. m
  BY <1>1 DEF StackSound
<1>4. \A i \in 1 .. size : s[i] \in 0 .. m
  BY <1>1, <1>3
<1>5. \A i \in 2 .. size : s[i] \in 1 .. n /\ s[i] <= m
  BY <1>1, <1>3
<1>6. \A i, j \in 1 .. size : i < j => s[i] < s[j]
  BY <1>1 DEF StackSound
<1>7. ASSUME NEW i \in 1 .. size, NEW j \in 1 .. size, s[i] <= s[j]
      PROVE  i <= j
  <2>1. j < i => s[j] < s[i]
    BY <1>6
  <2>2. s[i] \in 0 .. m /\ s[j] \in 0 .. m
    BY <1>4
  <2> QED
    BY <1>7, <2>1, <2>2
<1>8. \A i \in 2 .. size : tree[s[i]] \in 0 .. n
  BY <1>5 DEF Setting
<1> QED
  BY <1>2, <1>4, <1>5, <1>6, <1>7, <1>8

\* A head between two words of the stack is on the stack between them.
LEMMA HeadOnStack ==
    ASSUME NEW n \in Nat, NEW tree, NEW s, NEW size \in Nat, NEW m \in Nat,
           Setting(tree, n, s, size, m), HeadsAlive(tree, s, m),
           NEW i \in 2 .. size, tree[s[i]] <= m
    PROVE  \E r \in 1 .. size : s[r] = tree[s[i]]
<1>1. n = Len(tree) /\ size = Len(s)
  BY DEF Setting
<1>2. s[i] \in 1 .. n /\ Alive(s[i], s, m)
  BY <1>1, Places DEF Alive
<1>3. Alive(tree[s[i]], s, m)
  BY <1>1, <1>2 DEF HeadsAlive
<1>4. tree[s[i]] \in 0 .. n
  BY Places
<1> QED
  BY <1>1, <1>3, <1>4 DEF Alive

LEMMA HeadBetween ==
    ASSUME NEW n \in Nat, NEW tree, NEW s, NEW size \in Nat, NEW m \in Nat,
           Setting(tree, n, s, size, m), HeadsAlive(tree, s, m),
           NEW a \in 1 .. size, NEW b \in 1 .. size, NEW i \in 2 .. size,
           s[a] <= tree[s[i]], tree[s[i]] <= s[b]
    PROVE  \E r \in a .. b : s[r] = tree[s[i]]
<1>1. tree[s[i]] \in 0 .. n /\ s[b] \in 0 .. m
  BY Places
<1>2. tree[s[i]] <= m
  BY <1>1
<1>3. PICK r \in 1 .. size : s[r] = tree[s[i]]
  BY <1>2, HeadOnStack
<1>4. a <= r /\ r <= b
  BY <1>3, Places
<1> QED
  BY <1>3, <1>4

\* A word of the stack under an arc between two others has its head there, too.
LEMMA HeadInside ==
    ASSUME NEW n \in Nat, NEW tree, NEW s, NEW size \in Nat, NEW m \in Nat,
           Setting(tree, n, s, size, m), HeadsAlive(tree, s, m),
           NEW q \in 1 .. size, NEW a \in 2 .. size, NEW p \in 2 .. size, q < a, a < p,
           tree[s[p]] = s[q] \/ (q >= 2 /\ tree[s[q]] = s[p])
    PROVE  \E r \in q .. p : r # a /\ s[r] = tree[s[a]]
<1>1. n = Len(tree) /\ IsProjective(tree) /\ \A w \in 1 .. n : tree[w] \in 0 .. n
  BY DEF Setting
<1>2. PICK u, v, w : u = s[q] /\ v = s[a] /\ w = s[p]
  OBVIOUS
<1>3. /\ u \in 0 .. n /\ v \in 1 .. n /\ w \in 1 .. n /\ u < v /\ v < w
      /\ q >= 2 => u \in 1 .. n
  <2>1. u \in 0 .. m /\ m <= n
    BY <1>2, Places DEF Setting
  <2>2. u < v /\ v < w
    BY <1>2, Places
  <2> QED
    BY <1>2, <2>1, <2>2, Places, SMTT(20)
<1>4. tree[w] = u \/ (u \in 1 .. n /\ tree[u] = w)
  BY <1>2, <1>3
<1>5. u <= tree[v] /\ tree[v] <= w
  <2>1. CASE tree[w] = u
    BY <1>1, <1>3, <2>1, UnderArc
  <2>2. CASE u \in 1 .. n /\ tree[u] = w
    BY <1>1, <1>3, <2>2, UnderArc
  <2> QED
    BY <1>4, <2>1, <2>2
<1>6. tree[v] # v
  BY <1>1, <1>3, NoLoop
<1>7. PICK r \in q .. p : s[r] = tree[s[a]]
  <2>1. s[q] <= tree[s[a]] /\ tree[s[a]] <= s[p]
    BY <1>2, <1>5
  <2>2. p \in 1 .. size
    OBVIOUS
  <2> QED
    BY <2>1, <2>2, HeadBetween
<1> QED
  BY <1>2, <1>6, <1>7

\* In a part of the stack no word but the root waits for the one above it.
NoneWaits(tree, s, lo, hi) ==
    \A j \in lo .. hi - 1 : j >= 2 => tree[s[j]] # s[j + 1]

\* Where words next to each other do not wait for the one above, the topmost
\* arc to a word above its head joins neighbours.
LEMMA TopmostArc ==
    ASSUME NEW n \in Nat, NEW tree, NEW s, NEW size \in Nat, NEW m \in Nat,
           Setting(tree, n, s, size, m), HeadsAlive(tree, s, m),
           NEW lo \in 1 .. size, NEW hi \in 1 .. size,
           NoneWaits(tree, s, lo, hi),
           NEW q0 \in lo .. hi, NEW p0 \in lo .. hi, q0 < p0, tree[s[p0]] = s[q0]
    PROVE  \E q \in lo .. hi - 1 :
             /\ tree[s[q + 1]] = s[q]
             /\ \A a, b \in lo .. hi : q < a /\ a < b => tree[s[b]] # s[a]
<1> DEFINE Arc(a, b) == a < b /\ tree[s[b]] = s[a]
           T == {hi - a : a \in {x \in lo .. hi : \E b \in lo .. hi : Arc(x, b)}}
<1>1. PICK q \in lo .. hi :
        /\ \E b \in lo .. hi : Arc(q, b)
        /\ \A a, b \in lo .. hi : q < a => ~ Arc(a, b)
  <2>1. T \subseteq Nat
    <3>1. \A a \in lo .. hi : hi - a \in Nat
      OBVIOUS
    <3> QED
      BY <3>1
  <2>2. hi - q0 \in T
    OBVIOUS
  <2>3. PICK x \in T : \A y \in T : x <= y
    BY <2>1, <2>2, Least
  <2>4. PICK q \in lo .. hi : x = hi - q /\ \E b \in lo .. hi : Arc(q, b)
    BY <2>3
  <2>5. ASSUME NEW a \in lo .. hi, NEW b \in lo .. hi, q < a
        PROVE  ~ Arc(a, b)
    <3>1. Arc(a, b) => hi - a \in T
      OBVIOUS
    <3>2. ~ (hi - q <= hi - a)
      BY <2>5
    <3> QED
      BY <2>3, <2>4, <3>1, <3>2
  <2> QED
    BY <2>4, <2>5
<1>2. PICK p \in lo .. hi : Arc(q, p) /\ \A b \in lo .. hi : Arc(q, b) => p <= b
  <2> DEFINE U == {b \in lo .. hi : Arc(q, b)}
  <2>1. U \subseteq Nat /\ U # {}
    BY <1>1
  <2> HIDE DEF Arc
  <2>2. PICK p \in U : \A b \in U : p <= b
    BY <2>1, Least
  <2> QED
    BY <2>2
<1>3. n = Len(tree) /\ IsProjective(tree) /\ \A w \in 1 .. n : tree[w] \in 0 .. n
  BY DEF Setting
<1>4. ASSUME q + 1 < p
      PROVE  FALSE
  <2>1. q + 1 \in 2 .. size /\ q + 1 \in lo .. hi - 1 /\ p \in 2 .. size /\ q \in 1 .. size
    BY <1>4
  <2>2. tree[s[p]] = s[q] /\ q < q + 1
    BY <1>2
  <2>3. PICK r \in q .. p : r # q + 1 /\ s[r] = tree[s[q + 1]]
    BY <1>4, <2>1, <2>2, HeadInside, SMTT(20)
  <2>5. r # q
    BY <1>2, <1>4, <2>1, <2>3
  <2>7. r # q + 2
    BY <2>1, <2>3 DEF NoneWaits
  <2>8. r \in 2 .. size /\ r - 1 \in 2 .. size /\ r - 1 \in lo .. hi - 1 /\ q + 1 < r - 1
    BY <2>1, <2>3, <2>5, <2>7
  <2>11. PICK r2 \in q + 1 .. r : r2 # r - 1 /\ s[r2] = tree[s[r - 1]]
    <3>1. r - 1 < r /\ q + 1 \in 1 .. size /\ q + 1 >= 2 /\ tree[s[q + 1]] = s[r]
      BY <2>1, <2>3, <2>8
    <3> QED
      BY <2>8, <3>1, HeadInside
  <2>13. tree[s[r - 1]] # s[(r - 1) + 1] /\ (r - 1) + 1 = r
    BY <2>8 DEF NoneWaits
  <2>14. r2 < r - 1
    BY <2>8, <2>11, <2>13
  <2>15. r2 \in lo .. hi /\ q < r2 /\ r - 1 \in lo .. hi
    BY <2>1, <2>8
  <2> QED
    BY <1>1, <2>11, <2>14, <2>15
<1>5. p = q + 1
  BY <1>2, <1>4
<1>6. q \in lo .. hi - 1
  BY <1>5
<1> QED
  BY <1>1, <1>2, <1>5, <1>6
-----------------------------------------------------------------------------
(* The oracle's answers *)

\* Once the buffer is empty, one of the two arcs joins the top two words: the
\* oracle has an answer for every projective tree.
LEMMA OracleAnswers ==
    ASSUME NEW n \in Nat, NEW tree, NEW s, NEW size \in Nat, NEW m \in Nat,
           Setting(tree, n, s, size, m), Reducible(tree, s, m), m = n, size >= 2
    PROVE  tree[s[size]] = s[size - 1] \/ (size >= 3 /\ tree[s[size - 1]] = s[size])
<1> SUFFICES ASSUME tree[s[size]] # s[size - 1],
                    size >= 3 => tree[s[size - 1]] # s[size]
             PROVE  FALSE
  OBVIOUS
<1>1. n = Len(tree) /\ size = Len(s) /\ IsProjective(tree)
  BY DEF Setting
<1>2. HeadsAlive(tree, s, m) /\ NoneToTheLeft(tree, s) /\ StillNeeded(tree, s, m)
  BY DEF Reducible
<1>3. NoneWaits(tree, s, 1, size)
  <2>1. SUFFICES ASSUME NEW j \in 2 .. size - 1 PROVE tree[s[j]] # s[j + 1]
    BY DEF NoneWaits
  <2>2. CASE j \in 2 .. size - 2
    BY <1>1, <1>2, <2>2 DEF NoneToTheLeft
  <2>3. CASE j = size - 1
    <3>1. j + 1 = size /\ size >= 3
      BY <2>3
    <3> QED
      BY <2>3, <3>1
  <2> QED
    BY <2>2, <2>3
<1>4. size \in 2 .. size /\ size \in 1 .. size /\ 1 \in 1 .. size
  OBVIOUS
<1>5. PICK r \in 1 .. size : s[r] = tree[s[size]]
  <2>1. tree[s[size]] \in 0 .. n
    BY <1>4, Places
  <2>2. tree[s[size]] <= m
    BY <2>1
  <2> QED
    BY <1>2, <1>4, <2>2, HeadOnStack
<1>6. r < size
  <2>1. s[size] \in 1 .. n
    BY <1>4, Places
  <2>2. r # size
    BY <1>1, <1>5, <2>1, NoLoop
  <2> QED
    BY <2>2
<1>7. PICK q \in 1 .. size - 1 :
        /\ tree[s[q + 1]] = s[q]
        /\ \A a, b \in 1 .. size : q < a /\ a < b => tree[s[b]] # s[a]
  BY <1>2, <1>3, <1>4, <1>5, <1>6, TopmostArc
<1>8. q \in 1 .. size - 2
  <2>1. q = size - 1 => q + 1 = size
    OBVIOUS
  <2>2. q # size - 1
    BY <1>7, <2>1
  <2> QED
    BY <2>2
<1>9. PICK x \in 1 .. n : Alive(x, s, m) /\ x > s[q + 1] /\ tree[x] = s[q + 1]
  BY <1>1, <1>2, <1>7, <1>8 DEF StillNeeded
<1>10. PICK i \in 1 .. size : s[i] = x
  BY <1>1, <1>9 DEF Alive
<1>11. q + 1 \in 1 .. size /\ q < q + 1
  BY <1>8
<1>12. q + 1 < i
  <2>1. s[q + 1] <= s[i] /\ s[q + 1] # s[i]
    <3>1. s[q + 1] \in 0 .. m
      BY <1>11, Places
    <3> QED
      BY <1>9, <1>10, <3>1
  <2>2. q + 1 <= i
    BY <1>11, <2>1, Places
  <2>3. q + 1 # i
    BY <2>1
  <2> QED
    BY <2>2, <2>3
<1> QED
  BY <1>7, <1>9, <1>10, <1>11, <1>12

\* A left arc takes the second word when all its dependents have left.
LEMMA LeftSafe ==
    ASSUME NEW n \in Nat, NEW tree, NEW s, NEW size \in Nat, NEW m \in Nat,
           Setting(tree, n, s, size, m), Reducible(tree, s, m),
           size >= 3, tree[s[size - 1]] = s[size],
           NEW w \in 1 .. n, Alive(w, s, m)
    PROVE  tree[w] # s[size - 1]
<1> SUFFICES ASSUME tree[w] = s[size - 1] PROVE FALSE
  OBVIOUS
<1>1. n = Len(tree) /\ size = Len(s) /\ IsProjective(tree) /\ m <= n /\ s[1] = 0
      /\ \A v \in 1 .. n : tree[v] \in 0 .. n
  BY DEF Setting, Root
<1>2. HeadsAlive(tree, s, m) /\ NoneToTheLeft(tree, s) /\ StillNeeded(tree, s, m)
  BY DEF Reducible
<1>3. size \in 2 .. size /\ size - 1 \in 2 .. size /\ size - 1 < size
  OBVIOUS
<1>4. PICK d, t \in 1 .. n : d = s[size - 1] /\ t = s[size] /\ d < t /\ t <= m
  BY <1>3, Places
<1>5. tree[d] = t /\ tree[w] = d
  BY <1>4
<1>6. w <= m
  <2>1. SUFFICES ASSUME w > m PROVE FALSE
    OBVIOUS
  <2>2. d < w
    BY <1>4, <2>1
  <2>3. d <= tree[d]
    BY <1>4, <1>5
  <2>4. tree[d] > w
    BY <1>1, <1>5, <2>2, <2>3, NoClosedStretch
  <2> QED
    BY <1>4, <1>5, <2>1, <2>4
<1>7. PICK i \in 1 .. size : s[i] = w
  BY <1>1, <1>6 DEF Alive
<1>8. i # 1
  BY <1>1, <1>7
<1>9. i # size
  <2>1. tree[t] # d
    BY <1>1, <1>5, NoPair
  <2>2. i = size => w = t
    BY <1>4, <1>7
  <2> QED
    BY <1>5, <2>1, <2>2
<1>10. i # size - 1
  BY <1>1, <1>4, <1>5, <1>7, NoLoop, SMTT(20)
<1>11. i # size - 2
  <2>1. SUFFICES ASSUME i = size - 2 PROVE FALSE
    OBVIOUS
  <2>2. i \in 2 .. size - 2 /\ i + 1 = size - 1
    BY <1>8, <2>1
  <2>3. tree[s[i]] # s[size - 1]
    BY <1>1, <1>2, <2>2 DEF NoneToTheLeft
  <2> QED
    BY <1>7, <2>3
<1>12. i \in 2 .. size /\ i < size - 2 /\ size - 2 < size - 1
       /\ i \in 1 .. size /\ size - 2 \in 2 .. size /\ size - 1 \in 1 .. size
  BY <1>8, <1>9, <1>10, <1>11
<1>13. tree[s[size - 2]] # s[size - 1]
  <2>1. size - 2 \in 2 .. size - 2 /\ (size - 2) + 1 = size - 1
    BY <1>12
  <2> QED
    BY <1>1, <1>2, <2>1 DEF NoneToTheLeft
<1>14. PICK r \in i .. size - 1 : r # size - 2 /\ s[r] = tree[s[size - 2]]
  <2>1. i >= 2 /\ tree[s[i]] = s[size - 1]
    BY <1>7, <1>12
  <2> QED
    BY <1>2, <1>3, <1>12, <2>1, HeadInside
<1>15. r # size - 1
  BY <1>13, <1>14
<1>16. r \in i .. size - 1 /\ size - 2 \in i .. size - 1 /\ r < size - 2
  BY <1>12, <1>14, <1>15
<1>17. NoneWaits(tree, s, i, size - 1)
  <2>1. \A j \in i .. (size - 1) - 1 : j \in 2 .. size - 2
    BY <1>12
  <2> QED
    BY <1>1, <1>2, <2>1 DEF NoneToTheLeft, NoneWaits
<1>18. PICK q \in i .. (size - 1) - 1 :
         /\ tree[s[q + 1]] = s[q]
         /\ \A a, b \in i .. size - 1 : q < a /\ a < b => tree[s[b]] # s[a]
  BY <1>2, <1>12, <1>14, <1>16, <1>17, TopmostArc
<1>19. q # size - 2
  <2>1. SUFFICES ASSUME q = size - 2 PROVE FALSE
    OBVIOUS
  <2>2. q + 1 = size - 1 /\ q \in 1 .. size /\ q < size
    BY <1>12, <2>1
  <2>3. s[q] = s[size]
    BY <1>18, <2>2
  <2>4. s[q] < s[size] /\ s[q] \in 0 .. m
    BY <1>3, <2>2, Places
  <2> QED
    BY <2>3, <2>4
<1>20. /\ q \in 1 .. size - 2 /\ q + 1 \in i .. size - 1 /\ q + 1 \in 1 .. size
       /\ i < q + 1 /\ q + 1 < size - 1
  BY <1>12, <1>19
<1>21. PICK x \in 1 .. n : Alive(x, s, m) /\ x > s[q + 1] /\ tree[x] = s[q + 1]
  BY <1>1, <1>2, <1>18, <1>20 DEF StillNeeded
<1>22. PICK y \in 0 .. m : y = s[q + 1] /\ w < y /\ y < d
  <2>1. s[q + 1] \in 0 .. m /\ s[i] < s[q + 1] /\ s[q + 1] < s[size - 1]
    BY <1>12, <1>20, Places
  <2> QED
    BY <1>4, <1>7, <2>1
<1>23. x <= d
  <2>1. SUFFICES ASSUME d < x PROVE FALSE
    OBVIOUS
  <2>2. PICK b, c : b = <<tree[w], w>> /\ c = <<tree[x], x>>
    OBVIOUS
  <2>3. ~ Crossing(b, c)
    BY <1>1, <2>2, ArcsApart
  <2>4. b[1] = d /\ b[2] = w /\ c[1] = y /\ c[2] = x
    BY <1>5, <1>21, <1>22, <2>2
  <2>5. w < y /\ y < d /\ d < x
    BY <1>22, <2>1
  <2> QED
    BY <2>3, <2>4, <2>5 DEF Crossing
<1>24. PICK k \in 1 .. size : s[k] = x
  <2>1. ~ (x > m)
    BY <1>4, <1>23
  <2> QED
    BY <1>1, <1>21, <2>1 DEF Alive
<1>25. k <= size - 1
  <2>1. s[k] <= s[size - 1]
    BY <1>4, <1>23, <1>24
  <2> QED
    BY <1>12, <2>1, Places
<1>26. q + 1 < k
  <2>1. s[q + 1] <= s[k] /\ s[q + 1] # s[k]
    BY <1>21, <1>22, <1>24
  <2>2. q + 1 <= k
    BY <1>20, <2>1, Places
  <2>3. q + 1 # k
    BY <2>1
  <2> QED
    BY <2>2, <2>3
<1>27. k \in i .. size - 1 /\ q < q + 1
  BY <1>20, <1>25, <1>26
<1> QED
  BY <1>18, <1>20, <1>21, <1>24, <1>26, <1>27

\* A right arc takes the top word when all its dependents have left: the oracle
\* looks for them in the buffer, and none is on the stack.
LEMMA RightSafe ==
    ASSUME NEW n \in Nat, NEW tree, NEW s, NEW size \in Nat, NEW m \in Nat,
           Setting(tree, n, s, size, m),
           size >= 2, tree[s[size]] = s[size - 1],
           \A v \in m + 1 .. n : tree[v] # s[size],
           NEW w \in 1 .. n, Alive(w, s, m)
    PROVE  tree[w] # s[size]
<1> SUFFICES ASSUME tree[w] = s[size] PROVE FALSE
  OBVIOUS
<1>1. n = Len(tree) /\ size = Len(s) /\ IsProjective(tree) /\ s[1] = 0
      /\ \A v \in 1 .. n : tree[v] \in 0 .. n
  BY DEF Setting, Root
<1>2. w <= m
  OBVIOUS
<1>3. PICK i \in 1 .. size : s[i] = w
  BY <1>1, <1>2 DEF Alive
<1>4. i # 1
  BY <1>1, <1>3
<1>5. size \in 2 .. size /\ size - 1 \in 1 .. size /\ size \in 1 .. size
  OBVIOUS
<1>6. PICK t \in 1 .. n : t = s[size]
  BY <1>5, Places
<1>7. i # size
  BY <1>1, <1>3, <1>6, NoLoop
<1>8. w < t
  BY <1>3, <1>5, <1>6, <1>7, Places
<1>9. PICK u \in 0 .. m : u = s[size - 1] /\ u < t
  BY <1>5, <1>6, Places
<1>10. tree[w] = t /\ tree[t] = u /\ tree[t] <= t
  BY <1>6, <1>9
<1>11. tree[t] < w
  BY <1>1, <1>8, <1>10, NoClosedStretch
<1>12. s[size - 1] < s[i]
  BY <1>3, <1>9, <1>10, <1>11
<1>13. size - 1 <= i /\ size - 1 # i
  <2>1. s[size - 1] <= s[i] /\ s[size - 1] # s[i]
    BY <1>3, <1>9, <1>12
  <2> QED
    BY <1>5, <2>1, Places
<1> QED
  BY <1>7, <1>13
-----------------------------------------------------------------------------
(* What the transitions leave *)

\* A new sentence.
LEMMA NewReducible ==
    ASSUME NEW n \in Nat, NEW tree, n = Len(tree), \A w \in 1 .. n : tree[w] \in 0 .. n,
           NEW s, Len(s) = 1, s[1] = Root
    PROVE  Reducible(tree, s, 0)
<1>1. HeadsAlive(tree, s, 0)
  <2>1. SUFFICES ASSUME NEW w \in 1 .. n PROVE Alive(tree[w], s, 0)
    BY DEF HeadsAlive
  <2>2. tree[w] > 0 \/ tree[w] = 0
    OBVIOUS
  <2> QED
    BY <2>2 DEF Alive, Root
<1>2. 1 .. Len(s) - 2 = {} /\ 2 .. Len(s) - 2 = {}
  OBVIOUS
<1> QED
  BY <1>1, <1>2 DEF Reducible, NoneToTheLeft, StillNeeded

\* t is what s becomes when w is pushed.
Pushed(s, size, w, t) ==
    Len(t) = size + 1 /\ t[size + 1] = w /\ \A i \in 1 .. size : t[i] = s[i]

\* A shift: the word that is covered waits for another one still.
LEMMA ShiftKeeps ==
    ASSUME NEW n \in Nat, NEW tree, NEW s, NEW size \in Nat, NEW m \in Nat,
           Setting(tree, n, s, size, m), Reducible(tree, s, m), m < n,
           size >= 3 => tree[s[size - 1]] # s[size],
           size >= 2 /\ tree[s[size]] = s[size - 1] =>
             \E x \in m + 1 .. n : tree[x] = s[size],
           NEW s2, Pushed(s, size, m + 1, s2)
    PROVE  Reducible(tree, s2, m + 1)
<1>1. n = Len(tree) /\ size = Len(s) /\ \A v \in 1 .. n : tree[v] \in 0 .. n
  BY DEF Setting
<1>2. HeadsAlive(tree, s, m) /\ NoneToTheLeft(tree, s) /\ StillNeeded(tree, s, m)
  BY DEF Reducible
<1>p. Len(s2) = size + 1 /\ s2[size + 1] = m + 1 /\ \A i \in 1 .. size : s2[i] = s[i]
  BY DEF Pushed
<1>3. ASSUME NEW v \in 0 .. n
      PROVE  Alive(v, s, m) <=> Alive(v, s2, m + 1)
  <2>1. v = m + 1 => \E i \in 1 .. size + 1 : s2[i] = v
    BY <1>p
  <2>2. (\E i \in 1 .. size : s[i] = v) => \E i \in 1 .. size + 1 : s2[i] = v
    <3>1. \A i \in 1 .. size : i \in 1 .. size + 1
      OBVIOUS
    <3> QED
      BY <1>p, <3>1
  <2>3. (\E i \in 1 .. size + 1 : s2[i] = v) => (\E i \in 1 .. size : s[i] = v) \/ v = m + 1
    <3>1. \A i \in 1 .. size + 1 : i \in 1 .. size \/ i = size + 1
      OBVIOUS
    <3> QED
      BY <1>p, <3>1
  <2>4. v > m <=> v > m + 1 \/ v = m + 1
    OBVIOUS
  <2> QED
    BY <1>1, <1>p, <2>1, <2>2, <2>3, <2>4 DEF Alive
<1>4. HeadsAlive(tree, s2, m + 1)
  <2>1. \A w \in 1 .. n : w \in 0 .. n
    OBVIOUS
  <2> QED
    BY <1>1, <1>2, <1>3, <2>1 DEF HeadsAlive
<1>5. NoneToTheLeft(tree, s2)
  <2>1. SUFFICES ASSUME NEW i \in 2 .. size - 1 PROVE tree[s2[i]] # s2[i + 1]
    BY <1>p DEF NoneToTheLeft
  <2>2. s2[i] = s[i] /\ s2[i + 1] = s[i + 1]
    BY <1>p
  <2>3. CASE i = size - 1
    <3>1. i + 1 = size /\ size >= 3
      BY <2>3
    <3> QED
      BY <2>2, <2>3, <3>1
  <2>4. CASE i \in 2 .. size - 2
    BY <1>1, <1>2, <2>2, <2>4 DEF NoneToTheLeft
  <2> QED
    BY <2>3, <2>4
<1>6. StillNeeded(tree, s2, m + 1)
  <2>1. SUFFICES ASSUME NEW i \in 1 .. size - 1, tree[s2[i + 1]] = s2[i]
                 PROVE  \E x \in 1 .. n : /\ Alive(x, s2, m + 1)
                                         /\ x > s2[i + 1] /\ tree[x] = s2[i + 1]
    BY <1>1, <1>p DEF StillNeeded
  <2>2. s2[i] = s[i] /\ s2[i + 1] = s[i + 1]
    BY <1>p
  <2>3. PICK x \in 1 .. n : Alive(x, s, m) /\ x > s[i + 1] /\ tree[x] = s[i + 1]
    <3>1. CASE i = size - 1
      <4>1. i + 1 = size /\ size >= 2 /\ size \in 1 .. size
        BY <3>1
      <4>2. PICK x \in m + 1 .. n : tree[x] = s[size]
        BY <2>1, <2>2, <3>1, <4>1
      <4>3. s[size] \in 0 .. m
        BY <4>1, Places
      <4>4. x \in 1 .. n /\ x > m /\ x > s[size]
        BY <4>3
      <4> QED
        BY <4>1, <4>2, <4>4 DEF Alive
    <3>2. CASE i \in 1 .. size - 2
      BY <1>1, <1>2, <2>1, <2>2, <3>2 DEF StillNeeded
    <3> QED
      BY <3>1, <3>2
  <2>4. x \in 0 .. n
    OBVIOUS
  <2> QED
    BY <1>3, <2>2, <2>3, <2>4
<1> QED
  BY <1>4, <1>5, <1>6 DEF Reducible

\* t is what s leaves without its place p.
Popped(s, size, p, t) ==
    /\ Len(t) = size - 1
    /\ \A i \in 1 .. size - 1 : t[i] = IF i < p THEN s[i] ELSE s[i + 1]

\* An arc: one of the top two words leaves, after its dependents.
LEMMA ArcKeeps ==
    ASSUME NEW n \in Nat, NEW tree, NEW s, NEW size \in Nat, NEW m \in Nat,
           Setting(tree, n, s, size, m), Reducible(tree, s, m),
           NEW p \in 2 .. size, NEW q \in 1 .. size, p >= size - 1, q >= size - 1,
           tree[s[p]] = s[q],
           \A w \in 1 .. n : Alive(w, s, m) => tree[w] # s[p],
           NEW t, Popped(s, size, p, t)
    PROVE  Reducible(tree, t, m)
<1>1. n = Len(tree) /\ size = Len(s) /\ \A v \in 1 .. n : tree[v] \in 0 .. n
  BY DEF Setting
<1>2. HeadsAlive(tree, s, m) /\ NoneToTheLeft(tree, s) /\ StillNeeded(tree, s, m)
  BY DEF Reducible
<1>3. Len(t) = size - 1 /\ \A i \in 1 .. size - 1 : t[i] = IF i < p THEN s[i] ELSE s[i + 1]
  BY DEF Popped
<1>4. ASSUME NEW v \in 0 .. n
      PROVE  Alive(v, t, m) <=> Alive(v, s, m) /\ v # s[p]
  <2>1. s[p] \in 0 .. m
    BY Places
  <2>2. ASSUME NEW i \in 1 .. size - 1, t[i] = v
        PROVE  v # s[p] /\ \E a \in 1 .. size : s[a] = v
    <3>1. PICK a \in 1 .. size : a # p /\ s[a] = v
      <4>1. CASE i < p
        <5>1. i \in 1 .. size /\ i # p /\ t[i] = s[i]
          BY <1>3, <4>1
        <5> QED
          BY <2>2, <5>1
      <4>2. CASE ~ (i < p)
        <5>1. i + 1 \in 1 .. size /\ i + 1 # p /\ t[i] = s[i + 1]
          BY <1>3, <4>2
        <5> QED
          BY <2>2, <5>1
      <4> QED
        BY <4>1, <4>2
    <3>2. s[a] # s[p]
      <4>1. a < p \/ p < a
        BY <3>1
      <4>2. s[a] < s[p] \/ s[p] < s[a]
        BY <4>1, Places
      <4>3. s[a] \in 0 .. m
        BY Places
      <4> QED
        BY <2>1, <4>2, <4>3
    <3> QED
      BY <3>1, <3>2
  <2>3. ASSUME NEW a \in 1 .. size, s[a] = v, v # s[p]
        PROVE  \E i \in 1 .. size - 1 : t[i] = v
    <3>1. a # p
      BY <2>3
    <3>2. CASE a < p
      <4>1. a \in 1 .. size - 1 /\ t[a] = s[a]
        BY <1>3, <3>2
      <4> QED
        BY <2>3, <4>1
    <3>3. CASE p < a
      <4>1. a - 1 \in 1 .. size - 1 /\ t[a - 1] = s[a]
        <5>1. a - 1 \in 1 .. size - 1 /\ ~ (a - 1 < p) /\ (a - 1) + 1 = a
          BY <3>3
        <5> QED
          BY <1>3, <5>1
      <4> QED
        BY <2>3, <4>1
    <3> QED
      BY <3>1, <3>2, <3>3
  <2>4. v > m => v # s[p]
    BY <2>1
  <2> QED
    BY <1>1, <1>3, <2>2, <2>3, <2>4 DEF Alive
<1>5. HeadsAlive(tree, t, m)
  <2>1. SUFFICES ASSUME NEW w \in 1 .. n, Alive(w, t, m) PROVE Alive(tree[w], t, m)
    BY <1>1 DEF HeadsAlive
  <2>2. w \in 0 .. n /\ tree[w] \in 0 .. n
    BY <1>1
  <2>3. Alive(w, s, m)
    BY <1>4, <2>1, <2>2
  <2>4. Alive(tree[w], s, m) /\ tree[w] # s[p]
    BY <1>1, <1>2, <2>3 DEF HeadsAlive
  <2> QED
    BY <1>4, <2>2, <2>4
<1>6. \A i \in 1 .. size - 2 : t[i] = s[i]
  BY <1>3
<1>7. NoneToTheLeft(tree, t)
  <2>1. SUFFICES ASSUME NEW i \in 2 .. size - 3 PROVE tree[t[i]] # t[i + 1]
    BY <1>3 DEF NoneToTheLeft
  <2>2. t[i] = s[i] /\ t[i + 1] = s[i + 1] /\ i \in 2 .. size - 2
    BY <1>6
  <2> QED
    BY <1>1, <1>2, <2>2 DEF NoneToTheLeft
<1>8. StillNeeded(tree, t, m)
  <2>1. SUFFICES ASSUME NEW i \in 1 .. size - 3, tree[t[i + 1]] = t[i]
                 PROVE  \E x \in 1 .. n : /\ Alive(x, t, m)
                                         /\ x > t[i + 1] /\ tree[x] = t[i + 1]
    BY <1>1, <1>3 DEF StillNeeded
  <2>2. t[i] = s[i] /\ t[i + 1] = s[i + 1] /\ i \in 1 .. size - 2 /\ i + 1 \in 1 .. size
    BY <1>6
  <2>3. PICK x \in 1 .. n : Alive(x, s, m) /\ x > s[i + 1] /\ tree[x] = s[i + 1]
    BY <1>1, <1>2, <2>1, <2>2 DEF StillNeeded
  <2>4. s[q] # s[i + 1]
    <3>1. i + 1 < q
      OBVIOUS
    <3>2. s[i + 1] < s[q] /\ s[i + 1] \in 0 .. m
      BY <2>2, <3>1, Places
    <3> QED
      BY <3>2
  <2>5. x # s[p]
    BY <2>3, <2>4
  <2>6. x \in 0 .. n
    OBVIOUS
  <2> QED
    BY <1>4, <2>2, <2>3, <2>5, <2>6
<1> QED
  BY <1>5, <1>7, <1>8 DEF Reducible
-----------------------------------------------------------------------------
(* create_instances *)

\* The sentence it is at, as PartialParse would keep it.
Now == [stack |-> stack, buffer |-> buf, deps |-> arcs]

\* A parse of the tree that the oracle leads: it is sound, every arc is a gold
\* one, and a projective tree can still be parsed to the end.
OnTheWay(c, tree, n) ==
    /\ Sound(c, n)
    /\ \A j \in 1 .. Len(c.deps) : tree[c.deps[j][2]] = c.deps[j][1]
    /\ IsProjective(tree) => Reducible(tree, c.stack, n - Len(c.buffer))

Working == Busy => OnTheWay(Now, Example, Len(Example)) /\ Len(instances) = step

OnlyEarlier == \A j \in 1 .. Len(allInstances) : allInstances[j].example < id

OracleInv == LoopInv /\ Lists /\ Working /\ OnlyEarlier /\ KeptIffProjective

\* What read_conll guarantees of an example.
LEMMA ExampleIs ==
    ASSUME LoopInv, Lists, NEW k \in 1 .. Len(examples)
    PROVE  /\ examples[k] \in Seq(Nat)
           /\ \E n \in Nat \ {0} : /\ n = Len(examples[k])
                                  /\ \A w \in 1 .. n : examples[k][w] \in 0 .. n
<1>1. Len(examples) \in Nat
  BY LenProperties DEF LoopInv, StackShape
<1>2. examples \in Corpora
  BY <1>1 DEF Lists
<1>3. PICK tree : tree = examples[k]
  OBVIOUS
<1>4. tree \in Seq(Nat)
  BY <1>3, ElementOfSeq DEF LoopInv, StackShape
<1>5. tree # <<>> /\ \A w \in Words(tree) : tree[w] \in {Root} \cup Words(tree)
  BY <1>2, <1>3, CorporaAssumption
<1>6. PICK n \in Nat : n = Len(tree)
  BY <1>4, LenProperties
<1>7. n # 0
  BY <1>4, <1>5, <1>6, EmptySeq
<1>8. \A w \in 1 .. n : tree[w] \in 0 .. n
  BY <1>5, <1>6, <1>7 DEF Words, Root
<1> QED
  BY <1>3, <1>4, <1>6, <1>7, <1>8

Fresh(c, n) == c = [stack |-> <<Root>>, buffer |-> [w \in 1 .. n |-> w], deps |-> <<>>]

\* Lines 979-985: a sentence begins.
LEMMA Begins ==
    ASSUME NEW n \in Nat \ {0}, NEW tree, n = Len(tree), \A w \in 1 .. n : tree[w] \in 0 .. n,
           NEW c, Fresh(c, n)
    PROVE  OnTheWay(c, tree, n)
<1>1. PICK p : p = NewParse(n)
  OBVIOUS
<1>2. PICK e : e = Relabelled(p)
  OBVIOUS
<1>3. Sound(e, n)
  BY <1>1, <1>2, NewParseSound, RenumberedSound DEF SameTurn
<1>4. e = c
  <2>1. Renumbered(<<RootString>>) = <<Root>>
    BY DEF Renumbered
  <2>2. PICK b, r : b = [w \in 1 .. n |-> w] /\ r = <<Root>>
    OBVIOUS
  <2>3. p = [stack |-> <<RootString>>, buffer |-> b, deps |-> <<>>]
    BY <1>1, <2>2 DEF NewParse
  <2>4. e = [stack |-> r, buffer |-> b, deps |-> <<>>]
    BY <1>2, <2>1, <2>2, <2>3 DEF Relabelled
  <2> QED
    BY <2>2, <2>4 DEF Fresh
<1>5. PICK s, b, d : s = c.stack /\ b = c.buffer /\ d = c.deps
  OBVIOUS
<1>6. s = <<Root>> /\ b = [w \in 1 .. n |-> w] /\ d = <<>>
  BY <1>5 DEF Fresh
<1>7. Len(b) = n
  <2>1. b \in [1 .. n -> Nat]
    BY <1>6
  <2> QED
    BY <2>1, IsASeq, LenProperties
<1>8. Reducible(tree, s, 0)
  <2>1. Len(s) = 1 /\ s[1] = Root
    BY <1>6
  <2> QED
    BY <2>1, NewReducible
<1>9. n - Len(b) = 0
  BY <1>7
<1>10. Len(d) = 0
  BY <1>6
<1> QED
  BY <1>3, <1>4, <1>5, <1>8, <1>9, <1>10 DEF OnTheWay

LEMMA ResetWorks ==
    ASSUME LoopInv, Lists, NEW k \in Nat \ {0}, Reset(k)
    PROVE  Working'
<1>1. /\ id' = k /\ step' = 0 /\ stack' = <<Root>> /\ arcs' = <<>> /\ instances' = <<>>
      /\ examples' = examples
      /\ buf' = IF k <= Len(examples) THEN [w \in Words(examples[k]) |-> w] ELSE <<>>
  BY DEF Reset
<1>2. CASE k <= Len(examples)
  <2>1. k \in 1 .. Len(examples)
    <3>1. Len(examples) \in Nat
      BY LenProperties DEF LoopInv, StackShape
    <3> QED
      BY <1>2, <3>1
  <2>2. PICK tree, n : /\ tree = examples[k] /\ n \in Nat \ {0} /\ n = Len(tree)
                       /\ \A w \in 1 .. n : tree[w] \in 0 .. n
    BY <2>1, ExampleIs
  <2>3. PICK c : c = Now'
    OBVIOUS
  <2>4. Fresh(c, n)
    BY <1>1, <1>2, <2>2, <2>3 DEF Words, Now, Fresh
  <2>5. OnTheWay(c, tree, n)
    BY <2>2, <2>4, Begins
  <2>6. Len(instances') = step' /\ Example' = tree
    BY <1>1, <2>2 DEF Example
  <2> QED
    BY <2>2, <2>3, <2>5, <2>6 DEF Working
<1>3. CASE ~ (k <= Len(examples))
  BY <1>1, <1>3 DEF Working, Busy
<1> QED
  BY <1>2, <1>3

\* c's stack of the given size has seen m of the sentence's n words.
HasSeen(c, n, s, size, m) == s = c.stack /\ size = Len(s) /\ m = n - Len(c.buffer)

Answers(gold, c, tree) == gold = GetOracle(c.stack, c.buffer, tree)

\* What the oracle has seen on top of the stack and in the buffer.
Choice(gold, tree, n, s, size, m) ==
    /\ gold = "LA" => size >= 3 /\ tree[s[size - 1]] = s[size]
    /\ gold = "RA" => /\ size >= 2 /\ tree[s[size]] = s[size - 1]
                      /\ \A v \in m + 1 .. n : tree[v] # s[size]
    /\ gold \in {"S", NoAnswer} =>
         /\ size >= 3 => tree[s[size - 1]] # s[size]
         /\ size >= 2 /\ tree[s[size]] = s[size - 1] =>
              \E x \in m + 1 .. n : tree[x] = s[size]
    /\ gold = NoAnswer => size >= 2 /\ m = n

\* Lines 947-965: when the oracle answers what.
LEMMA OracleIs ==
    ASSUME NEW n \in Nat, NEW c, Sound(c, n), c.stack[1] = Root,
           NEW s, NEW size \in Nat, NEW m \in Nat, HasSeen(c, n, s, size, m),
           NEW gold, NEW tree, Answers(gold, c, tree)
    PROVE  Choice(gold, tree, n, s, size, m)
<1>1. PICK words \in Nat : words = Len(c.buffer) /\ words <= n /\ c.buffer \in Seq(Nat)
  BY SoundTypes
<1>2. PICK b : b = c.buffer
  OBVIOUS
<1>3. words = Len(b) /\ m = n - words /\ words <= n
  BY <1>1, <1>2 DEF HasSeen
<1>n. m = n - words /\ words <= n
  BY <1>3
<1>4. \A k \in 1 .. words : b[k] = m + k
  BY <1>1, <1>2, <1>3 DEF Sound
<1>5. StackSound(s, m) /\ s[1] = 0 /\ size = Len(s) /\ s = c.stack
  BY DEF Sound, Root, HasSeen
<1>6. (\E k \in 1 .. words : tree[b[k]] = s[size]) <=> \E v \in m + 1 .. n : tree[v] = s[size]
  <2>1. ASSUME NEW k \in 1 .. words
        PROVE  b[k] \in m + 1 .. n
    <3>1. m + k \in m + 1 .. n
      BY <1>n
    <3> QED
      BY <1>4, <3>1
  <2>2. ASSUME NEW v \in m + 1 .. n
        PROVE  \E k \in 1 .. words : b[k] = v
    <3>1. v - m \in 1 .. words /\ m + (v - m) = v
      BY <1>n
    <3> QED
      BY <1>4, <3>1
  <2> QED
    BY <2>1, <2>2
<1>7. size >= 2 => (s[size - 1] > 0 <=> size >= 3)
  <2>1. size = 2 => s[size - 1] = 0
    <3>1. size = 2 => size - 1 = 1
      OBVIOUS
    <3> QED
      BY <1>5, <3>1
  <2>2. size >= 3 => s[size - 1] \in 1 .. m
    <3>1. \A i \in 2 .. size : s[i] \in 1 .. m
      BY <1>5 DEF StackSound
    <3>2. size >= 3 => size - 1 \in 2 .. size
      OBVIOUS
    <3> QED
      BY <3>1, <3>2
  <2>3. size >= 2 => size = 2 \/ size >= 3
    OBVIOUS
  <2> QED
    BY <2>1, <2>2, <2>3
<1> DEFINE toLeft == s[size - 1] > 0 /\ tree[s[size - 1]] = s[size]
           toRight == /\ tree[s[size]] = s[size - 1]
                      /\ ~\E k \in 1 .. words : tree[b[k]] = s[size]
<1>8. gold = IF size < 2 THEN "S"
             ELSE IF toLeft THEN "LA" ELSE IF toRight THEN "RA"
             ELSE IF b = <<>> THEN NoAnswer ELSE "S"
  BY <1>1, <1>2, <1>5 DEF Answers, GetOracle, Top, Second
<1>9. b = <<>> => m = n
  <2>1. b = <<>> => words = 0
    BY <1>3
  <2> QED
    BY <1>3, <2>1
<1>10. /\ toLeft <=> s[size - 1] > 0 /\ tree[s[size - 1]] = s[size]
       /\ toRight <=> /\ tree[s[size]] = s[size - 1]
                      /\ ~\E v \in m + 1 .. n : tree[v] = s[size]
  BY <1>6
<1> HIDE DEF toLeft, toRight
<1>11. /\ gold = "LA" => size >= 2 /\ toLeft
       /\ gold = "RA" => size >= 2 /\ toRight
       /\ gold \in {"S", NoAnswer} => size < 2 \/ (~ toLeft /\ ~ toRight)
       /\ gold = NoAnswer => size >= 2 /\ b = <<>>
  BY <1>8 DEF NoAnswer
<1> QED
  BY <1>7, <1>9, <1>10, <1>11 DEF Choice

\* The oracle's answer leaves a projective tree one that can be parsed to the end.
LEMMA OracleKeeps ==
    ASSUME NEW n \in Nat, NEW tree, n = Len(tree), \A w \in 1 .. n : tree[w] \in 0 .. n,
           IsProjective(tree), NEW c, Sound(c, n), c.stack[1] = Root,
           NEW gold \in LegalLabels(c.stack, c.buffer), Answers(gold, c, tree),
           Reducible(tree, c.stack, n - Len(c.buffer)),
           NEW e, e = ParseStep(c, gold)
    PROVE  Reducible(tree, e.stack, n - Len(e.buffer))
<1>1. PICK size, words \in Nat :
        /\ size = Len(c.stack) /\ words = Len(c.buffer) /\ words <= n
        /\ c.stack \in Seq(Int) /\ c.buffer \in Seq(Nat)
  BY SoundTypes
<1>2. PICK s, m : s = c.stack /\ m = n - words
  OBVIOUS
<1>3. m \in Nat /\ m <= n
  BY <1>1, <1>2
<1>h. HasSeen(c, n, s, size, m)
  BY <1>1, <1>2 DEF HasSeen
<1>4. Setting(tree, n, s, size, m)
  BY <1>1, <1>2, <1>3 DEF Setting, Sound
<1>5. Reducible(tree, s, m)
  BY <1>1, <1>2
<1>6. Choice(gold, tree, n, s, size, m)
  BY <1>3, <1>h, OracleIs
<1>7. PICK t : t = e.stack
  OBVIOUS
<1>8. CASE gold = "S"
  <2>1. c.buffer # <<>>
    BY <1>8 DEF LegalLabels
  <2>2. words >= 1
    BY <1>1, <2>1, EmptySeq
  <2>3. e.stack = Append(s, Head(c.buffer)) /\ e.buffer = Tail(c.buffer)
    BY <1>2, <1>8 DEF ParseStep
  <2>4. Head(c.buffer) = m + 1
    <3>1. \A i \in 1 .. words : c.buffer[i] = m + i
      BY <1>1, <1>2 DEF Sound
    <3>2. c.buffer[1] = m + 1
      BY <2>2, <3>1
    <3> QED
      BY <1>1, <2>1, <3>2, HeadTailProperties
  <2>5. m + 1 \in Int /\ t = Append(s, m + 1)
    BY <1>3, <1>7, <2>3, <2>4
  <2>6. Pushed(s, size, m + 1, t)
    <3>1. PICK w \in Int : w = m + 1
      BY <2>5
    <3>2. s \in Seq(Int) /\ size = Len(s)
      BY <1>1, <1>2
    <3>3. /\ Len(t) = Len(s) + 1 /\ \A i \in 1 .. Len(s) : t[i] = s[i]
          /\ t[Len(s) + 1] = w
      BY <2>5, <3>1, <3>2, AppendProperties
    <3> QED
      BY <3>1, <3>2, <3>3 DEF Pushed
  <2>7. Reducible(tree, t, m + 1)
    <3>1. m < n
      <4>1. m = n - words
        BY <1>2
      <4> QED
        BY <2>2, <4>1
    <3> QED
      BY <1>3, <1>4, <1>5, <1>6, <1>8, <2>6, <3>1, ShiftKeeps DEF Choice
  <2>8. n - Len(e.buffer) = m + 1
    <3>1. Len(Tail(c.buffer)) = Len(c.buffer) - 1
      BY <1>1, <2>1, HeadTailProperties
    <3>2. PICK left : left = Len(e.buffer) /\ left = words - 1
      BY <1>1, <2>3, <3>1
    <3>3. n - left = m + 1
      <4>1. left = words - 1 /\ m = n - words
        BY <1>2, <3>2
      <4> QED
        BY <4>1
    <3> QED
      BY <3>2, <3>3
  <2> QED
    BY <1>7, <2>7, <2>8
<1>9. CASE gold = "LA"
  <2>1. size >= 3 /\ tree[s[size - 1]] = s[size]
    BY <1>6, <1>9 DEF Choice
  <2>2. e.stack = DropSecond(s) /\ e.buffer = c.buffer
    BY <1>2, <1>9 DEF ParseStep
  <2>3. PICK p, q : p = size - 1 /\ q = size
    OBVIOUS
  <2>4. p \in 2 .. size /\ q \in 1 .. size /\ p >= size - 1 /\ q >= size - 1
    BY <2>1, <2>3
  <2>5. Popped(s, size, p, t)
    <3>1. s \in Seq(Int) /\ size = Len(s) /\ t = DropSecond(s)
      BY <1>1, <1>2, <1>7, <2>2
    <3>2. size >= 2
      BY <2>1
    <3>3. /\ Len(t) = size - 1
          /\ \A i \in 1 .. size - 1 : t[i] = IF i < size - 1 THEN s[i] ELSE s[i + 1]
      BY <3>1, <3>2, SecondPopped
    <3> QED
      BY <2>3, <3>3 DEF Popped
  <2>6. tree[s[p]] = s[q]
    BY <2>1, <2>3
  <2>7. \A w \in 1 .. n : Alive(w, s, m) => tree[w] # s[p]
    <3>1. \A w \in 1 .. n : Alive(w, s, m) => tree[w] # s[size - 1]
      BY <1>3, <1>4, <1>5, <2>1, LeftSafe, ZenonT(30)
    <3> QED
      BY <2>3, <3>1
  <2>8. Reducible(tree, t, m)
    BY <1>3, <1>4, <1>5, <2>4, <2>5, <2>6, <2>7, ArcKeeps
  <2> QED
    BY <1>1, <1>2, <1>7, <2>2, <2>8
<1>10. CASE gold = "RA"
  <2>1. /\ size >= 2 /\ tree[s[size]] = s[size - 1]
        /\ \A v \in m + 1 .. n : tree[v] # s[size]
    BY <1>6, <1>10 DEF Choice
  <2>2. e.stack = DropTop(s) /\ e.buffer = c.buffer
    BY <1>2, <1>10 DEF ParseStep
  <2>3. PICK p, q : p = size /\ q = size - 1
    OBVIOUS
  <2>4. p \in 2 .. size /\ q \in 1 .. size /\ p >= size - 1 /\ q >= size - 1
    BY <2>1, <2>3
  <2>5. Popped(s, size, p, t)
    <3>1. s \in Seq(Int) /\ size = Len(s) /\ t = DropTop(s)
      BY <1>1, <1>2, <1>7, <2>2
    <3>2. size >= 2
      BY <2>1
    <3>3. /\ Len(t) = size - 1
          /\ \A i \in 1 .. size - 1 : t[i] = s[i]
      BY <3>1, <3>2, TopPopped
    <3>4. \A i \in 1 .. size - 1 : i < p
      BY <2>3
    <3> QED
      BY <3>3, <3>4 DEF Popped
  <2>6. tree[s[p]] = s[q]
    BY <2>1, <2>3
  <2>7. \A w \in 1 .. n : Alive(w, s, m) => tree[w] # s[p]
    <3>1. \A w \in 1 .. n : Alive(w, s, m) => tree[w] # s[size]
      BY <1>3, <1>4, <2>1, RightSafe, ZenonT(30)
    <3> QED
      BY <2>3, <3>1
  <2>8. Reducible(tree, t, m)
    BY <1>3, <1>4, <1>5, <2>4, <2>5, <2>6, <2>7, ArcKeeps
  <2> QED
    BY <1>1, <1>2, <1>7, <2>2, <2>8
<1>11. gold \in Transitions
  BY LegalIsTransition
<1> QED
  BY <1>8, <1>9, <1>10, <1>11 DEF Transitions

\* Lines 986-1002 do to the three lists what parse_step does to a parse.
LEMMA TurnIsParseStep ==
    ASSUME LoopInv, Lists, TakeTransition
    PROVE  /\ Now' = ParseStep(Now, Gold)
           /\ Gold \in LegalLabels(stack, buf)
           /\ Answers(Gold, Now, Example)
           /\ examples' = examples /\ id' = id /\ step' = step + 1
           /\ instances' = Append(instances, Gold)
<1>1. Gold \in LegalLabels(stack, buf)
  BY AssertionFollows DEF AssertionHolds, TakeTransition
<1>2. Gold \in Transitions
  BY <1>1, LegalIsTransition
<1>3. Now' = ParseStep(Now, Gold)
  <2>1. Now' = [stack |-> stack', buffer |-> buf', deps |-> arcs']
    BY DEF Now
  <2>2. Now.stack = stack /\ Now.buffer = buf /\ Now.deps = arcs
    BY DEF Now
  <2>3. CASE Gold = "S"
    BY <2>1, <2>2, <2>3 DEF TakeTransition, ParseStep
  <2>4. CASE Gold = "LA"
    BY <2>1, <2>2, <2>4 DEF TakeTransition, ParseStep
  <2>5. CASE Gold = "RA"
    BY <2>1, <2>2, <2>5 DEF TakeTransition, ParseStep
  <2> QED
    BY <1>2, <2>3, <2>4, <2>5 DEF Transitions
<1>4. Answers(Gold, Now, Example)
  BY DEF Answers, Now, Gold
<1> QED
  BY <1>1, <1>3, <1>4 DEF TakeTransition

LEMMA TurnWorks ==
    ASSUME LoopInv, Lists, Working, TakeTransition
    PROVE  Working'
<1>1. Busy /\ Example' = Example /\ Len(examples) \in Nat
  BY LenProperties DEF TakeTransition, InnerLoop, Example, LoopInv, StackShape
<1>2. id \in 1 .. Len(examples)
  BY <1>1 DEF Busy, LoopInv, StackShape
<1>3. PICK tree, n : /\ tree = Example /\ n \in Nat \ {0} /\ n = Len(tree)
                     /\ \A w \in 1 .. n : tree[w] \in 0 .. n
  BY <1>2, ExampleIs DEF Example
<1>4. PICK c, e, gold : c = Now /\ e = Now' /\ gold = Gold
  OBVIOUS
<1>5. /\ c.stack = stack /\ c.buffer = buf /\ c.deps = arcs
      /\ e.stack = stack' /\ e.buffer = buf' /\ e.deps = arcs'
  BY <1>4 DEF Now
<1>6. /\ e = ParseStep(c, gold) /\ gold \in LegalLabels(c.stack, c.buffer)
      /\ Answers(gold, c, tree) /\ gold \in Transitions
  BY <1>3, <1>4, <1>5, TurnIsParseStep, LegalIsTransition
<1>7. Sound(c, n) /\ c.stack[1] = Root
  BY <1>1, <1>3, <1>4, <1>5 DEF Working, OnTheWay, LoopInv, StackShape
<1>8. Sound(e, n)
  BY <1>3, <1>6, <1>7, StepSound
<1>9. IsProjective(tree) => Reducible(tree, e.stack, n - Len(e.buffer))
  <2>1. SUFFICES ASSUME IsProjective(tree)
                 PROVE  Reducible(tree, e.stack, n - Len(e.buffer))
    OBVIOUS
  <2>2. Reducible(tree, c.stack, n - Len(c.buffer))
    BY <1>1, <1>3, <1>4, <2>1 DEF Working, OnTheWay
  <2> QED
    BY <1>3, <1>6, <1>7, <2>1, <2>2, OracleKeeps
<1>10. \A j \in 1 .. Len(e.deps) : tree[e.deps[j][2]] = e.deps[j][1]
  <2>1. PICK size, arcsFound \in Nat :
          /\ size = Len(c.stack) /\ arcsFound = Len(c.deps)
          /\ c.deps \in Seq(Nat \X Nat) /\ \A i \in 1 .. size : c.stack[i] \in Int
    BY <1>3, <1>7, SoundTypes
  <2>2. \A j \in 1 .. arcsFound : tree[c.deps[j][2]] = c.deps[j][1]
    BY <1>1, <1>3, <1>4, <2>1 DEF Working, OnTheWay
  <2>3. CASE gold = "S"
    BY <1>6, <2>1, <2>2, <2>3 DEF ParseStep
  <2>4. CASE gold \in {"LA", "RA"}
    <3>1. PICK arc : /\ arc = IF gold = "LA" THEN <<Top(c.stack), Second(c.stack)>>
                                              ELSE <<Second(c.stack), Top(c.stack)>>
      OBVIOUS
    <3>2. tree[arc[2]] = arc[1]
      <4>1. gold = "LA" => tree[Second(c.stack)] = Top(c.stack)
        BY <1>6 DEF Answers, GetOracle, NoAnswer
      <4>2. gold = "RA" => tree[Top(c.stack)] = Second(c.stack)
        BY <1>6 DEF Answers, GetOracle, NoAnswer
      <4> QED
        BY <2>4, <3>1, <4>1, <4>2
    <3>3. e.deps = Append(c.deps, arc)
      BY <1>6, <2>4, <3>1 DEF ParseStep
    <3>4. arc \in Nat \X Nat
      <4>1. size >= 2
        BY <1>6, <2>1, <2>4 DEF LegalLabels
      <4>2. \A i \in 1 .. size : c.stack[i] \in Nat
        BY <1>5, <2>1, ElementOfSeq DEF LoopInv, StackShape
      <4>3. c.stack[size] \in Nat /\ c.stack[size - 1] \in Nat
        BY <4>1, <4>2
      <4>4. Top(c.stack) \in Nat /\ Second(c.stack) \in Nat
        BY <2>1, <4>3 DEF Top, Second
      <4> QED
        BY <3>1, <4>4
    <3>5. /\ Len(e.deps) = Len(c.deps) + 1
          /\ \A j \in 1 .. Len(c.deps) : e.deps[j] = c.deps[j]
          /\ e.deps[Len(c.deps) + 1] = arc
      BY <2>1, <3>3, <3>4, AppendProperties
    <3>6. /\ Len(e.deps) = arcsFound + 1
          /\ \A j \in 1 .. arcsFound : e.deps[j] = c.deps[j]
          /\ e.deps[arcsFound + 1] = arc
      BY <2>1, <3>5
    <3>7. \A j \in 1 .. arcsFound + 1 : j \in 1 .. arcsFound \/ j = arcsFound + 1
      OBVIOUS
    <3> QED
      BY <2>2, <3>2, <3>6, <3>7
  <2> QED
    BY <1>6, <2>3, <2>4 DEF Transitions
<1>11. Len(instances') = step'
  <2>1. instances' = Append(instances, gold) /\ step' = step + 1
    BY <1>4, TurnIsParseStep
  <2>2. instances \in Seq(Transitions) /\ Len(instances) = step
    BY <1>1 DEF Working, Lists
  <2>3. Len(instances') = Len(instances) + 1
    BY <1>6, <2>1, <2>2, AppendProperties
  <2> QED
    BY <2>1, <2>2, <2>3
<1>12. OnTheWay(e, tree, n)
  BY <1>8, <1>9, <1>10 DEF OnTheWay
<1> QED
  BY <1>1, <1>3, <1>4, <1>11, <1>12 DEF Working

\* The for loop's else: every word has found its head.
LEMMA AllFound ==
    ASSUME LoopInv, Lists, Working, Busy, ~InnerLoop
    PROVE  Finished(Now) /\ IsProjective(Example) /\ Len(instances) >= 1
<1>1. id \in 1 .. Len(examples)
  <2>1. Len(examples) \in Nat
    BY LenProperties DEF LoopInv, StackShape
  <2> QED
    BY <2>1 DEF Busy, LoopInv, StackShape
<1>2. PICK tree, n : /\ tree = Example /\ n \in Nat \ {0} /\ n = Len(tree)
                     /\ \A w \in 1 .. n : tree[w] \in 0 .. n
  BY <1>1, ExampleIs DEF Example
<1>3. PICK size, left \in Nat : size = Len(stack) /\ left = Len(buf) /\ size >= 1
  BY LenProperties DEF LoopInv, StackShape
<1>4. step \in Nat /\ step >= 2 * n /\ step + 2 * left + size = 2 * n + 1
  <2>1. step \in Nat
    BY DEF LoopInv, StackShape
  <2>2. ~ (step < 2 * n)
    BY <1>2 DEF InnerLoop
  <2>3. step + 2 * left + size = 2 * n + 1
    BY <1>2, <1>3 DEF LoopInv, TurnsLeft
  <2> QED
    BY <1>2, <2>1, <2>2, <2>3
<1>n. size >= 1
  BY <1>3
<1>5. size = 1 /\ left = 0 /\ step >= 1
  BY <1>2, <1>4, <1>n
<1>6. Finished(Now)
  <2>1. buf = <<>>
    BY <1>3, <1>5, EmptySeq DEF LoopInv, StackShape
  <2> QED
    BY <1>3, <1>5, <2>1 DEF Finished, Now
<1>7. OnTheWay(Now, tree, n) /\ Sound(Now, n)
  BY <1>2 DEF Working, OnTheWay
<1>8. PICK c : c = Now
  OBVIOUS
<1>9. Len(c.deps) = n
  BY <1>2, <1>6, <1>7, <1>8, FinishedIsComplete
<1>10. \A j \in 1 .. n : tree[c.deps[j][2]] = c.deps[j][1]
  BY <1>7, <1>8, <1>9 DEF OnTheWay
<1>11. IsProjective(tree)
  <2>1. Len(tree) = n /\ Sound(c, n) /\ Finished(c)
    BY <1>2, <1>6, <1>7, <1>8
  <2> QED
    BY <1>2, <1>10, <2>1, ArcsAreTree
<1>12. Len(instances) = step
  BY DEF Working
<1> QED
  BY <1>2, <1>5, <1>6, <1>11, <1>12

\* Lines 987-989: the oracle gives up on nothing that is projective.
LEMMA OnlyOthersGivenUp ==
    ASSUME LoopInv, Lists, Working, InnerLoop, Gold = NoAnswer
    PROVE  ~ IsProjective(Example)
<1>1. Busy /\ id \in 1 .. Len(examples)
  <2>1. Len(examples) \in Nat
    BY LenProperties DEF LoopInv, StackShape
  <2> QED
    BY <2>1 DEF InnerLoop, Busy, LoopInv, StackShape
<1>2. PICK tree, n : /\ tree = Example /\ n \in Nat \ {0} /\ n = Len(tree)
                     /\ \A w \in 1 .. n : tree[w] \in 0 .. n
  BY <1>1, ExampleIs DEF Example
<1>3. SUFFICES ASSUME IsProjective(tree) PROVE FALSE
  BY <1>2
<1>c. PICK c : c = Now
  OBVIOUS
<1>4. c = Now /\ c.stack = stack /\ c.buffer = buf
  BY <1>c DEF Now
<1>5. /\ Sound(c, n) /\ c.stack[1] = Root
      /\ Reducible(tree, c.stack, n - Len(c.buffer))
  BY <1>1, <1>2, <1>3, <1>4 DEF Working, OnTheWay, LoopInv, StackShape
<1>6. PICK size, words \in Nat : size = Len(c.stack) /\ words = Len(c.buffer) /\ words <= n
  BY <1>2, <1>5, SoundTypes
<1>7. PICK s, m : s = c.stack /\ m = n - words
  OBVIOUS
<1>8. m \in Nat /\ m <= n
  BY <1>2, <1>6, <1>7
<1>9. HasSeen(c, n, s, size, m) /\ Setting(tree, n, s, size, m) /\ Reducible(tree, s, m)
  BY <1>2, <1>3, <1>5, <1>6, <1>7, <1>8 DEF HasSeen, Setting, Sound
<1>10. Answers(NoAnswer, c, tree)
  BY <1>2, <1>4 DEF Answers, Gold
<1>11. Choice(NoAnswer, tree, n, s, size, m)
  BY <1>2, <1>5, <1>8, <1>9, <1>10, OracleIs
<1>12. /\ size >= 2 /\ m = n
       /\ size >= 3 => tree[s[size - 1]] # s[size]
       /\ tree[s[size]] # s[size - 1]
  <2>1. m = n => m + 1 .. n = {}
    BY <1>2
  <2> QED
    BY <1>11, <2>1 DEF Choice
<1> QED
  BY <1>2, <1>8, <1>9, <1>12, OracleAnswers

LEMMA EarlierOnes ==
    ASSUME Lists
    PROVE  \A j \in 1 .. Len(allInstances) : allInstances[j].example \in Nat
<1>1. PICK R : R = [example : Nat, gold : Transitions]
  OBVIOUS
<1>2. allInstances \in Seq(R)
  BY <1>1 DEF Lists
<1>3. \A j \in 1 .. Len(allInstances) : allInstances[j] \in R
  BY <1>2, ElementOfSeq
<1> QED
  BY <1>1, <1>3

LEMMA GiveUpKeeps ==
    ASSUME OracleInv, GiveUp
    PROVE  Working' /\ OnlyEarlier' /\ KeptIffProjective'
<1>1. /\ LoopInv /\ Lists /\ Working /\ OnlyEarlier /\ KeptIffProjective
      /\ id \in Nat /\ id + 1 \in Nat \ {0}
  BY DEF OracleInv, LoopInv, StackShape
<1>2. Busy /\ allInstances' = allInstances /\ examples' = examples /\ id' = id + 1
  BY DEF GiveUp, InnerLoop, Reset
<1>4. Working'
  BY <1>1, ResetWorks DEF GiveUp
<1>5. ~ IsProjective(Example)
  BY <1>1, OnlyOthersGivenUp DEF GiveUp
<1>e. \A j \in 1 .. Len(allInstances) :
        allInstances[j].example < id /\ allInstances[j].example \in Nat
  BY <1>1, EarlierOnes DEF OnlyEarlier
<1>6. OnlyEarlier'
  BY <1>1, <1>2, <1>e DEF OnlyEarlier
<1>7. ~ Kept(id)
  BY <1>1 DEF OnlyEarlier, Kept
<1>8. KeptIffProjective'
  BY <1>1, <1>2, <1>5, <1>7 DEF KeptIffProjective, Kept, Example
<1> QED
  BY <1>4, <1>6, <1>8

\* Line 1002: what the for loop's else adds.
LEMMA Extended ==
    ASSUME Lists, id \in Nat, Keep
    PROVE  \E old, new \in Nat :
             /\ old = Len(allInstances) /\ new = Len(instances)
             /\ Len(allInstances') = old + new
             /\ \A j \in 1 .. old : allInstances'[j] = allInstances[j]
             /\ \A j \in old + 1 .. old + new :
                  allInstances'[j].example = id /\ allInstances'[j].gold = instances[j - old]
<1>1. PICK n \in Nat : n = Len(instances)
  BY LenProperties DEF Lists
<1>2. PICK R : R = [example : Nat, gold : Transitions]
  OBVIOUS
<1>3. PICK before, all, kept :
        /\ before = allInstances /\ all = allInstances'
        /\ kept = [k \in 1 .. n |-> [example |-> id, gold |-> instances[k]]]
  OBVIOUS
<1>4. kept \in Seq(R) /\ Len(kept) = n
  <2>1. \A k \in 1 .. n : instances[k] \in Transitions
    BY <1>1, ElementOfSeq DEF Lists
  <2>2. \A k \in 1 .. n : [example |-> id, gold |-> instances[k]] \in R
    BY <1>2, <2>1
  <2>3. kept \in [1 .. n -> R]
    BY <1>3, <2>2
  <2> QED
    BY <2>3, IsASeq, LenProperties
<1>5. before \in Seq(R) /\ all = before \o kept
  BY <1>1, <1>2, <1>3 DEF Lists, Keep
<1>6. PICK old \in Nat : old = Len(before)
  BY <1>5, LenProperties
<1>7. /\ Len(all) = old + n
      /\ \A j \in 1 .. old + n : all[j] = IF j <= old THEN before[j] ELSE kept[j - old]
  <2>1. /\ Len(all) = Len(before) + Len(kept)
        /\ \A j \in 1 .. Len(before) + Len(kept) :
             all[j] = IF j <= Len(before) THEN before[j] ELSE kept[j - Len(before)]
    BY <1>4, <1>5, ConcatProperties
  <2> QED
    BY <1>4, <1>6, <2>1
<1>8. \A j \in 1 .. old : all[j] = before[j]
  BY <1>7
<1>9. ASSUME NEW j \in old + 1 .. old + n
      PROVE  all[j].example = id /\ all[j].gold = instances[j - old]
  <2>1. all[j] = kept[j - old] /\ j - old \in 1 .. n
    BY <1>7
  <2> QED
    BY <1>3, <2>1
<1> QED
  BY <1>1, <1>3, <1>6, <1>7, <1>8, <1>9, ZenonT(40)

LEMMA KeepKeeps ==
    ASSUME OracleInv, Keep
    PROVE  Working' /\ OnlyEarlier' /\ KeptIffProjective'
<1>1. /\ LoopInv /\ Lists /\ Working /\ OnlyEarlier /\ KeptIffProjective
      /\ id \in Nat /\ id + 1 \in Nat \ {0}
  BY DEF OracleInv, LoopInv, StackShape
<1>2. Busy /\ examples' = examples /\ id' = id + 1
  BY DEF Keep, Reset
<1>4. Working'
  BY <1>1, ResetWorks DEF Keep
<1>5. IsProjective(Example) /\ Len(instances) >= 1
  BY <1>1, <1>2, AllFound DEF Keep
<1>6. PICK all : all = allInstances'
  OBVIOUS
<1>9. PICK old, n \in Nat :
        /\ old = Len(allInstances) /\ n = Len(instances)
        /\ Len(all) = old + n
        /\ \A j \in 1 .. old : all[j] = allInstances[j]
        /\ \A j \in old + 1 .. old + n : all[j].example = id /\ all[j].gold = instances[j - old]
  BY <1>1, <1>6, Extended
<1>n. n >= 1
  BY <1>5, <1>9
<1>10. /\ all = allInstances' /\ Len(all) = old + n
       /\ \A j \in 1 .. old : all[j] = allInstances[j]
       /\ \A j \in old + 1 .. old + n : all[j].example = id
  BY <1>6, <1>9
<1>11. /\ \A j \in 1 .. old + n : j \in 1 .. old \/ j \in old + 1 .. old + n
       /\ \A j \in 1 .. old : j \in 1 .. old + n
       /\ old + 1 \in 1 .. old + n /\ old + 1 \in old + 1 .. old + n
  BY <1>n
<1>12. \A j \in 1 .. old : allInstances[j].example < id /\ allInstances[j].example \in Nat
  BY <1>1, <1>9, EarlierOnes DEF OnlyEarlier
<1>13. OnlyEarlier'
  <2>1. \A j \in 1 .. old + n : all[j].example < id + 1
    BY <1>1, <1>10, <1>11, <1>12
  <2> QED
    BY <1>2, <1>10, <2>1 DEF OnlyEarlier
<1>14. ASSUME NEW k \in 1 .. Len(examples), k < id + 1
       PROVE  (\E j \in 1 .. old + n : all[j].example = k) <=> IsProjective(examples[k])
  <2>1. CASE k = id
    <3>1. all[old + 1].example = k
      BY <1>10, <1>11, <2>1
    <3> QED
      BY <1>5, <1>11, <2>1, <3>1 DEF Example
  <2>2. CASE k # id
    <3>1. k < id
      BY <1>1, <1>14, <2>2
    <3>2. Kept(k) <=> IsProjective(examples[k])
      BY <1>1, <3>1 DEF KeptIffProjective
    <3>3. Kept(k) <=> \E j \in 1 .. old : allInstances[j].example = k
      BY <1>9 DEF Kept
    <3>4. (\E j \in 1 .. old + n : all[j].example = k)
            <=> \E j \in 1 .. old : allInstances[j].example = k
      BY <1>10, <1>11, <2>2
    <3> QED
      BY <3>2, <3>3, <3>4
  <2> QED
    BY <2>1, <2>2
<1>15. KeptIffProjective'
  <2>1. \A k \in 1 .. Len(examples) : k < id + 1 =>
          ((\E j \in 1 .. Len(all) : all[j].example = k) <=> IsProjective(examples[k]))
    BY <1>10, <1>14
  <2>2. \A k : Kept(k)' <=> \E j \in 1 .. Len(all) : all[j].example = k
    BY <1>10 DEF Kept
  <2>3. \A k \in 1 .. Len(examples)' : k < id' => (Kept(k)' <=> IsProjective(examples'[k]))
    BY <1>2, <2>1, <2>2
  <2> QED
    BY <2>3 DEF KeptIffProjective, Kept
<1> QED
  BY <1>4, <1>13, <1>15

LEMMA OracleInit == Init => OracleInv
<1> SUFFICES ASSUME Init PROVE OracleInv
  OBVIOUS
<1>1. LoopInv /\ Lists
  BY InitInv, ListsInit
<1>2. /\ id = 1 /\ step = 0 /\ stack = <<Root>> /\ arcs = <<>> /\ instances = <<>>
      /\ allInstances = <<>>
      /\ buf = IF examples # <<>> THEN [w \in Words(examples[1]) |-> w] ELSE <<>>
  BY DEF Init, CIInit
<1>5. Working
  <2>1. SUFFICES ASSUME Busy
                 PROVE  OnTheWay(Now, Example, Len(Example)) /\ Len(instances) = step
    BY DEF Working
  <2>2. 1 \in 1 .. Len(examples) /\ examples # <<>>
    <3>1. Len(examples) \in Nat
      BY <1>1, LenProperties DEF LoopInv, StackShape
    <3> QED
      BY <1>2, <2>1, <3>1 DEF Busy
  <2>3. PICK tree, n : /\ tree = examples[1] /\ n \in Nat \ {0} /\ n = Len(tree)
                       /\ \A w \in 1 .. n : tree[w] \in 0 .. n
    BY <1>1, <2>2, ExampleIs
  <2>4. PICK c : c = Now
    OBVIOUS
  <2>5. Fresh(c, n)
    BY <1>2, <2>2, <2>3, <2>4 DEF Words, Now, Fresh
  <2>6. OnTheWay(c, tree, n)
    BY <2>3, <2>5, Begins
  <2>7. Len(instances) = step /\ Example = tree
    BY <1>2, <2>3 DEF Example
  <2> QED
    BY <2>3, <2>4, <2>6, <2>7
<1>6. OnlyEarlier /\ KeptIffProjective
  <2>1. \A k \in 1 .. Len(examples) : ~ (k < 1)
    OBVIOUS
  <2>2. Len(allInstances) = 0
    BY <1>2
  <2> QED
    BY <1>2, <2>1, <2>2 DEF OnlyEarlier, KeptIffProjective
<1> QED
  BY <1>1, <1>5, <1>6 DEF OracleInv

LEMMA OracleNext == OracleInv /\ [Next]_vars => OracleInv'
<1> SUFFICES ASSUME OracleInv, [Next]_vars PROVE OracleInv'
  OBVIOUS
<1>1. LoopInv /\ Lists /\ Working /\ OnlyEarlier /\ KeptIffProjective
  BY DEF OracleInv
<1>2. LoopInv' /\ Lists'
  BY <1>1, NextInv, ListsNext
<1>3. CASE TakeTransition
  <2>1. Working'
    BY <1>1, <1>3, TurnWorks
  <2>2. OnlyEarlier' /\ KeptIffProjective'
    BY <1>1, <1>3 DEF TakeTransition, OnlyEarlier, KeptIffProjective, Kept
  <2> QED
    BY <1>2, <2>1, <2>2 DEF OracleInv
<1>4. CASE GiveUp
  BY <1>2, <1>4, GiveUpKeeps DEF OracleInv
<1>5. CASE Keep
  BY <1>2, <1>5, KeepKeeps DEF OracleInv
<1>6. CASE Train
  <2>1. examples' = <<>> /\ id' = 1 /\ allInstances' = <<>>
    BY <1>6 DEF Train
  <2>2. Len(examples') = 0 /\ Len(allInstances') = 0
    BY <2>1
  <2>3. Working' /\ OnlyEarlier' /\ KeptIffProjective'
    BY <2>1, <2>2 DEF Working, Busy, OnlyEarlier, KeptIffProjective
  <2> QED
    BY <1>2, <2>3 DEF OracleInv
<1>7. CASE Evaluate \/ UNCHANGED vars
  <2>1. UNCHANGED ciVars
    BY <1>7 DEF Evaluate, vars
  <2>2. Working' /\ OnlyEarlier' /\ KeptIffProjective'
    BY <1>1, <2>1
    DEF ciVars, Working, OnTheWay, Busy, Now, Example, OnlyEarlier, KeptIffProjective, Kept
  <2> QED
    BY <1>2, <2>2 DEF OracleInv
<1> QED
  BY <1>3, <1>4, <1>5, <1>6, <1>7 DEF Next, Preprocess, CINext

\* Lines 978-1005: a sentence contributes instances exactly when its heads are a
\* projective tree.
THEOREM ProjectiveAreKept == Spec => []KeptIffProjective
<1>1. OracleInv => KeptIffProjective
  BY DEF OracleInv
<1> QED
  BY <1>1, OracleInit, OracleNext, PTL DEF Spec

\* Lines 986-1002: create_instances moves its three lists as parse_step, for
\* which the network is trained, will move those of a parse.
THEOREM TurnsAreParseSteps == Spec => [][TakeTransition => Now' = ParseStep(Now, Gold)]_vars
<1>1. LoopInv /\ Lists => [TakeTransition => Now' = ParseStep(Now, Gold)]_vars
  BY TurnIsParseStep
<1>2. Spec => []Lists
  BY ListsInit, ListsNext, TurnsAreEnough, PTL DEF Spec
<1> QED
  BY <1>1, <1>2, TurnsAreEnough, PTL
-----------------------------------------------------------------------------
(* PartialParse.parse *)

\* f is the configurations of c's first k steps.
Follows(f, c, ts, k) ==
    /\ f[0] = c
    /\ \A i \in 1 .. k : f[i] = ParseStep(f[i - 1], ts[i])

Steps(f, c, ts, k) ==
    f = [i \in 0 .. k |-> IF i = 0 THEN c ELSE ParseStep(f[i - 1], ts[i])]

LEMMA StepsFollow ==
    ASSUME NEW k \in Nat, NEW c, NEW ts, NEW f
    PROVE  /\ Steps(f, c, ts, k) => Follows(f, c, ts, k)
           /\ Follows(f, c, ts, k) =>
                \E g : Steps(g, c, ts, k) /\ \A i \in 0 .. k : g[i] = f[i]
<1>1. ASSUME Steps(f, c, ts, k)
      PROVE  Follows(f, c, ts, k)
  <2>1. \A i \in 0 .. k : f[i] = IF i = 0 THEN c ELSE ParseStep(f[i - 1], ts[i])
    BY <1>1 DEF Steps
  <2>2. 0 \in 0 .. k /\ \A i \in 1 .. k : i \in 0 .. k /\ i # 0
    OBVIOUS
  <2> QED
    BY <2>1, <2>2 DEF Follows
<1>2. ASSUME Follows(f, c, ts, k)
      PROVE  \E g : Steps(g, c, ts, k) /\ \A i \in 0 .. k : g[i] = f[i]
  <2>1. PICK g : g = [i \in 0 .. k |-> f[i]]
    OBVIOUS
  <2>2. \A i \in 0 .. k : g[i] = f[i]
    BY <2>1
  <2>3. ASSUME NEW i \in 0 .. k
        PROVE  f[i] = IF i = 0 THEN c ELSE ParseStep(g[i - 1], ts[i])
    <3>1. CASE i = 0
      BY <1>2, <3>1 DEF Follows
    <3>2. CASE i # 0
      <4>1. i \in 1 .. k /\ i - 1 \in 0 .. k
        BY <3>2
      <4> QED
        BY <1>2, <2>2, <3>2, <4>1 DEF Follows
    <3> QED
      BY <3>1, <3>2
  <2>4. g = [i \in 0 .. k |-> IF i = 0 THEN c ELSE ParseStep(g[i - 1], ts[i])]
    BY <2>1, <2>3
  <2> QED
    BY <2>2, <2>4 DEF Steps
<1> QED
  BY <1>1, <1>2

LEMMA StepsExist ==
    ASSUME NEW n \in Nat, NEW c, NEW ts
    PROVE  \E f : Follows(f, c, ts, n)
<1> DEFINE T == {k \in Nat : ~ \E f : Follows(f, c, ts, k)}
<1>1. ASSUME T # {}
      PROVE  FALSE
  <2>1. PICK k \in T : \A i \in T : k <= i
    BY <1>1, Least
  <2>2. k \in Nat /\ ~ \E f : Follows(f, c, ts, k)
    OBVIOUS
  <2> HIDE DEF T
  <2>3. k # 0
    <3>1. ASSUME k = 0 PROVE FALSE
      <4>1. PICK f : f = [i \in 0 .. 0 |-> c]
        OBVIOUS
      <4>2. f[0] = c /\ 1 .. 0 = {}
        BY <4>1
      <4> QED
        BY <2>2, <3>1, <4>2 DEF Follows
    <3> QED
      BY <3>1
  <2>4. PICK j \in Nat : k = j + 1
    BY <2>2, <2>3
  <2>5. j \notin T
    BY <2>1, <2>4
  <2>6. PICK f : Follows(f, c, ts, j)
    BY <2>5 DEF T
  <2>7. PICK g : g = [i \in 0 .. k |-> IF i <= j THEN f[i] ELSE ParseStep(f[j], ts[k])]
    OBVIOUS
  <2>8. (\A i \in 0 .. j : g[i] = f[i]) /\ g[k] = ParseStep(f[j], ts[k])
    BY <2>4, <2>7
  <2>9. ASSUME NEW i \in 1 .. k
        PROVE  g[i] = ParseStep(g[i - 1], ts[i])
    <3>1. CASE i = k
      <4>1. i - 1 = j /\ j \in 0 .. j
        BY <2>4, <3>1
      <4> QED
        BY <2>8, <3>1, <4>1
    <3>2. CASE i # k
      <4>1. i \in 1 .. j /\ i \in 0 .. j /\ i - 1 \in 0 .. j
        BY <2>4, <3>2
      <4> QED
        BY <2>6, <2>8, <4>1 DEF Follows
    <3> QED
      BY <3>1, <3>2
  <2>10. g[0] = c
    BY <2>6, <2>8 DEF Follows
  <2>11. Follows(g, c, ts, k)
    BY <2>9, <2>10 DEF Follows
  <2> QED
    BY <2>2, <2>11
<1> QED
  BY <1>1

LEMMA StepsAgree ==
    ASSUME NEW n \in Nat, NEW c, NEW ts, NEW us, \A i \in 1 .. n : ts[i] = us[i],
           NEW f, NEW g, Follows(f, c, ts, n), Follows(g, c, us, n)
    PROVE  f[n] = g[n]
<1> DEFINE T == {k \in 0 .. n : f[k] # g[k]}
<1>1. ASSUME T # {}
      PROVE  FALSE
  <2>0. T \subseteq Nat
    OBVIOUS
  <2>1. PICK k \in T : \A i \in T : k <= i
    BY <1>1, <2>0, Least
  <2>2. k \in 0 .. n /\ f[k] # g[k]
    OBVIOUS
  <2> HIDE DEF T
  <2>3. k # 0
    BY <2>2 DEF Follows
  <2>4. k \in 1 .. n /\ k - 1 \in 0 .. n
    BY <2>2, <2>3
  <2>5. k - 1 \notin T
    BY <2>1, <2>4
  <2>6. f[k - 1] = g[k - 1]
    BY <2>4, <2>5 DEF T
  <2> QED
    BY <2>2, <2>4, <2>6 DEF Follows
<1> QED
  BY <1>1

\* What parse does is to take one step after the other.
LEMMA ParseAllIs ==
    ASSUME NEW n \in Nat, NEW c, NEW ts, n = Len(ts)
    PROVE  \E f : Follows(f, c, ts, n) /\ ParseAll(c, ts) = f[n]
<1>1. \E g : Steps(g, c, ts, n)
  BY StepsExist, StepsFollow
<1>2. PICK f : f = CHOOSE g : Steps(g, c, ts, n)
  OBVIOUS
<1>3. Steps(f, c, ts, n)
  BY <1>1, <1>2
<1>4. ParseAll(c, ts) = f[n]
  BY <1>2 DEF ParseAll, Steps
<1> QED
  BY <1>3, <1>4, StepsFollow

LEMMA ParseNone ==
    ASSUME NEW c
    PROVE  ParseAll(c, <<>>) = c
<1>1. PICK f : Follows(f, c, <<>>, 0) /\ ParseAll(c, <<>>) = f[0]
  BY ParseAllIs
<1> QED
  BY <1>1 DEF Follows

LEMMA ParseOneMore ==
    ASSUME NEW c, NEW ts \in Seq(Transitions), NEW t \in Transitions
    PROVE  ParseAll(c, Append(ts, t)) = ParseStep(ParseAll(c, ts), t)
<1>1. PICK n \in Nat : n = Len(ts)
  BY LenProperties
<1>2. PICK us : us = Append(ts, t)
  OBVIOUS
<1>3. Len(us) = n + 1 /\ (\A i \in 1 .. n : us[i] = ts[i]) /\ us[n + 1] = t
  BY <1>1, <1>2, AppendProperties
<1>4. PICK f : Follows(f, c, ts, n) /\ ParseAll(c, ts) = f[n]
  BY <1>1, ParseAllIs
<1>5. PICK g : Follows(g, c, us, n + 1) /\ ParseAll(c, us) = g[n + 1]
  BY <1>3, ParseAllIs
<1>6. Follows(g, c, us, n)
  BY <1>5 DEF Follows
<1>7. f[n] = g[n]
  BY <1>3, <1>4, <1>6, StepsAgree
<1>8. g[n + 1] = ParseStep(g[n], us[n + 1])
  <2>1. n + 1 \in 1 .. n + 1 /\ (n + 1) - 1 = n
    OBVIOUS
  <2> QED
    BY <1>5, <2>1 DEF Follows
<1> QED
  BY <1>2, <1>3, <1>4, <1>5, <1>7, <1>8

-----------------------------------------------------------------------------
SameArcs(d, e) ==
    /\ d \in Seq(Int \X Int) /\ Len(d) = Len(e)
    /\ \A j \in 1 .. Len(e) : <<Numbered(d[j][1]), d[j][2]>> = e[j]

(* The parse a writes the root as PartialParse does, b as create_instances
   does. *)
SameButRoot(a, b) ==
    /\ a.buffer = b.buffer
    /\ a.stack \in Seq(Int) /\ Len(a.stack) = Len(b.stack)
    /\ \A i \in 1 .. Len(b.stack) : Numbered(a.stack[i]) = b.stack[i]
    /\ SameArcs(a.deps, b.deps)

LEMMA OneMore ==
    ASSUME NEW S, NEW s \in Seq(S), NEW x \in S, NEW r, r = Append(s, x)
    PROVE  /\ Len(r) = Len(s) + 1
           /\ \A j \in 1 .. Len(s) : r[j] = s[j]
           /\ r[Len(s) + 1] = x
  BY AppendProperties

\* An arc between the words at p and q, of which the one at p leaves.
LEMMA SameArc ==
    ASSUME NEW a, NEW b \in Seq(Nat \X Nat), SameArcs(a, b),
           NEW x \in Int, NEW y \in Int, y # RootString,
           NEW head \in Nat, NEW dep \in Nat, Numbered(x) = head, Numbered(y) = dep,
           NEW d, d = Append(a, <<x, y>>), NEW e, e = Append(b, <<head, dep>>)
    PROVE  SameArcs(d, e)
<1>1. PICK k \in Nat : k = Len(a) /\ k = Len(b) /\ a \in Seq(Int \X Int)
  BY LenProperties DEF SameArcs
<1>2. PICK P, Q : P = Int \X Int /\ Q = Nat \X Nat
  OBVIOUS
<1>3. PICK u, v : u = <<x, y>> /\ v = <<head, dep>>
  OBVIOUS
<1>4. u \in P /\ v \in Q /\ u[1] = x /\ u[2] = y
  BY <1>2, <1>3
<1>5. a \in Seq(P) /\ b \in Seq(Q) /\ d = Append(a, u) /\ e = Append(b, v)
  BY <1>1, <1>2, <1>3
<1>6. /\ d \in Seq(P) /\ Len(d) = Len(a) + 1
      /\ \A j \in 1 .. Len(a) : d[j] = a[j]
      /\ d[Len(a) + 1] = u
  <2>1. a \in Seq(P) /\ u \in P /\ d = Append(a, u)
    BY <1>4, <1>5
  <2>2. d \in Seq(P)
    BY <2>1, AppendProperties, SMTT(20)
  <2>3. /\ Len(d) = Len(a) + 1
        /\ \A j \in 1 .. Len(a) : d[j] = a[j]
        /\ d[Len(a) + 1] = u
    BY <2>1, OneMore, ZenonT(40)
  <2> QED
    BY <2>2, <2>3
<1>7. /\ Len(e) = Len(b) + 1
      /\ \A j \in 1 .. Len(b) : e[j] = b[j]
      /\ e[Len(b) + 1] = v
  <2>1. b \in Seq(Q) /\ v \in Q /\ e = Append(b, v)
    BY <1>4, <1>5
  <2> QED
    BY <2>1, OneMore, ZenonT(40)
<1>8. /\ Len(d) = k + 1 /\ Len(e) = k + 1 /\ d[k + 1] = u /\ e[k + 1] = v
      /\ \A j \in 1 .. k : d[j] = a[j] /\ e[j] = b[j]
  BY <1>1, <1>6, <1>7
<1>9. <<Numbered(u[1]), u[2]>> = v
  <2>1. y = dep
    BY DEF Numbered
  <2> QED
    BY <1>3, <1>4, <2>1
<1>10. \A j \in 1 .. k + 1 : j \in 1 .. k \/ j = k + 1
  OBVIOUS
<1>11. \A j \in 1 .. k : <<Numbered(a[j][1]), a[j][2]>> = b[j]
  BY <1>1 DEF SameArcs
<1>12. \A j \in 1 .. k + 1 : <<Numbered(d[j][1]), d[j][2]>> = e[j]
  BY <1>8, <1>9, <1>10, <1>11
<1> QED
  BY <1>2, <1>6, <1>8, <1>12 DEF SameArcs

\* create_instances and parse_step agree on every legal transition.
LEMMA SameStep ==
    ASSUME NEW n \in Nat, NEW b, Sound(b, n), b.stack[1] = Root, b.stack \in Seq(Nat),
           NEW t, t \in LegalLabels(b.stack, b.buffer),
           NEW a, SameButRoot(a, b)
    PROVE  SameButRoot(ParseStep(a, t), ParseStep(b, t))
<1>1. PICK size, words, arcsFound \in Nat :
        /\ size = Len(b.stack) /\ words = Len(b.buffer) /\ arcsFound = Len(b.deps)
        /\ size >= 1 /\ words <= n /\ arcsFound + size + words = n + 1
        /\ b.stack \in Seq(Int) /\ b.buffer \in Seq(Nat) /\ b.deps \in Seq(Nat \X Nat)
  BY SoundTypes
<1>2. PICK s, r : s = a.stack /\ r = b.stack
  OBVIOUS
<1>3. /\ s \in Seq(Int) /\ r \in Seq(Int) /\ r \in Seq(Nat) /\ Len(s) = size /\ Len(r) = size
      /\ \A i \in 1 .. size : Numbered(s[i]) = r[i]
      /\ r[1] = Root
  BY <1>1, <1>2 DEF SameButRoot
<1>4. /\ \A i \in 1 .. size : r[i] \in Nat /\ s[i] \in Int
      /\ \A i \in 2 .. size : r[i] # Root
  <2>1. \A i \in 1 .. size : r[i] \in Nat /\ s[i] \in Int
    BY <1>3, ElementOfSeq
  <2>2. StackSound(r, n - words)
    BY <1>1, <1>2 DEF Sound
  <2>3. \A i \in 2 .. size : r[1] < r[i]
    BY <1>3, <2>2 DEF StackSound
  <2> QED
    BY <1>3, <2>1, <2>3 DEF Root
<1>5. \A i \in 2 .. size : s[i] # RootString
  <2>1. \A i \in 2 .. size : i \in 1 .. size
    OBVIOUS
  <2> QED
    BY <1>3, <1>4, <2>1 DEF Numbered
<1>6. t \in Transitions
  BY LegalIsTransition
<1>7. PICK x, y : x = ParseStep(a, t) /\ y = ParseStep(b, t)
  OBVIOUS
<1>8. CASE t = "S"
  <2>1. words >= 1
    <3>1. b.buffer # <<>>
      BY <1>8 DEF LegalLabels
    <3> QED
      BY <1>1, <3>1, EmptySeq
  <2>2. PICK w \in Nat : w = Head(b.buffer)
    <3>1. b.buffer \in Seq(Nat) /\ b.buffer # <<>>
      BY <1>1, <1>8 DEF LegalLabels
    <3> QED
      BY <3>1, HeadTailProperties
  <2>3. /\ x.stack = Append(s, w) /\ x.buffer = Tail(a.buffer) /\ x.deps = a.deps
        /\ y.stack = Append(r, w) /\ y.buffer = Tail(b.buffer) /\ y.deps = b.deps
    BY <1>2, <1>7, <1>8, <2>2 DEF ParseStep, SameButRoot
  <2>4. PICK p, q : p = Append(s, w) /\ q = Append(r, w)
    OBVIOUS
  <2>5. /\ p \in Seq(Int) /\ Len(p) = size + 1 /\ p[size + 1] = w
        /\ \A i \in 1 .. size : p[i] = s[i]
    <3>1. /\ p \in Seq(Int) /\ Len(p) = Len(s) + 1 /\ p[Len(s) + 1] = w
          /\ \A i \in 1 .. Len(s) : p[i] = s[i]
      BY <1>3, <2>4, AppendProperties
    <3> QED
      BY <1>3, <3>1
  <2>6. /\ Len(q) = size + 1 /\ q[size + 1] = w /\ \A i \in 1 .. size : q[i] = r[i]
    <3>1. /\ Len(q) = Len(r) + 1 /\ q[Len(r) + 1] = w /\ \A i \in 1 .. Len(r) : q[i] = r[i]
      BY <1>3, <2>4, AppendProperties
    <3> QED
      BY <1>3, <3>1
  <2>7. Numbered(w) = w
    BY DEF Numbered, RootString
  <2>8. \A i \in 1 .. size + 1 : i \in 1 .. size \/ i = size + 1
    OBVIOUS
  <2>9. \A i \in 1 .. size + 1 : Numbered(p[i]) = q[i]
    BY <1>3, <2>5, <2>6, <2>7, <2>8
  <2>10. SameButRoot(x, y)
    BY <2>3, <2>4, <2>5, <2>6, <2>9 DEF SameButRoot
  <2> QED
    BY <1>7, <2>10
<1>9. CASE t = "LA"
  <2>1. size > 2
    BY <1>1, <1>9 DEF LegalLabels
  <2>2. PICK p, q : p = DropSecond(s) /\ q = DropSecond(r)
    OBVIOUS
  <2>s. size >= 2
    BY <2>1
  <2>p. /\ p \in Seq(Int) /\ Len(p) = size - 1
        /\ \A i \in 1 .. size - 1 : p[i] = IF i < size - 1 THEN s[i] ELSE s[i + 1]
    BY <1>3, <2>s, <2>2, SecondPopped
  <2>q. /\ Len(q) = size - 1
        /\ \A i \in 1 .. size - 1 : q[i] = IF i < size - 1 THEN r[i] ELSE r[i + 1]
    BY <1>3, <2>s, <2>2, SecondPopped
  <2>3. /\ p \in Seq(Int) /\ Len(p) = size - 1 /\ Len(q) = size - 1
        /\ \A i \in 1 .. size - 1 : /\ p[i] = IF i < size - 1 THEN s[i] ELSE s[i + 1]
                                    /\ q[i] = IF i < size - 1 THEN r[i] ELSE r[i + 1]
    BY <2>p, <2>q
  <2>4. \A i \in 1 .. size - 1 : Numbered(p[i]) = q[i]
    <3>1. \A i \in 1 .. size - 1 : i \in 1 .. size /\ i + 1 \in 1 .. size
      OBVIOUS
    <3> QED
      BY <1>3, <2>3, <3>1
  <2>5. size \in 1 .. size /\ size - 1 \in 2 .. size /\ size - 1 \in 1 .. size
    BY <2>1
  <2>6. PICK top, second \in Int : top = s[size] /\ second = s[size - 1] /\ second # RootString
    BY <1>4, <1>5, <2>5
  <2>7. PICK head, dep \in Nat : head = r[size] /\ dep = r[size - 1]
    BY <1>4, <2>5
  <2>8. Numbered(top) = head /\ Numbered(second) = dep
    BY <1>3, <2>5, <2>6, <2>7
  <2>9. /\ x.stack = p /\ x.buffer = a.buffer /\ x.deps = Append(a.deps, <<top, second>>)
        /\ y.stack = q /\ y.buffer = b.buffer /\ y.deps = Append(b.deps, <<head, dep>>)
    BY <1>2, <1>3, <1>7, <1>9, <2>2, <2>6, <2>7 DEF ParseStep, Top, Second
  <2>10. SameArcs(x.deps, y.deps)
    <3>1. b.deps \in Seq(Nat \X Nat) /\ SameArcs(a.deps, b.deps)
      BY <1>1 DEF SameButRoot
    <3> QED
      BY <2>6, <2>7, <2>8, <2>9, <3>1, SameArc, ZenonT(40)
  <2>11. SameButRoot(x, y)
    BY <2>3, <2>4, <2>9, <2>10 DEF SameButRoot
  <2> QED
    BY <1>7, <2>11
<1>10. CASE t = "RA"
  <2>1. size >= 2
    BY <1>1, <1>10 DEF LegalLabels
  <2>2. PICK p, q : p = DropTop(s) /\ q = DropTop(r)
    OBVIOUS
  <2>p. p \in Seq(Int) /\ Len(p) = size - 1 /\ \A i \in 1 .. size - 1 : p[i] = s[i]
    BY <1>3, <2>1, <2>2, TopPopped
  <2>q. Len(q) = size - 1 /\ \A i \in 1 .. size - 1 : q[i] = r[i]
    BY <1>3, <2>1, <2>2, TopPopped
  <2>3. /\ p \in Seq(Int) /\ Len(p) = size - 1 /\ Len(q) = size - 1
        /\ \A i \in 1 .. size - 1 : p[i] = s[i] /\ q[i] = r[i]
    BY <2>p, <2>q
  <2>4. \A i \in 1 .. size - 1 : Numbered(p[i]) = q[i]
    <3>1. \A i \in 1 .. size - 1 : i \in 1 .. size
      OBVIOUS
    <3> QED
      BY <1>3, <2>3, <3>1
  <2>5. size \in 2 .. size /\ size \in 1 .. size /\ size - 1 \in 1 .. size
    BY <2>1
  <2>6. PICK top, second \in Int : top = s[size] /\ second = s[size - 1] /\ top # RootString
    BY <1>4, <1>5, <2>5
  <2>7. PICK head, dep \in Nat : head = r[size - 1] /\ dep = r[size]
    BY <1>4, <2>5
  <2>8. Numbered(second) = head /\ Numbered(top) = dep
    BY <1>3, <2>5, <2>6, <2>7
  <2>9. /\ x.stack = p /\ x.buffer = a.buffer /\ x.deps = Append(a.deps, <<second, top>>)
        /\ y.stack = q /\ y.buffer = b.buffer /\ y.deps = Append(b.deps, <<head, dep>>)
    BY <1>2, <1>3, <1>7, <1>10, <2>2, <2>6, <2>7 DEF ParseStep, Top, Second
  <2>10. SameArcs(x.deps, y.deps)
    <3>1. b.deps \in Seq(Nat \X Nat) /\ SameArcs(a.deps, b.deps)
      BY <1>1 DEF SameButRoot
    <3> QED
      BY <2>6, <2>7, <2>8, <2>9, <3>1, SameArc, ZenonT(40)
  <2>11. SameButRoot(x, y)
    BY <2>3, <2>4, <2>9, <2>10 DEF SameButRoot
  <2> QED
    BY <1>7, <2>11
<1> QED
  BY <1>6, <1>8, <1>9, <1>10 DEF Transitions

LEMMA ReplayBegins ==
    ASSUME NEW n \in Nat \ {0}, NEW c, Fresh(c, n)
    PROVE  SameButRoot(ParseAll(NewParse(n), <<>>), c)
<1>1. PICK p : p = NewParse(n)
  OBVIOUS
<1>2. ParseAll(NewParse(n), <<>>) = p
  BY <1>1, ParseNone
<1>3. /\ p.stack = <<RootString>> /\ p.deps = <<>> /\ p.buffer = c.buffer
      /\ c.stack = <<Root>> /\ c.deps = <<>>
  BY <1>1 DEF NewParse, Fresh
<1>4. /\ <<RootString>> \in Seq(Int) /\ Len(<<RootString>>) = 1 /\ Len(<<Root>>) = 1
      /\ Numbered(<<RootString>>[1]) = <<Root>>[1]
  BY DEF RootString, Root, Numbered
<1>5. \A i \in 1 .. 1 : i = 1
  OBVIOUS
<1>6. SameArcs(<<>>, <<>>)
  BY DEF SameArcs
<1> QED
  BY <1>2, <1>3, <1>4, <1>5, <1>6 DEF SameButRoot

(* The parse found the gold arcs, and nothing is left to parse. *)
FoundGold(end, tree) ==
    /\ Finished(end)
    /\ {<<Numbered(d[1]), d[2]>> : d \in Range(end.deps)} = GoldArcs(tree)

LEMMA ReplayEnds ==
    ASSUME NEW n \in Nat \ {0}, NEW tree, n = Len(tree),
           NEW c, OnTheWay(c, tree, n), Finished(c),
           NEW end, SameButRoot(end, c)
    PROVE  FoundGold(end, tree)
<1>1. Sound(c, n) /\ \A j \in 1 .. Len(c.deps) : tree[c.deps[j][2]] = c.deps[j][1]
  BY DEF OnTheWay
<1>2. /\ Len(c.deps) = n /\ ArcsSound(c.stack, c.deps, n)
      /\ \A w \in 1 .. n : \E j \in 1 .. n : c.deps[j][2] = w
  BY <1>1, FinishedIsComplete
<1>3. PICK d, e : d = end.deps /\ e = c.deps
  OBVIOUS
<1>4. e \in Seq(Nat \X Nat)
  BY <1>1, <1>3 DEF Sound, Configuration
<1>5. /\ Len(e) = n
      /\ \A j \in 1 .. n : e[j] \in Nat \X Nat /\ e[j][2] \in 1 .. n /\ tree[e[j][2]] = e[j][1]
      /\ \A w \in 1 .. n : \E j \in 1 .. n : e[j][2] = w
  BY <1>1, <1>2, <1>3, <1>4, ElementOfSeq DEF ArcsSound
<1>6. /\ d \in Seq(Int \X Int) /\ Len(d) = n
      /\ \A j \in 1 .. n : <<Numbered(d[j][1]), d[j][2]>> = e[j]
  BY <1>3, <1>5 DEF SameButRoot, SameArcs
<1>7. Range(d) = {d[j] : j \in 1 .. n}
  <2>1. DOMAIN d = 1 .. n
    BY <1>6, LenProperties
  <2> QED
    BY <2>1 DEF Range
<1>8. ASSUME NEW j \in 1 .. n
      PROVE  e[j] = <<tree[e[j][2]], e[j][2]>>
  <2>1. e[j] \in Nat \X Nat /\ tree[e[j][2]] = e[j][1]
    BY <1>5
  <2>2. PICK u \in Nat, v \in Nat : e[j] = <<u, v>>
    BY <2>1
  <2>3. e[j][1] = u /\ e[j][2] = v
    BY <2>2
  <2> QED
    BY <2>1, <2>2, <2>3
<1>9. PICK found, of, gold :
        /\ found = {<<Numbered(x[1]), x[2]>> : x \in Range(d)}
        /\ of = {e[j] : j \in 1 .. n}
        /\ gold = {<<tree[w], w>> : w \in 1 .. n}
  OBVIOUS
<1>f. found = of
  <2>1. \A j \in 1 .. n : <<Numbered(d[j][1]), d[j][2]>> = e[j]
    BY <1>6
  <2>2. ASSUME NEW y \in found
        PROVE  y \in of
    <3>1. PICK x \in Range(d) : y = <<Numbered(x[1]), x[2]>>
      BY <1>9
    <3>2. PICK j \in 1 .. n : x = d[j]
      BY <1>7
    <3>3. y = e[j]
      BY <2>1, <3>1, <3>2
    <3> QED
      BY <1>9, <3>3
  <2>3. ASSUME NEW y \in of
        PROVE  y \in found
    <3>1. PICK j \in 1 .. n : y = e[j]
      BY <1>9
    <3>2. PICK x : x = d[j] /\ x \in Range(d)
      BY <1>7
    <3>3. y = <<Numbered(x[1]), x[2]>>
      BY <2>1, <3>1, <3>2
    <3> QED
      BY <1>9, <3>2, <3>3
  <2> QED
    BY <2>2, <2>3
<1>10. of = gold
  <2>1. ASSUME NEW j \in 1 .. n
        PROVE  \E w \in 1 .. n : e[j] = <<tree[w], w>>
    BY <1>5, <1>8
  <2>2. ASSUME NEW w \in 1 .. n
        PROVE  \E j \in 1 .. n : e[j] = <<tree[w], w>>
    <3>1. PICK j \in 1 .. n : e[j][2] = w
      BY <1>5
    <3> QED
      BY <1>8, <3>1
  <2>3. \A y : y \in of => y \in gold
    BY <1>9, <2>1
  <2>4. \A y : y \in gold => y \in of
    BY <1>9, <2>2
  <2> QED
    BY <2>3, <2>4
<1>11. GoldArcs(tree) = gold
  BY <1>9 DEF GoldArcs, Words
<1>12. Finished(end)
  <2>1. Len(end.stack) = 1 /\ end.buffer = c.buffer
    BY DEF SameButRoot, Finished
  <2> QED
    BY <2>1 DEF Finished
<1> QED
  BY <1>3, <1>9, <1>f, <1>10, <1>11, <1>12 DEF FoundGold

Golds(all, first, last) == [m \in 1 .. last - first + 1 |-> all[first + m - 1].gold]

(* The transitions that all has for the example k, in one piece, parse tree. *)
Replayed(k, all, tree) ==
    \E first, last \in 1 .. Len(all) :
      /\ \A j \in 1 .. Len(all) : all[j].example = k <=> j \in first .. last
      /\ FoundGold(ParseAll(NewParse(Len(tree)), Golds(all, first, last)), tree)

LEMMA ReplayedIs ==
    /\ InstancesReplay <=>
         \A k \in 1 .. Len(examples) :
           k < id /\ Kept(k) => Replayed(k, allInstances, examples[k])
    /\ InstancesReplay' <=>
         \A k \in 1 .. Len(examples') :
           k < id' /\ Kept(k)' => Replayed(k, allInstances', examples'[k])
  BY DEF InstancesReplay, Replayed, Golds, Recorded, FoundGold

LEMMA ReplayedStays ==
    ASSUME InstancesReplay, UNCHANGED <<examples, id, allInstances>>
    PROVE  InstancesReplay'
  BY ReplayedIs DEF Kept

\* more is all, and then instances of other examples than k.
OthersFollow(k, all, more) ==
    \E old, new \in Nat :
      /\ old = Len(all) /\ Len(more) = old + new
      /\ \A j \in 1 .. old : more[j] = all[j]
      /\ \A j \in old + 1 .. old + new : more[j].example # k

LEMMA StillReplayed ==
    ASSUME NEW k, NEW all, NEW more, OthersFollow(k, all, more),
           NEW tree, Replayed(k, all, tree)
    PROVE  Replayed(k, more, tree)
<1>0. PICK old, new \in Nat :
        /\ old = Len(all) /\ Len(more) = old + new
        /\ \A j \in 1 .. old : more[j] = all[j]
        /\ \A j \in old + 1 .. old + new : more[j].example # k
  BY DEF OthersFollow
<1>1. PICK first \in 1 .. old, last \in 1 .. old :
        /\ \A j \in 1 .. old : all[j].example = k <=> j \in first .. last
        /\ FoundGold(ParseAll(NewParse(Len(tree)), Golds(all, first, last)), tree)
  BY <1>0 DEF Replayed
<1>2. first \in 1 .. old + new /\ last \in 1 .. old + new
  OBVIOUS
<1>3. ASSUME NEW j \in 1 .. old + new
      PROVE  more[j].example = k <=> j \in first .. last
  <2>1. CASE j \in 1 .. old
    BY <1>0, <1>1, <2>1
  <2>2. CASE j \notin 1 .. old
    <3>1. j \in old + 1 .. old + new /\ j \notin first .. last
      BY <2>2
    <3> QED
      BY <1>0, <3>1
  <2> QED
    BY <2>1, <2>2
<1>4. \A m \in 1 .. last - first + 1 : first + m - 1 \in 1 .. old
  OBVIOUS
<1>5. Golds(more, first, last) = Golds(all, first, last)
  BY <1>0, <1>4 DEF Golds
<1> QED
  BY <1>0, <1>1, <1>2, <1>3, <1>5 DEF Replayed

LEMMA NowReplayed ==
    ASSUME NEW old \in Nat, NEW new \in Nat, new >= 1, NEW more, Len(more) = old + new,
           NEW k, \A j \in 1 .. old : more[j].example # k,
           NEW ts \in Seq(Transitions), Len(ts) = new,
           \A j \in old + 1 .. old + new :
             more[j].example = k /\ more[j].gold = ts[j - old],
           NEW tree, FoundGold(ParseAll(NewParse(Len(tree)), ts), tree)
    PROVE  Replayed(k, more, tree)
<1>1. PICK first, last : first = old + 1 /\ last = old + new
  OBVIOUS
<1>2. first \in 1 .. old + new /\ last \in 1 .. old + new /\ last - first + 1 = new
  BY <1>1
<1>3. \A j \in 1 .. old + new : more[j].example = k <=> j \in first .. last
  <2>1. \A j \in 1 .. old + new : j \in 1 .. old \/ j \in first .. last
    BY <1>1
  <2>2. \A j \in first .. last : j \notin 1 .. old /\ j \in old + 1 .. old + new
    BY <1>1
  <2> QED
    BY <2>1, <2>2
<1>4. \A m \in 1 .. new : more[first + m - 1].gold = ts[m]
  <2>1. \A m \in 1 .. new : first + m - 1 \in old + 1 .. old + new /\ (first + m - 1) - old = m
    BY <1>1
  <2> QED
    BY <2>1
<1>5. ts = [m \in 1 .. new |-> ts[m]]
  BY LenProperties
<1>6. Golds(more, first, last) = ts
  BY <1>2, <1>4, <1>5 DEF Golds
<1>7. FoundGold(ParseAll(NewParse(Len(tree)), Golds(more, first, last)), tree)
  BY <1>6
<1>8. first \in 1 .. Len(more) /\ last \in 1 .. Len(more)
  BY <1>2
<1>9. \A j \in 1 .. Len(more) : more[j].example = k <=> j \in first .. last
  BY <1>3
<1> QED
  BY <1>7, <1>8, <1>9, Zenon DEF Replayed

-----------------------------------------------------------------------------
\* The instances of the example lead a parse to where create_instances is.
Replaying == Busy => SameButRoot(ParseAll(NewParse(Len(Example)), instances), Now)

ReplayInv == OracleInv /\ Replaying /\ InstancesReplay

LEMMA ReplayReset ==
    ASSUME LoopInv, Lists, NEW k \in Nat \ {0}, Reset(k)
    PROVE  Replaying'
<1>1. /\ id' = k /\ stack' = <<Root>> /\ arcs' = <<>> /\ instances' = <<>>
      /\ examples' = examples
      /\ buf' = IF k <= Len(examples) THEN [w \in Words(examples[k]) |-> w] ELSE <<>>
  BY DEF Reset
<1>2. CASE k <= Len(examples)
  <2>1. k \in 1 .. Len(examples)
    <3>1. Len(examples) \in Nat
      BY LenProperties DEF LoopInv, StackShape
    <3> QED
      BY <1>2, <3>1
  <2>2. PICK tree, n : tree = examples[k] /\ n \in Nat \ {0} /\ n = Len(tree)
    BY <2>1, ExampleIs
  <2>3. PICK c : c = Now'
    OBVIOUS
  <2>4. Fresh(c, n)
    BY <1>1, <1>2, <2>2, <2>3 DEF Words, Now, Fresh
  <2>5. SameButRoot(ParseAll(NewParse(n), <<>>), c)
    BY <2>2, <2>4, ReplayBegins
  <2>6. Example' = tree
    BY <1>1, <2>2 DEF Example
  <2> QED
    BY <1>1, <2>2, <2>3, <2>5, <2>6 DEF Replaying
<1>3. CASE ~ (k <= Len(examples))
  BY <1>1, <1>3 DEF Replaying, Busy
<1> QED
  BY <1>2, <1>3

LEMMA ReplayTurn ==
    ASSUME OracleInv, Replaying, TakeTransition
    PROVE  Replaying'
<1>1. LoopInv /\ Lists /\ Working /\ Busy
  BY DEF OracleInv, TakeTransition, InnerLoop
<1>2. id \in 1 .. Len(examples)
  <2>1. Len(examples) \in Nat
    BY <1>1, LenProperties DEF LoopInv, StackShape
  <2> QED
    BY <1>1, <2>1 DEF Busy, LoopInv, StackShape
<1>3. PICK tree, n : tree = Example /\ n \in Nat \ {0} /\ n = Len(tree)
  BY <1>1, <1>2, ExampleIs DEF Example
<1>4. PICK c, e, gold : c = Now /\ e = Now' /\ gold = Gold
  OBVIOUS
<1>5. /\ e = ParseStep(c, gold) /\ gold \in LegalLabels(c.stack, c.buffer)
      /\ examples' = examples /\ id' = id /\ instances' = Append(instances, gold)
  BY <1>1, <1>4, TurnIsParseStep DEF Now
<1>6. gold \in Transitions /\ instances \in Seq(Transitions)
  BY <1>1, <1>5, LegalIsTransition DEF Lists
<1>7. Sound(c, n) /\ c.stack[1] = Root /\ c.stack \in Seq(Nat)
  BY <1>1, <1>3, <1>4 DEF Working, OnTheWay, LoopInv, StackShape, Now
<1>8. PICK a : a = ParseAll(NewParse(n), instances)
  OBVIOUS
<1>9. SameButRoot(a, c)
  BY <1>1, <1>3, <1>4, <1>8 DEF Replaying
<1>10. n \in Nat
  BY <1>3
<1>11. SameButRoot(ParseStep(a, gold), e)
  BY <1>5, <1>7, <1>9, <1>10, SameStep
<1>12. ParseAll(NewParse(n), instances') = ParseStep(a, gold)
  BY <1>5, <1>6, <1>8, ParseOneMore
<1>13. Example' = tree
  BY <1>3, <1>5 DEF Example
<1> QED
  BY <1>3, <1>4, <1>11, <1>12, <1>13 DEF Replaying

LEMMA ReplayKeep ==
    ASSUME OracleInv, Replaying, InstancesReplay, Keep
    PROVE  InstancesReplay'
<1>1. LoopInv /\ Lists /\ Working /\ OnlyEarlier /\ id \in Nat /\ Busy
  BY DEF OracleInv, LoopInv, StackShape, Keep
<1>2. examples' = examples /\ id' = id + 1
  BY DEF Keep, Reset
<1>p. PICK before, more : before = allInstances /\ more = allInstances'
  OBVIOUS
<1>3. PICK old, new \in Nat :
        /\ old = Len(before) /\ new = Len(instances)
        /\ Len(more) = old + new
        /\ \A j \in 1 .. old : more[j] = before[j]
        /\ \A j \in old + 1 .. old + new :
             more[j].example = id /\ more[j].gold = instances[j - old]
  BY <1>1, <1>p, Extended
<1>4. Finished(Now) /\ new >= 1
  BY <1>1, <1>3, AllFound DEF Keep
<1>5. id \in 1 .. Len(examples)
  <2>1. Len(examples) \in Nat
    BY <1>1, LenProperties DEF LoopInv, StackShape
  <2> QED
    BY <1>1, <2>1 DEF Busy, LoopInv, StackShape
<1>6. PICK tree, n : tree = Example /\ n \in Nat \ {0} /\ n = Len(tree)
  BY <1>1, <1>5, ExampleIs DEF Example
<1>7. PICK c : c = Now
  OBVIOUS
<1>8. FoundGold(ParseAll(NewParse(n), instances), tree)
  <2>1. PICK end : end = ParseAll(NewParse(n), instances)
    OBVIOUS
  <2>2. OnTheWay(c, tree, n) /\ Finished(c) /\ SameButRoot(end, c)
    BY <1>1, <1>4, <1>6, <1>7, <2>1 DEF Working, Replaying
  <2> QED
    BY <1>6, <2>1, <2>2, ReplayEnds
<1>9. \A j \in 1 .. old : before[j].example < id /\ before[j].example \in Nat
  BY <1>1, <1>3, <1>p, EarlierOnes DEF OnlyEarlier
<1>10. Replayed(id, more, tree)
  <2>1. \A j \in 1 .. old : more[j].example # id
    BY <1>1, <1>3, <1>9
  <2>2. PICK ts, k : ts = instances /\ k = id
    OBVIOUS
  <2>3. ts \in Seq(Transitions) /\ Len(ts) = new
    BY <1>1, <1>3, <2>2 DEF Lists
  <2>4. FoundGold(ParseAll(NewParse(Len(tree)), ts), tree)
    BY <1>6, <1>8, <2>2
  <2>5. /\ Len(more) = old + new /\ new >= 1
        /\ \A j \in 1 .. old : more[j].example # k
        /\ \A j \in old + 1 .. old + new : more[j].example = k /\ more[j].gold = ts[j - old]
    BY <1>3, <1>4, <2>1, <2>2
  <2>6. Replayed(k, more, tree)
    BY <2>3, <2>4, <2>5, NowReplayed
  <2> QED
    BY <2>2, <2>6
<1>11. ASSUME NEW k \in 1 .. Len(examples), k < id + 1, Kept(k)'
       PROVE  Replayed(k, more, examples[k])
  <2>1. CASE k = id
    BY <1>6, <1>10, <2>1 DEF Example
  <2>2. CASE k # id
    <3>1. k < id
      BY <1>1, <1>11, <2>2
    <3>2. PICK j \in 1 .. old + new : more[j].example = k
      BY <1>3, <1>p, <1>11 DEF Kept
    <3>3. j \in 1 .. old
      <4>1. j \notin old + 1 .. old + new
        BY <1>3, <2>2, <3>2
      <4> QED
        BY <4>1
    <3>4. Kept(k)
      BY <1>3, <1>p, <3>2, <3>3 DEF Kept
    <3>5. Replayed(k, before, examples[k])
      BY <1>p, <3>1, <3>4, ReplayedIs
    <3>6. OthersFollow(k, before, more)
      <4>1. \A i \in old + 1 .. old + new : more[i].example # k
        BY <1>3, <2>2
      <4>2. old = Len(before) /\ Len(more) = old + new /\ \A i \in 1 .. old : more[i] = before[i]
        BY <1>3
      <4> QED
        BY <4>1, <4>2, Zenon DEF OthersFollow
    <3> QED
      BY <3>5, <3>6, StillReplayed
  <2> QED
    BY <2>1, <2>2
<1>12. \A k \in 1 .. Len(examples') :
         k < id' /\ Kept(k)' => Replayed(k, allInstances', examples'[k])
  BY <1>2, <1>p, <1>11
<1> QED
  BY <1>12, ReplayedIs

LEMMA ReplayGiveUp ==
    ASSUME OracleInv, InstancesReplay, GiveUp
    PROVE  InstancesReplay'
<1>1. OnlyEarlier /\ id \in Nat
  BY DEF OracleInv, LoopInv, StackShape
<1>2. allInstances' = allInstances /\ examples' = examples /\ id' = id + 1
  BY DEF GiveUp, Reset
<1>3. ~ Kept(id)
  BY <1>1 DEF OnlyEarlier, Kept
<1>4. \A k \in 1 .. Len(examples') :
        k < id' /\ Kept(k)' => Replayed(k, allInstances', examples'[k])
  BY <1>1, <1>2, <1>3, ReplayedIs DEF Kept
<1> QED
  BY <1>4, ReplayedIs

LEMMA ReplayInit == Init => ReplayInv
<1> SUFFICES ASSUME Init PROVE ReplayInv
  OBVIOUS
<1>1. OracleInv
  BY OracleInit
<1>2. LoopInv /\ Lists
  BY <1>1 DEF OracleInv
<1>3. /\ id = 1 /\ stack = <<Root>> /\ arcs = <<>> /\ instances = <<>>
      /\ buf = IF examples # <<>> THEN [w \in Words(examples[1]) |-> w] ELSE <<>>
  BY DEF Init, CIInit
<1>4. Replaying
  <2>1. SUFFICES ASSUME Busy
                 PROVE  SameButRoot(ParseAll(NewParse(Len(Example)), instances), Now)
    BY DEF Replaying
  <2>2. 1 \in 1 .. Len(examples) /\ examples # <<>>
    <3>1. Len(examples) \in Nat
      BY <1>2, LenProperties DEF LoopInv, StackShape
    <3> QED
      BY <1>3, <2>1, <3>1 DEF Busy
  <2>3. PICK tree, n : tree = examples[1] /\ n \in Nat \ {0} /\ n = Len(tree)
    BY <1>2, <2>2, ExampleIs
  <2>4. PICK c : c = Now
    OBVIOUS
  <2>5. Fresh(c, n)
    BY <1>3, <2>2, <2>3, <2>4 DEF Words, Now, Fresh
  <2>6. SameButRoot(ParseAll(NewParse(n), <<>>), c)
    BY <2>3, <2>5, ReplayBegins
  <2> QED
    BY <1>3, <2>3, <2>4, <2>6 DEF Example
<1>5. InstancesReplay
  <2>1. \A k \in 1 .. Len(examples) : ~ (k < 1)
    OBVIOUS
  <2> QED
    BY <1>3, <2>1 DEF InstancesReplay
<1> QED
  BY <1>1, <1>4, <1>5 DEF ReplayInv

LEMMA ReplayNext == ReplayInv /\ [Next]_vars => ReplayInv'
<1> SUFFICES ASSUME ReplayInv, [Next]_vars PROVE ReplayInv'
  OBVIOUS
<1>1. OracleInv /\ Replaying /\ InstancesReplay /\ LoopInv /\ Lists /\ id + 1 \in Nat \ {0}
  BY DEF ReplayInv, OracleInv, LoopInv, StackShape
<1>2. OracleInv'
  BY <1>1, OracleNext
<1>3. CASE TakeTransition
  <2>1. Replaying'
    BY <1>1, <1>3, ReplayTurn
  <2>2. InstancesReplay'
    BY <1>1, <1>3, ReplayedStays DEF TakeTransition
  <2> QED
    BY <1>2, <2>1, <2>2 DEF ReplayInv
<1>4. CASE GiveUp
  <2>1. Replaying'
    BY <1>1, <1>4, ReplayReset DEF GiveUp
  <2> QED
    BY <1>1, <1>2, <1>4, <2>1, ReplayGiveUp DEF ReplayInv
<1>5. CASE Keep
  <2>1. Replaying'
    BY <1>1, <1>5, ReplayReset DEF Keep
  <2> QED
    BY <1>1, <1>2, <1>5, <2>1, ReplayKeep DEF ReplayInv
<1>6. CASE Train
  <2>1. Len(examples') = 0 /\ id' = 1
    BY <1>6 DEF Train
  <2>2. Replaying' /\ InstancesReplay'
    BY <2>1 DEF Replaying, Busy, InstancesReplay
  <2> QED
    BY <1>2, <2>2 DEF ReplayInv
<1>7. CASE Evaluate \/ UNCHANGED vars
  <2>1. UNCHANGED ciVars
    BY <1>7 DEF Evaluate, vars
  <2>2. Replaying'
    BY <1>1, <2>1 DEF ciVars, Replaying, Busy, Now, Example
  <2>3. InstancesReplay'
    BY <1>1, <2>1, ReplayedStays DEF ciVars
  <2> QED
    BY <1>2, <2>2, <2>3 DEF ReplayInv
<1> QED
  BY <1>3, <1>4, <1>5, <1>6, <1>7 DEF Next, Preprocess, CINext

\* Lines 397-408, 978-1005: the instances of a sentence are recorded in one piece,
\* and parse, given them, finds exactly the gold arcs and ends finished.
THEOREM InstancesAreReplayed == Spec => []InstancesReplay
<1>1. ReplayInv => InstancesReplay
  BY DEF ReplayInv
<1> QED
  BY <1>1, ReplayInit, ReplayNext, PTL DEF Spec
=============================================================================

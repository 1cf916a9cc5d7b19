---------------------------- MODULE InstallProofs ----------------------------
(***************************************************************************)
(* Proofs about Install, for any number of commands and any settings.      *)
(*                                                                         *)
(* The invariant is that of the run with what a command on its way relies  *)
(* on: where it may register a hook there is a directory to record in,     *)
(* what it copied is kept while it is still there, what it will write      *)
(* guards (unless it disarms exec hooks of Codex), and says the same of    *)
(* the user's hooks as the file, but for matchers an install widened.      *)
(*                                                                         *)
(* What uninstall leaves is laid end to end by FlattenSeq; that it keeps   *)
(* the user's hooks is shown by induction over the entries: a shortest     *)
(* sequence for which it failed would have a shorter one before it         *)
(* (EverySequence).                                                        *)
(***************************************************************************)
EXTENDS Install, WellFoundedInduction, SequenceTheorems, TLAPS

-----------------------------------------------------------------------------
(* Least elements. *)

LEMMA Least ==
  ASSUME NEW S \in SUBSET Nat, S # {}
  PROVE  \E m \in S : \A n \in S : m <= n
<1>1. PICK m \in S : \A n \in S : <<n, m>> \notin OpToRel(<, Nat)
  BY NatLessThanWellFounded, WFMin
<1>2. \A n \in S : n < m => <<n, m>> \in OpToRel(<, Nat)
  BY Zenon DEF OpToRel
<1>3. \A n \in S : ~ n < m
  BY <1>1, <1>2
<1> QED
  BY <1>3

-----------------------------------------------------------------------------
(* Sequences of sequences, laid end to end. *)

(* The i-th element of g is the first i sequences of ss, end to end. *)
Flattens(g, ss) ==
  g[1] = ss[1] /\ \A i \in 2..Len(ss) : g[i] = g[i - 1] \o ss[i]

LEMMA FlattensExists ==
  ASSUME NEW S, NEW ss \in Seq(Seq(S)), ss # <<>>
  PROVE  \E g \in [1..Len(ss) -> Seq(S)] : Flattens(g, ss)
<1>1. PICK n \in Nat : n = Len(ss) /\ n > 0 /\ \A i \in 1..n : ss[i] \in Seq(S)
  BY EmptySeq
<1> DEFINE Upto(g, m) == g[1] = ss[1] /\ \A i \in 2..m : g[i] = g[i - 1] \o ss[i]
           Bad == {m \in 1..n : ~ \E g \in [1..m -> Seq(S)] : Upto(g, m)}
<1>2. Bad = {}
  <2> SUFFICES ASSUME Bad # {} PROVE FALSE
    OBVIOUS
  <2>1. PICK m \in Bad : \A k \in Bad : m <= k
    <3>1. Bad \in SUBSET Nat
      <4> HIDE DEF Upto
      <4> QED
        BY <1>1
    <3> HIDE DEF Bad
    <3> QED
      BY <3>1, Least
  <2>2. m \in 1..n /\ ~ \E g \in [1..m -> Seq(S)] : Upto(g, m)
    BY <2>1
  <2>3. m # 1
    <3>1. Upto([i \in 1..1 |-> ss[1]], 1) /\ [i \in 1..1 |-> ss[1]] \in [1..1 -> Seq(S)]
      BY <1>1
    <3> QED
      BY <2>2, <3>1
  <2>4. m - 1 \in 1..n /\ m - 1 \notin Bad
    <3> HIDE DEF Upto
    <3>1. m - 1 \in 1..n /\ ~ m <= m - 1
      BY <1>1, <2>2, <2>3
    <3> HIDE DEF Bad
    <3> QED
      BY <2>1, <3>1
  <2>5. PICK g \in [1..(m - 1) -> Seq(S)] : Upto(g, m - 1)
    <3> HIDE DEF Upto
    <3> QED
      BY <2>4
  <2>6. PICK l \in Seq(S) : l = g[m - 1] \o ss[m]
    <3>1. ss[m] \in Seq(S) /\ m - 1 \in 1..(m - 1)
      BY <1>1, <2>2, <2>4
    <3>2. g[m - 1] \in Seq(S)
      BY <2>5, <3>1
    <3> QED
      BY <3>1, <3>2, ConcatProperties
  <2> DEFINE h == [i \in 1..m |-> IF i = m THEN l ELSE g[i]]
  <2>7. h \in [1..m -> Seq(S)]
    BY <1>1, <2>2, <2>3, <2>5, <2>6
  <2>8. Upto(h, m)
    <3>1. h[1] = ss[1]
      BY <1>1, <2>2, <2>3, <2>5
    <3>2. ASSUME NEW i \in 2..m PROVE h[i] = h[i - 1] \o ss[i]
      <4>1. h[i - 1] = g[i - 1]
        BY <2>2, <3>2
      <4>2. CASE i = m
        <5>1. h[m] = l
          BY <2>2
        <5> HIDE DEF h
        <5> QED
          BY <2>6, <4>1, <4>2, <5>1
      <4>3. CASE i # m
        <5>1. i \in 2..(m - 1) /\ h[i] = g[i]
          BY <2>2, <3>2, <4>3
        <5> QED
          BY <2>5, <4>1, <5>1
      <4> QED
        BY <4>2, <4>3
    <3> QED
      BY <3>1, <3>2
  <2> QED
    BY <2>2, <2>7, <2>8
<1>3. PICK g \in [1..n -> Seq(S)] : Upto(g, n)
  <2>1. n \in 1..n /\ n \notin Bad
    <3>1. n \in 1..n
      BY <1>1
    <3> HIDE DEF Bad
    <3> QED
      BY <1>2, <3>1
  <2> HIDE DEF Upto
  <2> QED
    BY <2>1
<1> QED
  BY <1>1, <1>3 DEF Flattens

(* g and h lay sequences end to end, and the first n are the same. *)
Agree(n, ss, longer, g, h) ==
  /\ n \in Nat /\ Len(ss) \in Nat /\ Len(longer) \in Nat
  /\ n \in 1..Len(ss) /\ n \in 1..Len(longer) /\ \A i \in 1..n : ss[i] = longer[i]
  /\ Flattens(g, ss) /\ Flattens(h, longer)

LEMMA FlattensOne ==
  ASSUME NEW n, NEW ss, NEW longer, NEW g, NEW h, Agree(n, ss, longer, g, h)
  PROVE  g[n] = h[n]
<1> USE DEF Agree
<1> DEFINE Bad == {m \in 1..n : g[m] # h[m]}
<1>1. Bad = {}
  <2> SUFFICES ASSUME Bad # {} PROVE FALSE
    OBVIOUS
  <2>1. PICK m \in Bad : \A k \in Bad : m <= k
    <3>1. Bad \in SUBSET Nat
      OBVIOUS
    <3> HIDE DEF Bad
    <3> QED
      BY <3>1, Least
  <2>2. m \in 1..n /\ g[m] # h[m]
    BY <2>1
  <2>3. CASE m = 1
    BY <2>2, <2>3 DEF Flattens
  <2>4. CASE m # 1
    <3>1. m - 1 \in 1..n /\ m - 1 \notin Bad /\ m \in 2..Len(ss) /\ m \in 2..Len(longer)
      BY <2>1, <2>2, <2>4
    <3>2. g[m - 1] = h[m - 1]
      BY <3>1
    <3> QED
      BY <2>2, <3>1, <3>2, ZenonT(30) DEF Flattens
  <2> QED
    BY <2>3, <2>4
<1> QED
  <2>1. n \in 1..n /\ n \notin Bad
    <3> HIDE DEF Bad
    <3> QED
      BY <1>1
  <2> QED
    BY <2>1

LEMMA FlattenedBy ==
  ASSUME NEW S, NEW ss \in Seq(Seq(S)), ss # <<>>
  PROVE  \E g \in [1..Len(ss) -> Seq(S)] : Flattens(g, ss) /\ FlattenSeq(ss) = g[Len(ss)]
<1>1. PICK n \in Nat : n = Len(ss) /\ n > 0
  BY EmptySeq
<1> DEFINE F(f) == [i \in 1..n |-> IF i = 1 THEN ss[i] ELSE f[i - 1] \o ss[i]]
           flatten == CHOOSE f : f = F(f)
<1>2. PICK g \in [1..n -> Seq(S)] : Flattens(g, ss)
  BY <1>1, FlattensExists
<1>3. g = F(g)
  <2>1. ASSUME NEW i \in 1..n PROVE g[i] = IF i = 1 THEN ss[i] ELSE g[i - 1] \o ss[i]
    <3>1. i = 1 \/ i \in 2..n
      OBVIOUS
    <3> QED
      BY <1>1, <1>2, <3>1, Zenon DEF Flattens
  <2> QED
    BY <2>1, Zenon
<1>4. flatten = F(flatten)
  BY <1>3, Zenon
<1>5. FlattenSeq(ss) = flatten[n]
  BY <1>1 DEF FlattenSeq
<1> HIDE DEF flatten
<1>6. Flattens(flatten, ss)
  <2>1. \A i \in 1..n : flatten[i] = IF i = 1 THEN ss[i] ELSE flatten[i - 1] \o ss[i]
    BY <1>4, Zenon
  <2>2. 1 \in 1..n /\ \A i \in 2..n : i \in 1..n /\ i # 1
    BY <1>1
  <2> QED
    BY <1>1, <2>1, <2>2, Zenon DEF Flattens
<1>7. flatten[n] = g[n]
  <2>1. Agree(n, ss, ss, flatten, g)
    BY <1>1, <1>2, <1>6 DEF Agree
  <2> QED
    BY <2>1, FlattensOne, Zenon
<1> QED
  BY <1>1, <1>2, <1>5, <1>7

LEMMA FlattenTypes ==
  ASSUME NEW S, NEW ss \in Seq(Seq(S))
  PROVE  FlattenSeq(ss) \in Seq(S)
<1>1. CASE ss = <<>>
  <2>1. Len(ss) = 0 /\ <<>> \in Seq(S)
    BY <1>1
  <2> QED
    BY <1>1, <2>1 DEF FlattenSeq
<1>2. CASE ss # <<>>
  <2>1. PICK g \in [1..Len(ss) -> Seq(S)] : FlattenSeq(ss) = g[Len(ss)]
    BY <1>2, FlattenedBy
  <2>2. Len(ss) \in 1..Len(ss)
    BY <1>2, EmptySeq
  <2> QED
    BY <2>1, <2>2
<1> QED
  BY <1>1, <1>2

LEMMA FlattenAppend ==
  ASSUME NEW S, NEW ss \in Seq(Seq(S)), NEW s \in Seq(S)
  PROVE  FlattenSeq(Append(ss, s)) = FlattenSeq(ss) \o s
<1>1. PICK longer : longer = Append(ss, s)
  OBVIOUS
<1>2. /\ longer \in Seq(Seq(S)) /\ Len(longer) = Len(ss) + 1 /\ longer[Len(ss) + 1] = s
      /\ \A i \in 1..Len(ss) : longer[i] = ss[i]
      /\ Len(ss) \in Nat /\ longer # <<>>
  BY <1>1, AppendProperties
<1>3. PICK h \in [1..Len(longer) -> Seq(S)] : Flattens(h, longer) /\ FlattenSeq(longer) = h[Len(longer)]
  BY <1>2, FlattenedBy
<1>4. CASE ss = <<>>
  <2>1. FlattenSeq(ss) = <<>> /\ Len(ss) = 0
    BY <1>4 DEF FlattenSeq
  <2>2. FlattenSeq(longer) = s
    BY <1>2, <1>3, <2>1 DEF Flattens
  <2> QED
    BY <1>1, <2>1, <2>2, ConcatEmptySeq
<1>5. CASE ss # <<>>
  <2>1. PICK f \in [1..Len(ss) -> Seq(S)] : Flattens(f, ss) /\ FlattenSeq(ss) = f[Len(ss)]
    BY <1>5, FlattenedBy
  <2>2. Len(ss) > 0
    BY <1>5, EmptySeq
  <2>3. PICK k \in Nat : k = Len(ss)
    BY <1>2
  <2>4. f[k] = h[k]
    <3>1. Agree(k, ss, longer, f, h)
      BY <1>2, <1>3, <2>1, <2>2, <2>3 DEF Agree
    <3> QED
      BY <3>1, FlattensOne, Zenon
  <2>5. h[k + 1] = h[k] \o longer[k + 1]
    <3>1. k + 1 \in 2..Len(longer) /\ (k + 1) - 1 = k
      BY <1>2, <2>2, <2>3
    <3> QED
      BY <1>3, <3>1 DEF Flattens
  <2> QED
    BY <1>1, <1>2, <1>3, <2>1, <2>3, <2>4, <2>5
<1> QED
  BY <1>4, <1>5

(* Induction over sequences. *)
LEMMA EverySequence ==
  ASSUME NEW S, NEW B, <<>> \in B, \A s \in B, x \in S : s \in Seq(S) => Append(s, x) \in B
  PROVE  Seq(S) \subseteq B
<1> SUFFICES ASSUME NEW t \in Seq(S), t \notin B PROVE FALSE
  OBVIOUS
<1> DEFINE Lengths == {n \in Nat : \E s \in Seq(S) : s \notin B /\ Len(s) = n}
<1>1. Lengths # {}
  <2>1. Len(t) \in Nat
    OBVIOUS
  <2> QED
    BY <2>1
<1>2. PICK n \in Lengths : \A k \in Lengths : n <= k
  <2>1. Lengths \in SUBSET Nat
    OBVIOUS
  <2> HIDE DEF Lengths
  <2> QED
    BY <1>1, <2>1, Least
<1>3. PICK s \in Seq(S) : s \notin B /\ Len(s) = n
  BY <1>2
<1>4. s # <<>> /\ n \in Nat /\ n > 0
  BY <1>3, EmptySeq
<1>5. PICK front, x : front \in Seq(S) /\ x \in S /\ s = Append(front, x) /\ Len(front) = n - 1
  <2>1. s = Append(SubSeq(s, 1, n - 1), s[n])
    BY <1>3, <1>4
  <2>2. SubSeq(s, 1, n - 1) \in Seq(S) /\ s[n] \in S /\ Len(SubSeq(s, 1, n - 1)) = n - 1
    BY <1>3, <1>4
  <2> QED
    BY <2>1, <2>2
<1>6. front \in B
  <2>1. n - 1 \in Nat /\ n - 1 \notin Lengths
    BY <1>2, <1>4
  <2> QED
    BY <1>5, <2>1
<1> QED
  BY <1>3, <1>5, <1>6

-----------------------------------------------------------------------------
(* The user's hooks. *)

OneOf(h, kinds) == IF h \in kinds THEN <<h>> ELSE <<>>

Each(hooks, kinds) == [j \in DOMAIN hooks |-> OneOf(hooks[j], kinds)]

LEMMA OneOfTypes ==
  ASSUME NEW kinds \in SUBSET Hook, NEW h \in Hook
  PROVE  OneOf(h, kinds) \in Seq(kinds)
<1>1. CASE h \in kinds
  <2>1. OneOf(h, kinds) = <<h>>
    BY <1>1 DEF OneOf
  <2> QED
    BY <1>1, <2>1
<1>2. CASE h \notin kinds
  <2>1. OneOf(h, kinds) = <<>>
    BY <1>2 DEF OneOf
  <2> QED
    BY <2>1
<1> QED
  BY <1>1, <1>2

LEMMA ThoseTypes ==
  ASSUME NEW kinds \in SUBSET Hook, NEW hooks \in Seq(Hook)
  PROVE  /\ Each(hooks, kinds) \in Seq(Seq(kinds))
         /\ Those(hooks, kinds) = FlattenSeq(Each(hooks, kinds))
         /\ Those(hooks, kinds) \in Seq(kinds) /\ Those(hooks, kinds) \in Seq(Hook)
<1>1. \A h \in Hook : OneOf(h, kinds) \in Seq(kinds)
  BY OneOfTypes
<1>2. Each(hooks, kinds) \in Seq(Seq(kinds))
  <2>1. PICK n \in Nat : n = Len(hooks) /\ DOMAIN hooks = 1..n /\ \A j \in 1..n : hooks[j] \in Hook
    OBVIOUS
  <2>2. Each(hooks, kinds) \in [1..n -> Seq(kinds)]
    BY <1>1, <2>1 DEF Each
  <2> QED
    BY <2>2, SeqDef
<1>3. Those(hooks, kinds) = FlattenSeq(Each(hooks, kinds))
  BY DEF Those, Each, OneOf
<1>4. Those(hooks, kinds) \in Seq(kinds)
  BY <1>2, <1>3, FlattenTypes
<1>5. Seq(kinds) \subseteq Seq(Hook)
  OBVIOUS
<1> QED
  BY <1>2, <1>3, <1>4, <1>5

LEMMA IsAppend ==
  ASSUME NEW S, NEW ss \in Seq(S), NEW longer \in Seq(S), NEW x \in S, NEW n \in Nat,
         Len(ss) = n, Len(longer) = n + 1, longer[n + 1] = x, \A j \in 1..n : longer[j] = ss[j]
  PROVE  longer = Append(ss, x)
<1>1. /\ Append(ss, x) \in Seq(S) /\ Len(Append(ss, x)) = n + 1
      /\ \A j \in 1..(n + 1) : Append(ss, x)[j] = longer[j]
  BY AppendProperties
<1> QED
  BY <1>1, SeqEqual

LEMMA ThoseAppend ==
  ASSUME NEW kinds \in SUBSET Hook, NEW hooks \in Seq(Hook), NEW h \in Hook
  PROVE  Those(Append(hooks, h), kinds) = Those(hooks, kinds) \o OneOf(h, kinds)
<1>1. PICK longer \in Seq(Hook) : longer = Append(hooks, h)
  BY AppendProperties
<1>2. Each(longer, kinds) = Append(Each(hooks, kinds), OneOf(h, kinds))
  <2>1. PICK n \in Nat : /\ n = Len(hooks) /\ DOMAIN hooks = 1..n /\ DOMAIN longer = 1..(n + 1)
                         /\ \A j \in 1..n : longer[j] = hooks[j]
                         /\ longer[n + 1] = h
    BY <1>1, AppendProperties
  <2>2. Each(hooks, kinds) \in Seq(Seq(kinds)) /\ Len(Each(hooks, kinds)) = n
    <3>1. Each(hooks, kinds) \in Seq(Seq(kinds)) /\ DOMAIN Each(hooks, kinds) = 1..n
      BY <2>1, ThoseTypes DEF Each
    <3> QED
      BY <2>1, <3>1
  <2>3. Each(longer, kinds) \in Seq(Seq(kinds)) /\ Len(Each(longer, kinds)) = n + 1
    <3>1. Each(longer, kinds) \in Seq(Seq(kinds)) /\ DOMAIN Each(longer, kinds) = 1..(n + 1)
      BY <1>1, <2>1, ThoseTypes DEF Each
    <3> QED
      BY <2>1, <3>1
  <2>4. OneOf(h, kinds) \in Seq(kinds)
    BY OneOfTypes
  <2>5. \A j \in 1..n : Each(longer, kinds)[j] = Each(hooks, kinds)[j]
    BY <2>1 DEF Each
  <2>6. Each(longer, kinds)[n + 1] = OneOf(h, kinds)
    BY <2>1 DEF Each
  <2> HIDE DEF Each, OneOf
  <2> QED
    BY <2>1, <2>2, <2>3, <2>4, <2>5, <2>6, IsAppend
<1>3. OneOf(h, kinds) \in Seq(kinds)
  BY OneOfTypes
<1>4. Each(hooks, kinds) \in Seq(Seq(kinds)) /\ Those(hooks, kinds) = FlattenSeq(Each(hooks, kinds))
  BY ThoseTypes
<1>5. FlattenSeq(Append(Each(hooks, kinds), OneOf(h, kinds)))
        = FlattenSeq(Each(hooks, kinds)) \o OneOf(h, kinds)
  BY <1>3, <1>4, FlattenAppend
<1>6. Those(longer, kinds) = FlattenSeq(Each(longer, kinds))
  BY <1>1, ThoseTypes
<1> QED
  BY <1>1, <1>2, <1>4, <1>5, <1>6, Zenon

Own(hooks) == Those(hooks, {"user"})

LEMMA Kinds == {"user"} \in SUBSET Hook /\ Others \in SUBSET Hook /\ "user" \in Others
BY DEF Hook, Others

(* Uninstall removes no hook of the user's from an entry. *)
LEMMA OwnKept ==
  ASSUME NEW hooks \in Seq(Hook)
  PROVE  KeptHooks(hooks) \in Seq(Hook) /\ Own(KeptHooks(hooks)) = Own(hooks)
<1> DEFINE B == {u \in Seq(Hook) : Own(KeptHooks(u)) = Own(u)}
<1>1. <<>> \in B
  <2>1. KeptHooks(<<>>) = <<>>
    BY DEF KeptHooks, Those, FlattenSeq
  <2> QED
    BY <2>1
<1>2. ASSUME NEW u \in B, NEW x \in Hook, u \in Seq(Hook) PROVE Append(u, x) \in B
  <2>1. PICK kept \in Seq(Hook) : kept = KeptHooks(u) /\ Own(kept) = Own(u)
    BY Kinds, ThoseTypes DEF KeptHooks
  <2>2. /\ KeptHooks(Append(u, x)) = kept \o OneOf(x, Others)
        /\ Own(Append(u, x)) = Own(u) \o OneOf(x, {"user"})
        /\ Own(u) \in Seq({"user"})
    BY <2>1, Kinds, ThoseAppend, ThoseTypes DEF KeptHooks, Own
  <2>3. CASE x \in Others
    <3>1. kept \o OneOf(x, Others) = Append(kept, x)
      BY <2>3 DEF OneOf
    <3>2. Own(Append(kept, x)) = Own(kept) \o OneOf(x, {"user"})
      BY Kinds, ThoseAppend DEF Own
    <3> QED
      BY <2>1, <2>2, <3>1, <3>2, AppendProperties
  <2>4. CASE x \notin Others
    <3>1. OneOf(x, Others) = <<>> /\ OneOf(x, {"user"}) = <<>>
      BY <2>4, Kinds DEF OneOf
    <3>2. kept \o <<>> = kept /\ Own(u) \o <<>> = Own(u)
      BY <2>2, ConcatEmptySeq
    <3> QED
      BY <2>1, <2>2, <3>1, <3>2, AppendProperties
  <2> QED
    BY <2>3, <2>4
<1> HIDE DEF B
<1>3. Seq(Hook) \subseteq B
  BY <1>1, <1>2, EverySequence
<1> QED
  BY <1>3, Kinds, ThoseTypes DEF B, KeptHooks

(* What is said of each hook of the user's. *)
Tag == [matcher: Matcher, shared: BOOLEAN]

Shared(e) == \E j \in DOMAIN e.hooks : Managed(e.hooks[j])

LEMMA OwnTags ==
  ASSUME NEW e \in Entry
  PROVE  /\ UserHooksOf(e) \in Seq(Tag) /\ Len(UserHooksOf(e)) = Len(Own(e.hooks))
         /\ \A k \in 1..Len(UserHooksOf(e)) :
              UserHooksOf(e)[k] = [matcher |-> e.matcher, shared |-> Shared(e)]
<1>1. PICK n \in Nat : n = Len(Own(e.hooks)) /\ DOMAIN Own(e.hooks) = 1..n
  <2>1. Own(e.hooks) \in Seq({"user"})
    BY Kinds, ThoseTypes DEF Own, Entry
  <2> QED
    BY <2>1
<1>2. UserHooksOf(e) = [k \in 1..n |-> [matcher |-> e.matcher, shared |-> Shared(e)]]
  BY <1>1 DEF UserHooksOf, Own, Shared
<1>3. [matcher |-> e.matcher, shared |-> Shared(e)] \in Tag
  <2>1. e.matcher \in Matcher /\ Shared(e) \in BOOLEAN
    BY DEF Entry, Shared
  <2> QED
    BY <2>1 DEF Tag
<1> QED
  BY <1>1, <1>2, <1>3

(* The user's hooks v are those of u: called for the same tools, except that *)
(* a repair may have widened the matcher of an entry that is shared.         *)
Follows(u, v, wide) ==
  /\ Len(v) = Len(u)
  /\ \A k \in 1..Len(u) : v[k].matcher = u[k].matcher \/ (wide /\ u[k].shared)

LEMMA FollowsItself ==
  ASSUME NEW u, NEW wide
  PROVE  Follows(u, u, wide)
BY DEF Follows

LEMMA FollowsConcat ==
  ASSUME NEW t \in Seq(Tag), NEW u \in Seq(Tag), NEW v \in Seq(Tag), NEW w \in Seq(Tag), NEW wide,
         Follows(t, v, wide), Follows(u, w, wide)
  PROVE  Follows(t \o u, v \o w, wide)
<1>1. PICK m \in Nat, n \in Nat : m = Len(t) /\ m = Len(v) /\ n = Len(u) /\ n = Len(w)
  BY DEF Follows
<1>2. /\ Len(t \o u) = m + n /\ Len(v \o w) = m + n
      /\ \A k \in 1..(m + n) : (t \o u)[k] = IF k <= m THEN t[k] ELSE u[k - m]
      /\ \A k \in 1..(m + n) : (v \o w)[k] = IF k <= m THEN v[k] ELSE w[k - m]
  <2>1. /\ Len(t \o u) = Len(t) + Len(u)
        /\ \A k \in 1..(Len(t) + Len(u)) : (t \o u)[k] = IF k <= Len(t) THEN t[k] ELSE u[k - Len(t)]
    BY ConcatProperties, Zenon
  <2>2. /\ Len(v \o w) = Len(v) + Len(w)
        /\ \A k \in 1..(Len(v) + Len(w)) : (v \o w)[k] = IF k <= Len(v) THEN v[k] ELSE w[k - Len(v)]
    BY ConcatProperties, Zenon
  <2>3. m = Len(t) /\ n = Len(u)
    BY <1>1
  <2>4. m = Len(v) /\ n = Len(w)
    BY <1>1
  <2>5. /\ Len(t \o u) = m + n
        /\ \A k \in 1..(m + n) : (t \o u)[k] = IF k <= m THEN t[k] ELSE u[k - m]
    BY <2>1, <2>3, Zenon
  <2>6. /\ Len(v \o w) = m + n
        /\ \A k \in 1..(m + n) : (v \o w)[k] = IF k <= m THEN v[k] ELSE w[k - m]
    BY <2>2, <2>4, Zenon
  <2> QED
    BY <2>5, <2>6
<1>3. ASSUME NEW k \in 1..(m + n)
      PROVE  (v \o w)[k].matcher = (t \o u)[k].matcher \/ (wide /\ (t \o u)[k].shared)
  <2>1. CASE k <= m
    <3>1. k \in 1..m
      BY <2>1
    <3> QED
      BY <1>1, <1>2, <2>1, <3>1 DEF Follows
  <2>2. CASE ~ k <= m
    <3>1. k - m \in 1..n
      BY <2>2
    <3> QED
      BY <1>1, <1>2, <2>2, <3>1 DEF Follows
  <2> QED
    BY <2>1, <2>2
<1> QED
  BY <1>2, <1>3 DEF Follows

LEMMA FollowsFlat ==
  ASSUME NEW ss \in Seq(Seq(Tag)), NEW tt \in Seq(Seq(Tag)), NEW wide, Len(tt) = Len(ss),
         \A i \in 1..Len(ss) : Follows(ss[i], tt[i], wide)
  PROVE  Follows(FlattenSeq(ss), FlattenSeq(tt), wide)
<1>1. CASE ss = <<>>
  <2>1. tt = <<>>
    BY <1>1, EmptySeq
  <2> QED
    BY <1>1, <2>1, FollowsItself
<1>2. CASE ss # <<>>
  <2>1. PICK n \in Nat : n = Len(ss) /\ n = Len(tt) /\ n > 0 /\ tt # <<>>
    BY <1>2, EmptySeq
  <2>2. PICK g \in [1..n -> Seq(Tag)] : Flattens(g, ss) /\ FlattenSeq(ss) = g[n]
    BY <1>2, <2>1, FlattenedBy
  <2>3. PICK h \in [1..n -> Seq(Tag)] : Flattens(h, tt) /\ FlattenSeq(tt) = h[n]
    BY <2>1, FlattenedBy
  <2> DEFINE Bad == {m \in 1..n : ~ Follows(g[m], h[m], wide)}
  <2>4. Bad = {}
    <3> SUFFICES ASSUME Bad # {} PROVE FALSE
      OBVIOUS
    <3>1. PICK m \in Bad : \A k \in Bad : m <= k
      <4>1. Bad \in SUBSET Nat
        OBVIOUS
      <4> HIDE DEF Bad
      <4> QED
        BY <4>1, Least
    <3>2. m \in 1..n /\ ~ Follows(g[m], h[m], wide)
      BY <3>1
    <3>3. CASE m = 1
      BY <2>1, <2>2, <2>3, <3>2, <3>3 DEF Flattens
    <3>4. CASE m # 1
      <4>1. m - 1 \in 1..n /\ m \in 2..n /\ m - 1 \notin Bad
        BY <3>1, <3>2, <3>4
      <4>2. Follows(g[m - 1], h[m - 1], wide)
        BY <4>1
      <4>3. g[m] = g[m - 1] \o ss[m] /\ h[m] = h[m - 1] \o tt[m]
        BY <2>1, <2>2, <2>3, <4>1 DEF Flattens
      <4>4. /\ g[m - 1] \in Seq(Tag) /\ h[m - 1] \in Seq(Tag) /\ ss[m] \in Seq(Tag)
            /\ tt[m] \in Seq(Tag) /\ Follows(ss[m], tt[m], wide)
        <5>1. m \in DOMAIN ss /\ m \in DOMAIN tt /\ m \in 1..Len(ss)
          BY <2>1, <3>2
        <5>2. ss[m] \in Seq(Tag) /\ tt[m] \in Seq(Tag)
          BY <5>1, Zenon, ElementOfSeq, <2>1
        <5>3. g[m - 1] \in Seq(Tag) /\ h[m - 1] \in Seq(Tag)
          BY <2>2, <2>3, <4>1
        <5> QED
          BY <5>1, <5>2, <5>3
      <4>5. Follows(g[m - 1] \o ss[m], h[m - 1] \o tt[m], wide)
        BY <4>2, <4>4, FollowsConcat
      <4> QED
        BY <3>2, <4>3, <4>5
    <3> QED
      BY <3>3, <3>4
  <2>5. n \in 1..n /\ n \notin Bad
    <3> HIDE DEF Bad
    <3> QED
      BY <2>1, <2>4
  <2> QED
    BY <2>2, <2>3, <2>5
<1> QED
  BY <1>1, <1>2

(* Two entries with the same hooks of the user's in the same places. *)
LEMMA SameOwn ==
  ASSUME NEW e \in Entry, NEW f \in Entry, NEW wide, DOMAIN f.hooks = DOMAIN e.hooks,
         \A l \in DOMAIN e.hooks : OneOf(f.hooks[l], {"user"}) = OneOf(e.hooks[l], {"user"}),
         f.matcher = e.matcher \/ (wide /\ Shared(e))
  PROVE  Follows(UserHooksOf(e), UserHooksOf(f), wide)
<1>1. Own(f.hooks) = Own(e.hooks)
  <2>1. Each(f.hooks, {"user"}) = Each(e.hooks, {"user"})
    BY DEF Each
  <2>2. /\ Own(f.hooks) = FlattenSeq(Each(f.hooks, {"user"}))
        /\ Own(e.hooks) = FlattenSeq(Each(e.hooks, {"user"}))
    BY DEF Own, Those, Each, OneOf
  <2> QED
    BY <2>1, <2>2
<1>2. Len(UserHooksOf(e)) \in Nat /\ Len(UserHooksOf(f)) = Len(UserHooksOf(e))
  <2>1. /\ UserHooksOf(e) \in Seq(Tag) /\ Len(UserHooksOf(e)) = Len(Own(e.hooks))
        /\ Len(UserHooksOf(f)) = Len(Own(f.hooks))
    BY OwnTags, Zenon
  <2> QED
    BY <1>1, <2>1
<1>3. \A k \in 1..Len(UserHooksOf(e)) :
        /\ UserHooksOf(e)[k] = [matcher |-> e.matcher, shared |-> Shared(e)]
        /\ UserHooksOf(f)[k] = [matcher |-> f.matcher, shared |-> Shared(f)]
  BY <1>2, OwnTags, Zenon
<1> QED
  BY <1>2, <1>3 DEF Follows

(* The user's hooks in entries, and what uninstall leaves of the entries. *)
OwnIn(entries) == FlattenSeq([i \in DOMAIN entries |-> UserHooksOf(entries[i])])

LeftOf(e) == IF Emptied(e) THEN <<>> ELSE <<Trimmed(e)>>

LeftEach(entries) == [i \in DOMAIN entries |-> LeftOf(entries[i])]

OwnEach(entries) == [i \in DOMAIN entries |-> UserHooksOf(entries[i])]

LEMMA OwnEachTypes ==
  ASSUME NEW entries \in Seq(Entry)
  PROVE  /\ OwnEach(entries) \in Seq(Seq(Tag)) /\ Len(OwnEach(entries)) = Len(entries)
         /\ OwnIn(entries) = FlattenSeq(OwnEach(entries)) /\ OwnIn(entries) \in Seq(Tag)
<1>1. PICK n \in Nat : n = Len(entries) /\ DOMAIN entries = 1..n /\ \A i \in 1..n : entries[i] \in Entry
  OBVIOUS
<1>2. \A i \in 1..n : UserHooksOf(entries[i]) \in Seq(Tag)
  BY <1>1, OwnTags
<1>3. OwnEach(entries) \in [1..n -> Seq(Tag)] /\ DOMAIN OwnEach(entries) = 1..n
  BY <1>1, <1>2 DEF OwnEach
<1>4. OwnEach(entries) \in Seq(Seq(Tag))
  BY <1>3, SeqDef
<1>5. OwnIn(entries) = FlattenSeq(OwnEach(entries))
  BY DEF OwnIn, OwnEach
<1>6. Len(OwnEach(entries)) = n
  BY <1>1, <1>3, <1>4
<1> QED
  BY <1>1, <1>4, <1>5, <1>6, FlattenTypes

LEMMA OwnInAppend ==
  ASSUME NEW entries \in Seq(Entry), NEW e \in Entry
  PROVE  OwnIn(Append(entries, e)) = OwnIn(entries) \o UserHooksOf(e)
<1>1. PICK longer \in Seq(Entry) : longer = Append(entries, e)
  BY AppendProperties
<1>2. PICK n \in Nat : /\ n = Len(entries) /\ n + 1 = Len(longer) /\ longer[n + 1] = e
                       /\ DOMAIN entries = 1..n /\ DOMAIN longer = 1..(n + 1)
                       /\ \A i \in 1..n : longer[i] = entries[i]
  BY <1>1, AppendProperties
<1>3. /\ OwnEach(longer)[n + 1] = UserHooksOf(e)
      /\ \A i \in 1..n : OwnEach(longer)[i] = OwnEach(entries)[i]
  BY <1>2 DEF OwnEach
<1>4. UserHooksOf(e) \in Seq(Tag)
  BY OwnTags
<1>5. OwnEach(longer) = Append(OwnEach(entries), UserHooksOf(e))
  <2>1. OwnEach(entries) \in Seq(Seq(Tag)) /\ Len(OwnEach(entries)) = n
    BY <1>2, OwnEachTypes
  <2>2. OwnEach(longer) \in Seq(Seq(Tag)) /\ Len(OwnEach(longer)) = n + 1
    BY <1>1, <1>2, OwnEachTypes
  <2> QED
    BY <1>2, <1>3, <1>4, <2>1, <2>2, IsAppend
<1>6. FlattenSeq(Append(OwnEach(entries), UserHooksOf(e)))
        = FlattenSeq(OwnEach(entries)) \o UserHooksOf(e)
  BY <1>4, OwnEachTypes, FlattenAppend
<1>7. OwnIn(longer) = FlattenSeq(OwnEach(longer)) /\ OwnIn(entries) = FlattenSeq(OwnEach(entries))
  BY OwnEachTypes
<1> QED
  BY <1>1, <1>5, <1>6, <1>7, Zenon

LEMMA TrimmedIsEntry ==
  ASSUME NEW e \in Entry
  PROVE  /\ Trimmed(e) \in Entry /\ Trimmed(e).hooks = KeptHooks(e.hooks)
         /\ Trimmed(e).matcher = e.matcher
         /\ LeftOf(e) \in Seq(Entry)
<1>1. PICK hooks \in Seq(Hook) : hooks = KeptHooks(e.hooks)
  BY OwnKept DEF Entry
<1>2. Trimmed(e) = [matcher |-> e.matcher, hooks |-> hooks] /\ e.matcher \in Matcher
  BY <1>1 DEF Trimmed, Entry
<1>3. Trimmed(e) \in Entry /\ Trimmed(e).hooks = hooks /\ Trimmed(e).matcher = e.matcher
  BY <1>2 DEF Entry
<1>4. LeftOf(e) \in Seq(Entry)
  <2>1. CASE Emptied(e)
    BY <2>1 DEF LeftOf
  <2>2. CASE ~ Emptied(e)
    <3>1. LeftOf(e) = <<Trimmed(e)>>
      BY <2>2 DEF LeftOf
    <3> HIDE DEF Trimmed, Entry
    <3> QED
      BY <1>3, <3>1
  <2> QED
    BY <2>1, <2>2
<1> QED
  BY <1>1, <1>3, <1>4

LEMMA LeftAppend ==
  ASSUME NEW entries \in Seq(Entry), NEW e \in Entry
  PROVE  /\ FlattenSeq(LeftEach(entries)) \in Seq(Entry)
         /\ FlattenSeq(LeftEach(Append(entries, e))) = FlattenSeq(LeftEach(entries)) \o LeftOf(e)
<1>1. ASSUME NEW es \in Seq(Entry) PROVE LeftEach(es) \in Seq(Seq(Entry)) /\ Len(LeftEach(es)) = Len(es)
  <2>1. PICK n \in Nat : n = Len(es) /\ DOMAIN es = 1..n /\ \A i \in 1..n : es[i] \in Entry
    OBVIOUS
  <2>2. \A i \in 1..n : LeftOf(es[i]) \in Seq(Entry)
    BY <2>1, TrimmedIsEntry
  <2>3. LeftEach(es) \in [1..n -> Seq(Entry)] /\ DOMAIN LeftEach(es) = 1..n
    BY <2>1, <2>2 DEF LeftEach
  <2>4. LeftEach(es) \in Seq(Seq(Entry))
    BY <2>3, SeqDef
  <2> QED
    BY <2>1, <2>3, <2>4
<1>2. PICK longer \in Seq(Entry) : longer = Append(entries, e)
  BY AppendProperties
<1>3. PICK n \in Nat : /\ n = Len(entries) /\ n + 1 = Len(longer) /\ longer[n + 1] = e
                       /\ DOMAIN entries = 1..n /\ DOMAIN longer = 1..(n + 1)
                       /\ \A i \in 1..n : longer[i] = entries[i]
  BY <1>2, AppendProperties
<1>4. /\ LeftEach(longer)[n + 1] = LeftOf(e)
      /\ \A i \in 1..n : LeftEach(longer)[i] = LeftEach(entries)[i]
  BY <1>3 DEF LeftEach
<1>5. LeftOf(e) \in Seq(Entry)
  BY TrimmedIsEntry
<1>6. LeftEach(longer) = Append(LeftEach(entries), LeftOf(e))
  <2>1. LeftEach(entries) \in Seq(Seq(Entry)) /\ Len(LeftEach(entries)) = n
    BY <1>1, <1>3
  <2>2. LeftEach(longer) \in Seq(Seq(Entry)) /\ Len(LeftEach(longer)) = n + 1
    BY <1>1, <1>2, <1>3
  <2> QED
    BY <1>3, <1>4, <1>5, <2>1, <2>2, IsAppend
<1>7. FlattenSeq(Append(LeftEach(entries), LeftOf(e)))
        = FlattenSeq(LeftEach(entries)) \o LeftOf(e)
  BY <1>1, <1>5, FlattenAppend
<1>8. FlattenSeq(LeftEach(entries)) \in Seq(Entry)
  BY <1>1, FlattenTypes
<1> QED
  BY <1>2, <1>6, <1>7, <1>8, Zenon

(* A file says the same besides the managed hooks. *)
Keeps(s, t, wide) == Follows(UserHooks(s), UserHooks(t), wide) /\ t.rest = s.rest

(* Uninstall keeps the user's hooks. *)
LEMMA UninstallKeeps ==
  ASSUME NEW s \in Settings
  PROVE  Unmanaged(s) \in Settings /\ Keeps(s, Unmanaged(s), FALSE)
<1> DEFINE B == {es \in Seq(Entry) : Follows(OwnIn(es), OwnIn(FlattenSeq(LeftEach(es))), FALSE)}
<1>1. <<>> \in B
  <2>1. LeftEach(<<>>) = <<>>
    BY DEF LeftEach
  <2>2. FlattenSeq(LeftEach(<<>>)) = <<>>
    BY <2>1 DEF FlattenSeq
  <2>3. Follows(OwnIn(<<>>), OwnIn(FlattenSeq(LeftEach(<<>>))), FALSE)
    BY <2>2, FollowsItself, Zenon
  <2>4. <<>> \in Seq(Entry)
    OBVIOUS
  <2> QED
    BY <2>3, <2>4, Zenon
<1>2. ASSUME NEW es \in B, NEW e \in Entry PROVE Append(es, e) \in B
  <2>1. es \in Seq(Entry) /\ Follows(OwnIn(es), OwnIn(FlattenSeq(LeftEach(es))), FALSE)
    OBVIOUS
  <2>2. PICK left \in Seq(Entry) : left = FlattenSeq(LeftEach(es))
    BY <2>1, LeftAppend
  <2>3. /\ FlattenSeq(LeftEach(Append(es, e))) = left \o LeftOf(e)
        /\ OwnIn(Append(es, e)) = OwnIn(es) \o UserHooksOf(e)
        /\ OwnIn(es) \in Seq(Tag) /\ OwnIn(left) \in Seq(Tag) /\ UserHooksOf(e) \in Seq(Tag)
    BY <2>1, <2>2, LeftAppend, OwnInAppend, OwnEachTypes, OwnTags
  <2>4. Follows(OwnIn(es) \o UserHooksOf(e), OwnIn(left \o LeftOf(e)), FALSE)
    <3>1. CASE Emptied(e)
      <4>1. LeftOf(e) = <<>> /\ Own(e.hooks) = Own(<<>>)
        BY <3>1, OwnKept DEF LeftOf, Emptied, Entry
      <4>2. Own(<<>>) = <<>>
        BY DEF Own, Those, FlattenSeq
      <4>3. UserHooksOf(e) = <<>>
        BY <4>1, <4>2, OwnTags, EmptySeq
      <4>4. left \o <<>> = left /\ OwnIn(es) \o <<>> = OwnIn(es)
        BY <2>2, <2>3, ConcatEmptySeq
      <4> QED
        BY <2>1, <2>2, <4>1, <4>3, <4>4
    <3>2. CASE ~ Emptied(e)
      <4>1. PICK t \in Entry : t = Trimmed(e) /\ t.hooks = KeptHooks(e.hooks) /\ t.matcher = e.matcher
        BY TrimmedIsEntry
      <4>2. LeftOf(e) = <<t>>
        BY <3>2, <4>1 DEF LeftOf
      <4>3. left \o <<t>> = Append(left, t)
        OBVIOUS
      <4>4. OwnIn(Append(left, t)) = OwnIn(left) \o UserHooksOf(t)
        BY OwnInAppend
      <4>5. Follows(UserHooksOf(e), UserHooksOf(t), FALSE)
        <5>1. Own(t.hooks) = Own(e.hooks)
          BY <4>1, OwnKept DEF Entry
        <5>2. /\ UserHooksOf(e) \in Seq(Tag) /\ Len(UserHooksOf(e)) = Len(Own(e.hooks))
              /\ Len(UserHooksOf(t)) = Len(Own(t.hooks))
          BY OwnTags, Zenon
        <5>3. \A k \in 1..Len(UserHooksOf(e)) :
                /\ UserHooksOf(e)[k] = [matcher |-> e.matcher, shared |-> Shared(e)]
                /\ UserHooksOf(t)[k] = [matcher |-> t.matcher, shared |-> Shared(t)]
          BY <5>1, <5>2, OwnTags, Zenon
        <5> QED
          BY <4>1, <5>1, <5>2, <5>3 DEF Follows
      <4>6. UserHooksOf(t) \in Seq(Tag)
        BY OwnTags
      <4>7. Follows(OwnIn(es) \o UserHooksOf(e), OwnIn(left) \o UserHooksOf(t), FALSE)
        BY <2>1, <2>2, <2>3, <4>5, <4>6, FollowsConcat
      <4> QED
        BY <4>2, <4>3, <4>4, <4>7, Zenon
    <3> QED
      BY <3>1, <3>2
  <2>5. Append(es, e) \in Seq(Entry)
    BY <2>1, AppendProperties
  <2>6. Follows(OwnIn(Append(es, e)), OwnIn(FlattenSeq(LeftEach(Append(es, e)))), FALSE)
    BY <2>3, <2>4
  <2> QED
    BY <2>5, <2>6
<1> HIDE DEF B
<1>3. Seq(Entry) \subseteq B
  BY <1>1, <1>2, EverySequence
<1>4. s.entries \in Seq(Entry) /\ s.rest \in Nat /\ s = [entries |-> s.entries, rest |-> s.rest]
  BY DEF Settings
<1>5. PICK left \in Seq(Entry) : left = FlattenSeq(LeftEach(s.entries))
  <2>1. [matcher |-> "aegis", hooks |-> <<>>] \in Entry
    BY DEF Entry, Matcher
  <2> QED
    BY <1>4, <2>1, LeftAppend
<1>6. Unmanaged(s) = [entries |-> left, rest |-> s.rest]
  <2>1. LeftEach(s.entries) = [i \in DOMAIN s.entries |->
          IF Emptied(s.entries[i]) THEN <<>> ELSE <<Trimmed(s.entries[i])>>]
    BY DEF LeftEach, LeftOf
  <2>2. Unmanaged(s) = [s EXCEPT !.entries = FlattenSeq(LeftEach(s.entries))]
    BY <2>1 DEF Unmanaged
  <2> QED
    BY <1>4, <1>5, <2>2
<1>7. Follows(OwnIn(s.entries), OwnIn(left), FALSE)
  BY <1>3, <1>4, <1>5 DEF B
<1>8. UserHooks(Unmanaged(s)) = OwnIn(left) /\ UserHooks(s) = OwnIn(s.entries)
  BY <1>6 DEF UserHooks, OwnIn
<1>9. Unmanaged(s) \in Settings /\ Unmanaged(s).rest = s.rest
  BY <1>4, <1>5, <1>6 DEF Settings
<1> QED
  BY <1>7, <1>8, <1>9 DEF Keeps

LEMMA SamePlaces ==
  ASSUME NEW s \in Settings, NEW t \in Settings, NEW wide, DOMAIN t.entries = DOMAIN s.entries,
         \A k \in DOMAIN s.entries :
           Follows(UserHooksOf(s.entries[k]), UserHooksOf(t.entries[k]), wide)
  PROVE  Follows(UserHooks(s), UserHooks(t), wide)
<1>1. PICK n \in Nat : /\ DOMAIN s.entries = 1..n /\ DOMAIN t.entries = 1..n
                       /\ n = Len(s.entries) /\ n = Len(t.entries)
                       /\ s.entries \in Seq(Entry) /\ t.entries \in Seq(Entry)
  <2>1. s.entries \in Seq(Entry) /\ t.entries \in Seq(Entry)
    BY DEF Settings
  <2> QED
    BY <2>1
<1>2. /\ OwnEach(s.entries) \in Seq(Seq(Tag)) /\ Len(OwnEach(s.entries)) = n
      /\ OwnEach(t.entries) \in Seq(Seq(Tag)) /\ Len(OwnEach(t.entries)) = n
  BY <1>1, OwnEachTypes
<1>3. \A k \in 1..n : Follows(OwnEach(s.entries)[k], OwnEach(t.entries)[k], wide)
  BY <1>1 DEF OwnEach
<1>4. UserHooks(s) = FlattenSeq(OwnEach(s.entries)) /\ UserHooks(t) = FlattenSeq(OwnEach(t.entries))
  BY DEF UserHooks, OwnEach
<1> QED
  BY <1>2, <1>3, <1>4, FollowsFlat

-----------------------------------------------------------------------------
(* Settings. *)

LEMMA FirstIsManaged ==
  ASSUME NEW s \in Settings, ManagedIn(s) # {}
  PROVE  First(s) \in ManagedIn(s)
<1>1. \A q \in ManagedIn(s) :
        /\ q = <<q[1], q[2]>>
        /\ q[1] \in DOMAIN s.entries /\ q[2] \in DOMAIN s.entries[q[1]].hooks
        /\ q[1] \in Nat /\ q[2] \in Nat
  <2> TAKE q \in ManagedIn(s)
  <2>1. PICK i \in DOMAIN s.entries :
          \E j \in DOMAIN s.entries[i].hooks : Managed(s.entries[i].hooks[j]) /\ q = <<i, j>>
    BY DEF ManagedIn
  <2>2. s.entries \in Seq(Entry) /\ s.entries[i] \in Entry /\ i \in Nat
    BY <2>1 DEF Settings
  <2>3. s.entries[i].hooks \in Seq(Hook)
    BY <2>2 DEF Entry
  <2> QED
    BY <2>1, <2>2, <2>3
<1> DEFINE Rows == {q[1] : q \in ManagedIn(s)}
<1>2. PICK i \in Rows : \A k \in Rows : i <= k
  <2>1. Rows \in SUBSET Nat /\ Rows # {}
    BY <1>1
  <2> HIDE DEF Rows
  <2> QED
    BY <2>1, Least
<1> DEFINE Columns == {q[2] : q \in {r \in ManagedIn(s) : r[1] = i}}
<1>3. PICK j \in Columns : \A k \in Columns : j <= k
  <2>1. Columns \in SUBSET Nat /\ Columns # {}
    BY <1>1, <1>2
  <2> HIDE DEF Columns
  <2> QED
    BY <2>1, Least
<1>4. <<i, j>> \in ManagedIn(s)
  BY <1>1, <1>3
<1>5. \A q \in ManagedIn(s) : <<i, j>>[1] < q[1] \/ (<<i, j>>[1] = q[1] /\ <<i, j>>[2] <= q[2])
  <2> TAKE q \in ManagedIn(s)
  <2>1. i \in Nat /\ q[1] \in Nat /\ i <= q[1]
    BY <1>1, <1>2
  <2>2. q[1] = i => j <= q[2]
    BY <1>3
  <2> QED
    BY <2>1, <2>2
<1> QED
  BY <1>4, <1>5 DEF First

(* Nothing is left for install to do. *)
Settled(s) == Already(s) /\ ~ Refused(s)

LEMMA ManagedPlace ==
  ASSUME NEW s \in Settings, NEW p \in ManagedIn(s)
  PROVE  /\ p = <<p[1], p[2]>> /\ p[1] \in DOMAIN s.entries
         /\ p[2] \in DOMAIN s.entries[p[1]].hooks
         /\ Managed(s.entries[p[1]].hooks[p[2]])
BY DEF ManagedIn

LEMMA AppendedSettings ==
  ASSUME NEW s \in Settings
  PROVE  /\ Appended(s) \in Settings /\ Guarded(Appended(s))
         /\ UserHooks(Appended(s)) = UserHooks(s) /\ Appended(s).rest = s.rest
         /\ ManagedIn(s) = {} => Settled(Appended(s))
<1> DEFINE e == [matcher |-> "aegis", hooks |-> <<"current">>]
<1> DEFINE n == Len(s.entries) + 1
<1>1. s.entries \in Seq(Entry) /\ s.rest \in Nat /\ e \in Entry
  BY DEF Settings, Entry, Matcher, Hook
<1>2. /\ Append(s.entries, e) \in Seq(Entry) /\ n \in DOMAIN Append(s.entries, e)
      /\ Append(s.entries, e)[n] = e
  BY <1>1, AppendProperties
<1>3. Appended(s) = [entries |-> Append(s.entries, e), rest |-> s.rest]
  <2>1. s = [entries |-> s.entries, rest |-> s.rest]
    BY DEF Settings
  <2> QED
    BY <2>1, SMTT(30) DEF Appended
<1>4. Appended(s) \in Settings
  BY <1>1, <1>2, <1>3 DEF Settings
<1>9. UserHooks(Appended(s)) = UserHooks(s) /\ Appended(s).rest = s.rest
  <2>1. OneOf("current", {"user"}) = <<>>
    BY DEF OneOf
  <2>2. Own(<<"current">>) = <<>>
    <3>1. <<>> \in Seq(Hook) /\ "current" \in Hook /\ Append(<<>>, "current") = <<"current">>
      BY DEF Hook
    <3>2. Own(<<>>) = <<>>
      BY DEF Own, Those, FlattenSeq
    <3>3. Own(Append(<<>>, "current")) = Own(<<>>) \o OneOf("current", {"user"})
      BY <3>1, Kinds, ThoseAppend DEF Own
    <3>4. <<>> \o <<>> = <<>>
      OBVIOUS
    <3> QED
      BY <2>1, <3>1, <3>2, <3>3, <3>4, Zenon
  <2>3. UserHooksOf(e) = <<>>
    <3>1. e.hooks = <<"current">>
      OBVIOUS
    <3>2. UserHooksOf(e) \in Seq(Tag) /\ Len(UserHooksOf(e)) = Len(Own(e.hooks))
      BY <1>1, OwnTags, Zenon
    <3>3. Len(UserHooksOf(e)) = 0
      BY <2>2, <3>1, <3>2
    <3> QED
      BY <3>2, <3>3, EmptySeq
  <2>4. OwnIn(Append(s.entries, e)) = OwnIn(s.entries) \o UserHooksOf(e)
        /\ OwnIn(s.entries) \in Seq(Tag)
    <3> HIDE DEF e
    <3> QED
      BY <1>1, OwnInAppend, OwnEachTypes
  <2>5. OwnIn(s.entries) \o <<>> = OwnIn(s.entries)
    BY <2>4, ConcatEmptySeq
  <2>6. UserHooks(Appended(s)) = OwnIn(Append(s.entries, e)) /\ UserHooks(s) = OwnIn(s.entries)
    <3>1. Appended(s).entries = Append(s.entries, e)
      BY <1>3
    <3> QED
      BY <3>1, Zenon DEF UserHooks, OwnIn
  <2> QED
    BY <1>3, <2>3, <2>4, <2>5, <2>6
<1>5. Appended(s).entries[n] = e /\ n \in DOMAIN Appended(s).entries
  BY <1>2, <1>3
<1>6. 1 \in DOMAIN e.hooks /\ e.hooks[1] = "current" /\ e.matcher = "aegis"
  OBVIOUS
<1> HIDE DEF e, n
<1>7. <<n, 1>> \in ManagedIn(Appended(s))
  BY <1>5, <1>6 DEF ManagedIn, Managed, Others
<1>8. ASSUME ManagedIn(s) = {} PROVE Settled(Appended(s))
  <2>1. ASSUME NEW p \in ManagedIn(Appended(s)) PROVE p = <<n, 1>>
    <3>1. /\ p = <<p[1], p[2]>> /\ p[1] \in DOMAIN Appended(s).entries
          /\ p[2] \in DOMAIN Appended(s).entries[p[1]].hooks
          /\ Managed(Appended(s).entries[p[1]].hooks[p[2]])
      BY <1>4, ManagedPlace
    <3>2. CASE p[1] \in DOMAIN s.entries
      <4>1. Appended(s).entries[p[1]] = s.entries[p[1]]
        BY <1>1, <1>3, <3>2, AppendProperties
      <4>2. p \in ManagedIn(s)
        BY <3>1, <3>2, <4>1 DEF ManagedIn
      <4> QED
        BY <1>8, <4>2
    <3>3. CASE p[1] \notin DOMAIN s.entries
      <4>1. p[1] = n
        BY <1>1, <1>3, <3>1, <3>3, AppendProperties DEF n
      <4>2. p[2] = 1
        BY <1>5, <3>1, <4>1 DEF e
      <4> QED
        BY <3>1, <4>1, <4>2
    <3> QED
      BY <3>2, <3>3
  <2>2. First(Appended(s)) = <<n, 1>>
    BY <1>4, <1>7, <2>1, FirstIsManaged
  <2> QED
    BY <1>5, <1>6, <1>7, <2>1, <2>2 DEF Settled, Already, Refused, HookAt
<1> QED
  BY <1>4, <1>5, <1>6, <1>7, <1>8, <1>9, InstallAssumption DEF Guarded, HookAt

LEMMA RepairedFirstSettings ==
  ASSUME NEW s \in Settings, ManagedIn(s) # {}
  PROVE  /\ RepairedFirst(s) \in Settings /\ Guarded(RepairedFirst(s))
         /\ Keeps(s, RepairedFirst(s), TRUE)
         /\ target # "codex" => Settled(RepairedFirst(s))
<1> DEFINE i == First(s)[1]
           j == First(s)[2]
           hooks == [s.entries[i].hooks EXCEPT ![j] = "current"]
           e == [matcher |-> "aegis", hooks |-> hooks]
           entries == [s.entries EXCEPT ![i] = e]
<1>1. i \in DOMAIN s.entries /\ j \in DOMAIN s.entries[i].hooks
  BY FirstIsManaged, ManagedPlace
<1>2. s.entries \in Seq(Entry) /\ s.rest \in Nat
  BY DEF Settings
<1>3. s.entries[i] \in Entry
  BY <1>1, <1>2
<1>4. s.entries[i].hooks \in Seq(Hook) /\ "current" \in Hook
  BY <1>3 DEF Entry, Hook
<1>5. hooks \in Seq(Hook) /\ j \in DOMAIN hooks /\ hooks[j] = "current"
  BY <1>1, <1>4, ExceptSeq
<1>6. e \in Entry
  BY <1>5 DEF Entry, Matcher
<1>7. entries \in Seq(Entry) /\ i \in DOMAIN entries /\ entries[i] = e
  BY <1>1, <1>2, <1>6, ExceptSeq
<1>8. RepairedFirst(s) = [entries |-> entries, rest |-> s.rest]
  <2>1. s = [entries |-> s.entries, rest |-> s.rest]
    BY DEF Settings
  <2> QED
    BY <1>1, <2>1 DEF RepairedFirst
<1>9. e.hooks = hooks /\ e.matcher = "aegis"
  OBVIOUS
<1> HIDE DEF entries, e, hooks, i, j
<1>10. RepairedFirst(s) \in Settings
  BY <1>2, <1>7, <1>8 DEF Settings
<1>11. RepairedFirst(s).entries[i] = e /\ i \in DOMAIN RepairedFirst(s).entries
  BY <1>7, <1>8
<1>12. <<i, j>> \in ManagedIn(RepairedFirst(s))
  BY <1>5, <1>9, <1>11 DEF ManagedIn, Managed, Others
<1>13. /\ DOMAIN RepairedFirst(s).entries = DOMAIN s.entries
       /\ \A k \in DOMAIN s.entries : RepairedFirst(s).entries[k] = IF k = i THEN e ELSE s.entries[k]
       /\ DOMAIN hooks = DOMAIN s.entries[i].hooks
       /\ \A l \in DOMAIN hooks : hooks[l] = IF l = j THEN "current" ELSE s.entries[i].hooks[l]
       /\ Managed(s.entries[i].hooks[j])
  <2>1. /\ DOMAIN RepairedFirst(s).entries = DOMAIN s.entries
        /\ \A k \in DOMAIN s.entries : RepairedFirst(s).entries[k] = IF k = i THEN e ELSE s.entries[k]
    BY <1>1, <1>8 DEF entries
  <2>2. /\ DOMAIN hooks = DOMAIN s.entries[i].hooks
        /\ \A l \in DOMAIN hooks : hooks[l] = IF l = j THEN "current" ELSE s.entries[i].hooks[l]
    BY <1>4 DEF hooks
  <2>3. Managed(s.entries[i].hooks[j])
    BY FirstIsManaged, ManagedPlace DEF i, j
  <2> QED
    BY <2>1, <2>2, <2>3
<1>14. ManagedIn(RepairedFirst(s)) = ManagedIn(s)
  <2>1. \A k \in DOMAIN s.entries :
          {l \in DOMAIN RepairedFirst(s).entries[k].hooks : Managed(RepairedFirst(s).entries[k].hooks[l])}
            = {l \in DOMAIN s.entries[k].hooks : Managed(s.entries[k].hooks[l])}
    BY <1>9, <1>13 DEF Managed, Others
  <2> QED
    BY <1>13, <2>1 DEF ManagedIn
<1>15. Keeps(s, RepairedFirst(s), TRUE)
  <2>1. ASSUME NEW l \in DOMAIN s.entries[i].hooks
        PROVE  OneOf(e.hooks[l], {"user"}) = OneOf(s.entries[i].hooks[l], {"user"})
    BY <1>9, <1>13 DEF OneOf, Managed, Others
  <2>2. Shared(s.entries[i])
    BY <1>1, <1>13 DEF Shared
  <2>3. Follows(UserHooksOf(s.entries[i]), UserHooksOf(e), TRUE)
    BY <1>3, <1>6, <1>9, <1>13, <2>1, <2>2, SameOwn
  <2>4. ASSUME NEW k \in DOMAIN s.entries
        PROVE  Follows(UserHooksOf(s.entries[k]), UserHooksOf(RepairedFirst(s).entries[k]), TRUE)
    BY <1>13, <2>3, FollowsItself
  <2>5. Follows(UserHooks(s), UserHooks(RepairedFirst(s)), TRUE)
    BY <1>10, <1>13, <2>4, SamePlaces
  <2>6. RepairedFirst(s).rest = s.rest
    BY <1>8
  <2> QED
    BY <2>5, <2>6 DEF Keeps
<1>16. First(RepairedFirst(s)) = <<i, j>>
  BY <1>14, FirstIsManaged, ManagedPlace DEF First, i, j
<1>17. HookAt(RepairedFirst(s), <<i, j>>) = "current" /\ RepairedFirst(s).entries[i].matcher = "aegis"
  BY <1>5, <1>9, <1>11 DEF HookAt
<1>18. Guarded(RepairedFirst(s))
  BY <1>10, <1>12, <1>17, InstallAssumption DEF Guarded
<1>19. target # "codex" => Settled(RepairedFirst(s))
  BY <1>12, <1>16, <1>17 DEF Settled, Already, Refused
<1> QED
  BY <1>10, <1>15, <1>18, <1>19

LEMMA RepairedAllSettings ==
  ASSUME NEW s \in Settings, ManagedIn(s) # {}, target = "codex"
  PROVE  /\ RepairedAll(s) \in Settings /\ Keeps(s, RepairedAll(s), FALSE)
         /\ ~ Refused(RepairedAll(s))
         /\ \/ Guarded(RepairedAll(s)) /\ Already(RepairedAll(s))
            \/ Disarms(s) /\ ManagedIn(RepairedAll(s)) = {}
<1> DEFINE hooks(k) == [l \in DOMAIN s.entries[k].hooks |-> Mended(s.entries[k].hooks[l])]
           entry(k) == Renewed(s.entries[k])
           entries == [k \in DOMAIN s.entries |-> entry(k)]
<1>1. s.entries \in Seq(Entry) /\ s.rest \in Nat
  BY DEF Settings
<1>2. ASSUME NEW k \in DOMAIN s.entries
      PROVE  /\ entry(k) = [matcher |-> s.entries[k].matcher, hooks |-> hooks(k)]
             /\ entry(k) \in Entry
  <2>1. s.entries[k] \in Entry
    BY <1>1
  <2>2. s.entries[k].hooks \in Seq(Hook)
    BY <2>1 DEF Entry
  <2>3. hooks(k) \in Seq(Hook)
    <3>1. PICK n \in Nat : DOMAIN s.entries[k].hooks = 1..n
      BY <2>2
    <3>2. \A l \in 1..n : hooks(k)[l] \in Hook
      BY <2>2, <3>1 DEF Hook, Mended, Managed, Others
    <3> QED
      BY <3>1, <3>2, SeqDef
  <2>4. s.entries[k] = [matcher |-> s.entries[k].matcher, hooks |-> s.entries[k].hooks]
        /\ s.entries[k].matcher \in Matcher
    BY <2>1 DEF Entry
  <2>5. entry(k) = [matcher |-> s.entries[k].matcher, hooks |-> hooks(k)]
    BY <2>4 DEF Renewed
  <2> QED
    BY <2>3, <2>4, <2>5 DEF Entry
<1>3. entries \in Seq(Entry)
  <2>1. PICK n \in Nat : DOMAIN s.entries = 1..n
    BY <1>1
  <2> HIDE DEF entry
  <2>2. \A k \in 1..n : entries[k] \in Entry
    BY <1>2, <2>1
  <2> QED
    BY <2>1, <2>2, SeqDef
<1>4. RepairedAll(s) = [entries |-> entries, rest |-> s.rest]
  <2>1. s = [entries |-> s.entries, rest |-> s.rest]
    BY DEF Settings
  <2>2. RepairedAll(s) = [s EXCEPT !.entries = entries]
    BY DEF RepairedAll
  <2> HIDE DEF entries
  <2> QED
    BY <2>1, <2>2
<1>5. RepairedAll(s) \in Settings
  BY <1>1, <1>3, <1>4 DEF Settings
<1>6. ASSUME NEW k \in DOMAIN s.entries
      PROVE  k \in DOMAIN RepairedAll(s).entries /\ RepairedAll(s).entries[k].hooks = hooks(k)
  <2>1. RepairedAll(s).entries[k] = entry(k) /\ k \in DOMAIN RepairedAll(s).entries
    BY <1>4
  <2> HIDE DEF entry, hooks
  <2> QED
    BY <1>2, <2>1
<1>7. ASSUME NEW p \in ManagedIn(s), HookAt(s, p) # "exec"
      PROVE  <<p[1], p[2]>> \in ManagedIn(RepairedAll(s))
  <2>1. /\ p[1] \in DOMAIN s.entries /\ p[2] \in DOMAIN s.entries[p[1]].hooks
        /\ Managed(s.entries[p[1]].hooks[p[2]]) /\ s.entries[p[1]].hooks[p[2]] # "exec"
    BY <1>7, ManagedPlace DEF HookAt
  <2>2. Mended(s.entries[p[1]].hooks[p[2]]) = "current"
    BY <2>1 DEF Mended
  <2>3. /\ p[1] \in DOMAIN RepairedAll(s).entries
        /\ p[2] \in DOMAIN RepairedAll(s).entries[p[1]].hooks
        /\ RepairedAll(s).entries[p[1]].hooks[p[2]] = "current"
    BY <1>6, <2>1, <2>2
  <2> QED
    BY <2>3 DEF ManagedIn, Managed, Others
<1>8. ASSUME NEW q \in ManagedIn(RepairedAll(s))
      PROVE  HookAt(RepairedAll(s), q) = "current" /\ <<q[1], q[2]>> \in ManagedIn(s)
             /\ HookAt(s, <<q[1], q[2]>>) # "exec"
  <2>1. /\ q[1] \in DOMAIN s.entries
        /\ q[2] \in DOMAIN RepairedAll(s).entries[q[1]].hooks
        /\ Managed(RepairedAll(s).entries[q[1]].hooks[q[2]])
    BY <1>4, <1>5, ManagedPlace
  <2>2. RepairedAll(s).entries[q[1]].hooks = hooks(q[1])
    BY <1>6, <2>1
  <2>3. /\ q[2] \in DOMAIN s.entries[q[1]].hooks
        /\ RepairedAll(s).entries[q[1]].hooks[q[2]] = Mended(s.entries[q[1]].hooks[q[2]])
    BY <2>1, <2>2
  <2>4. PICK h : h = s.entries[q[1]].hooks[q[2]] /\ Managed(Mended(h))
    BY <2>1, <2>3
  <2>5. Managed(h) /\ h # "exec" /\ Mended(h) = "current"
    BY <2>4 DEF Mended, Managed, Others
  <2>6. <<q[1], q[2]>> \in ManagedIn(s)
    BY <2>1, <2>3, <2>4, <2>5, SMTT(30) DEF ManagedIn
  <2> QED
    BY <2>3, <2>4, <2>5, <2>6 DEF HookAt
<1>9. Keeps(s, RepairedAll(s), FALSE)
  <2>1. DOMAIN RepairedAll(s).entries = DOMAIN s.entries
    BY <1>4
  <2>2. ASSUME NEW k \in DOMAIN s.entries
        PROVE  Follows(UserHooksOf(s.entries[k]), UserHooksOf(RepairedAll(s).entries[k]), FALSE)
    <3>1. PICK f \in Entry : f = RepairedAll(s).entries[k] /\ f.matcher = s.entries[k].matcher
      <4>1. RepairedAll(s).entries[k] = entry(k)
        BY <1>4
      <4> HIDE DEF entry
      <4> QED
        BY <1>2, <4>1
    <3>2. f.hooks = hooks(k) /\ s.entries[k] \in Entry
      BY <1>1, <1>6, <3>1
    <3>3. DOMAIN f.hooks = DOMAIN s.entries[k].hooks
      BY <3>2
    <3>4. ASSUME NEW l \in DOMAIN s.entries[k].hooks
          PROVE  OneOf(f.hooks[l], {"user"}) = OneOf(s.entries[k].hooks[l], {"user"})
      <4>1. f.hooks[l] = Mended(s.entries[k].hooks[l])
        BY <3>2
      <4>2. \A h : OneOf(Mended(h), {"user"}) = OneOf(h, {"user"})
        BY DEF OneOf, Mended, Managed, Others
      <4> QED
        BY <4>1, <4>2, Zenon
    <3> HIDE DEF hooks, entry, entries
    <3> QED
      BY <3>1, <3>2, <3>3, <3>4, SameOwn
  <2>3. Follows(UserHooks(s), UserHooks(RepairedAll(s)), FALSE)
    BY <1>5, <2>1, <2>2, SamePlaces
  <2>4. RepairedAll(s).rest = s.rest
    BY <1>4
  <2> QED
    BY <2>3, <2>4 DEF Keeps
<1> HIDE DEF hooks, entry, entries
<1>10. ~ Refused(RepairedAll(s))
  BY <1>8 DEF Refused
<1>11. CASE \A p \in ManagedIn(s) : HookAt(s, p) = "exec"
  <2>1. ManagedIn(RepairedAll(s)) = {}
    BY <1>8, <1>11
  <2>2. Disarms(s)
    BY <1>11, InstallAssumption DEF Disarms
  <2> QED
    BY <1>5, <1>9, <1>10, <2>1, <2>2
<1>12. CASE \E p \in ManagedIn(s) : HookAt(s, p) # "exec"
  <2>1. PICK q \in ManagedIn(RepairedAll(s)) : HookAt(RepairedAll(s), q) = "current"
    BY <1>7, <1>8, <1>12
  <2>2. Guarded(RepairedAll(s))
    BY <1>5, <2>1, InstallAssumption DEF Guarded
  <2>3. Already(RepairedAll(s))
    BY <1>8, <2>1 DEF Already
  <2> QED
    BY <1>5, <1>9, <1>10, <2>2, <2>3
<1> QED
  BY <1>11, <1>12

(* What install makes of a settings file guards and is left alone by the     *)
(* next install, unless all it found were exec hooks of Codex, and says the  *)
(* same of the user's hooks but for a matcher of Claude Code's.              *)
LEMMA MergedSettings ==
  ASSUME NEW s \in Settings
  PROVE  /\ Merged(s) \in Settings /\ (Guarded(Merged(s)) \/ Disarms(s))
         /\ ~ Refused(Merged(s))
         /\ \/ Already(Merged(s))
            \/ Disarms(s) /\ Settled(Merged(Merged(s)))
         /\ Keeps(s, Merged(s), target # "codex")
<1>1. CASE ManagedIn(s) = {}
  <2>1. Merged(s) = Appended(s)
    BY <1>1 DEF Merged
  <2>2. /\ Appended(s) \in Settings /\ Guarded(Appended(s)) /\ Settled(Appended(s))
        /\ UserHooks(Appended(s)) = UserHooks(s) /\ Appended(s).rest = s.rest
    BY <1>1, AppendedSettings
  <2>3. Keeps(s, Appended(s), target # "codex")
    BY <2>2, FollowsItself DEF Keeps
  <2> QED
    BY <2>1, <2>2, <2>3 DEF Settled
<1>2. CASE ManagedIn(s) # {} /\ target # "codex"
  <2>1. Merged(s) = RepairedFirst(s)
    BY <1>2 DEF Merged
  <2>2. /\ RepairedFirst(s) \in Settings /\ Guarded(RepairedFirst(s)) /\ Settled(RepairedFirst(s))
        /\ Keeps(s, RepairedFirst(s), TRUE)
    BY <1>2, RepairedFirstSettings
  <2>3. Keeps(s, RepairedFirst(s), target # "codex")
    BY <1>2, <2>2 DEF Keeps, Follows
  <2> QED
    BY <2>1, <2>2, <2>3 DEF Settled
<1>3. CASE ManagedIn(s) # {} /\ target = "codex"
  <2>1. PICK t \in Settings : t = RepairedAll(s)
    BY <1>3, RepairedAllSettings
  <2>2. /\ ~ Refused(t) /\ Keeps(s, t, FALSE)
        /\ (Guarded(t) /\ Already(t)) \/ (Disarms(s) /\ ManagedIn(t) = {})
    BY <1>3, <2>1, RepairedAllSettings
  <2>3. Keeps(s, t, target # "codex")
    BY <1>3, <2>2 DEF Keeps, Follows
  <2>4. ManagedIn(t) = {} => Settled(Merged(t))
    BY AppendedSettings DEF Merged
  <2>5. Merged(s) = t
    BY <1>3, <2>1 DEF Merged
  <2> QED
    BY <2>1, <2>2, <2>3, <2>4, <2>5
<1> QED
  BY <1>1, <1>2, <1>3

LEMMA EditKeepsGuard ==
  ASSUME NEW s \in Settings
  PROVE  /\ [s EXCEPT !.rest = @ + 1] \in Settings
         /\ Guarded(s) => Guarded([s EXCEPT !.rest = @ + 1])
<1> DEFINE t == [s EXCEPT !.rest = @ + 1]
<1>1. t \in Settings /\ t.entries = s.entries
  BY DEF Settings
<1> HIDE DEF t
<1>2. Guarded(s) => Guarded(t)
  BY <1>1, InstallAssumption DEF Guarded, ManagedIn, HookAt
<1> QED
  BY <1>1, <1>2 DEF t

-----------------------------------------------------------------------------
(* The invariant. *)

LEMMA InitHolds == Init => InstallInv
<1> SUFFICES ASSUME Init PROVE InstallInv
  OBVIOUS
<1>1. TypeOK
  BY DEF Init, TypeOK, Location, Idle
<1>2. InstalledIsGuarded /\ PlansGuard
  BY InstallAssumption DEF Init, InstalledIsGuarded, PlansGuard, Writing
<1>3. Recordable /\ BackedUp
  BY DEF Init, Recordable, BackedUp, Idle
<1> QED
  BY <1>1, <1>2, <1>3 DEF InstallInv

(* An absent file is read as one without hooks. *)
LEMMA NothingManaged ==
  ASSUME file = Absent
  PROVE  ManagedIn(Seen) = {}
BY DEF Seen, ManagedIn

LEMMA SeenIsSettings ==
  ASSUME file \in Settings \cup {Absent, Broken}, file # Broken
  PROVE  Seen \in Settings
<1>1. <<>> \in Seq(Entry)
  OBVIOUS
<1> QED
  BY <1>1 DEF Seen, Settings

LEMMA ReadHolds ==
  ASSUME InstallInv, NEW p \in Proc, Read(p)
  PROVE  InstallInv'
<1> USE DEF Read, Goto, InstallInv
<1>1. TypeOK'
  <2>1. /\ pc' = [pc EXCEPT ![p] = pc'[p]]
        /\ pc'[p] \in {"failed", "recheck", "ask", "unchanged"}
        /\ pc'[p] \in {"recheck", "ask"} => command[p] = "install" \/ file # Absent
    BY NothingManaged DEF TypeOK
  <2>2. /\ seen' = [seen EXCEPT ![p] = file] /\ fresh' = [fresh EXCEPT ![p] = TRUE]
        /\ plan' = [q \in Proc |-> plan'[q]]
    BY DEF TypeOK
  <2>3. UNCHANGED <<target, command, backups, recording, name, source>>
    BY DEF arguments
  <2> HIDE DEF Read
  <2>4. pc' \in [Proc -> Location] /\ fresh' \in [Proc -> BOOLEAN]
    <3>1. pc \in [Proc -> Location] /\ fresh \in [Proc -> BOOLEAN]
      BY DEF TypeOK
    <3>2. pc'[p] \in Location
      BY <2>1 DEF Location, Idle
    <3>3. pc' \in [Proc -> Location]
      BY <2>1, <3>1, <3>2, Zenon
    <3> QED
      BY <2>2, <3>1, <3>3
  <2>5. ASSUME NEW q \in Proc
        PROVE  /\ pc'[q] \in Location \ Idle => command[q] = "install" \/ existed(q)'
               /\ pc'[q] \in {"copy", "copying"} => existed(q)' /\ name[q] \in Name
    <3>1. CASE q = p
      BY <2>1, <2>2, <3>1 DEF TypeOK, Location, Idle, existed
    <3>2. CASE q # p
      BY <2>1, <2>2, <3>2 DEF TypeOK, existed
    <3> QED
      BY <3>1, <3>2
  <2> QED
    BY <2>2, <2>3, <2>4, <2>5 DEF TypeOK
<1>2. InstalledIsGuarded'
  <2>1. \A q \in Proc : pc'[q] = "installed" => pc[q] = "installed"
    BY DEF TypeOK
  <2>2. \A q \in Proc : pc[q] = "installed" => pc'[q] = "installed" /\ seen'[q] = seen[q]
    BY DEF TypeOK
  <2>3. target' = target /\ command' = command /\ file' = file
    BY DEF arguments
  <2> HIDE DEF Read
  <2> QED
    BY <2>1, <2>2, <2>3, ZenonT(40) DEF InstalledIsGuarded, Guarded, Disarms
<1>3. PlansGuard'
  <2> SUFFICES ASSUME \A q \in Proc : command[q] = "install"
               PROVE  /\ file \in Settings \cup {Absent, Broken}
                      /\ \A q \in Proc : pc'[q] \in Writing =>
                           plan'[q] \in Settings /\ (Guarded(plan'[q]) \/ Disarms(seen'[q]))
    BY DEF arguments, PlansGuard, Guarded, Disarms
  <2>1. file # Broken => Merged(Seen) \in Settings /\ (Guarded(Merged(Seen)) \/ Disarms(file))
    <3>1. file # Broken => Merged(Seen) \in Settings /\ (Guarded(Merged(Seen)) \/ Disarms(Seen))
      BY SeenIsSettings, MergedSettings DEF PlansGuard
    <3>2. Disarms(Seen) => Disarms(file)
      BY NothingManaged, Zenon DEF Disarms, Seen
    <3> QED
      BY <3>1, <3>2
  <2>2. pc'[p] \in Writing => file # Broken /\ plan'[p] = Merged(Seen) /\ seen'[p] = file
    BY DEF TypeOK, Writing
  <2>3. \A q \in Proc \ {p} : pc'[q] = pc[q] /\ plan'[q] = plan[q] /\ seen'[q] = seen[q]
    BY DEF TypeOK
  <2> HIDE DEF Read
  <2> QED
    BY <2>1, <2>2, <2>3 DEF PlansGuard
<1>4. Recordable'
  BY DEF arguments, TypeOK, Recordable
<1>5. BackedUp'
  <2>1. pc[p] = "start" /\ source[p] = Absent
    BY DEF BackedUp
  <2>2. /\ pc'[p] \in {"failed", "recheck", "ask", "unchanged"} /\ seen'[p] = file
        /\ \A q \in Proc \ {p} : pc'[q] = pc[q] /\ seen'[q] = seen[q] /\ fresh'[q] = fresh[q]
        /\ UNCHANGED <<file, backups, name, source>>
    BY DEF TypeOK
  <2> HIDE DEF Read
  <2>3. \A q, r \in Proc : Spoils(r, q)' <=> Spoils(r, q)
    BY <2>1, <2>2 DEF Spoils, Finished
  <2>4. \A q \in Proc : Alone(q)' <=> Alone(q)
    BY <2>3, Zenon DEF Alone
  <2> QED
    BY <2>1, <2>2, <2>4 DEF BackedUp, existed
<1> QED
  BY <1>1, <1>2, <1>3, <1>4, <1>5

Copied == {"prepare", "mkdir", "ignore", "replace"}

Early == {"start", "ask", "check", "choose", "copy"}

(* A step of p to l that does not touch the settings or a backup: what each  *)
(* such step has to see to.                                                  *)
Moves(p, l) ==
  /\ l \in Location \ {"installed", "copying"} /\ pc' = [pc EXCEPT ![p] = l] /\ pc[p] # "installed"
  /\ UNCHANGED <<arguments, settings, backups, plan, seen, source>>
  /\ name' = [q \in Proc |-> name'[q]] /\ \A q \in Proc \ {p} : name'[q] = name[q]
  /\ recording' \in {"absent", "bare", "ready", "bad"}
  /\ recording \in {"bare", "ready"} => recording' \in {"bare", "ready"}
  /\ l \in Writing => pc[p] \in Writing
  /\ l \notin Idle => command[p] = "install" \/ existed(p)
  /\ l \in {"choose", "copy"} => existed(p)
  /\ l = "copy" => name'[p] \in Name
  /\ l = "replace" /\ command[p] = "install" => recording' \in {"bare", "ready"}
  /\ l \in Copied => pc[p] \in Copied \/ ~ existed(p)
  /\ l \in Early => pc[p] \in Early
  /\ l \in Finished => pc[p] \in Finished \/ source[p] = Absent
  /\ name'[p] = name[p] \/ (source[p] = Absent /\ l \notin Copied)

LEMMA MoveHolds ==
  ASSUME InstallInv, NEW p \in Proc, NEW l, Moves(p, l)
  PROVE  InstallInv'
<1> USE DEF Moves
<1> USE DEF InstallInv
<1>1. TypeOK'
  BY DEF arguments, settings, TypeOK, existed
<1>2. InstalledIsGuarded' /\ PlansGuard'
  <2>1. \A q \in Proc : pc'[q] = "installed" <=> pc[q] = "installed"
    BY DEF TypeOK
  <2>2. \A q \in Proc : pc'[q] \in Writing => pc[q] \in Writing
    BY DEF TypeOK
  <2>3. InstalledIsGuarded'
    BY <2>1, Zenon DEF arguments, settings, InstalledIsGuarded, Guarded, Disarms
  <2>4. PlansGuard'
    BY <2>2, Zenon DEF arguments, settings, PlansGuard, Guarded, Disarms
  <2> QED
    BY <2>3, <2>4
<1>3. Recordable'
  BY DEF arguments, TypeOK, Recordable
<1>4. BackedUp'
  <2>1. /\ pc'[p] = l /\ UNCHANGED <<file, fresh, backups, seen, source>>
        /\ \A q \in Proc \ {p} : pc'[q] = pc[q]
    BY DEF settings, TypeOK
  <2>2. \A q, r \in Proc : pc'[q] \in Copied /\ Spoils(r, q) => Spoils(r, q)'
    BY <2>1 DEF Spoils, Copied
  <2>3. \A q \in Proc : pc'[q] \in Copied /\ Alone(q)' => Alone(q)
    BY <2>2, Zenon DEF Alone
  <2> QED
    BY <2>1, <2>3 DEF BackedUp, existed, Copied, Early
<1> QED
  BY <1>1, <1>2, <1>3, <1>4

LEMMA StepsThatMove ==
  ASSUME InstallInv, NEW p \in Proc,
         \/ Answer(p) \/ CheckRecording(p) \/ ChooseName(p) \/ Prepare(p) \/ MakeDirectory(p)
         \/ WriteIgnore(p) \/ Recheck(p) \/ AnswerRepair(p) \/ Fail(p)
  PROVE  InstallInv'
<1>1. TypeOK /\ BackedUp /\ Recordable
  BY DEF InstallInv
<1>2. command[p] \in {"install", "uninstall"} /\ pc[p] \in Location
  BY <1>1 DEF TypeOK
<1>0. pc[p] \in Early => source[p] = Absent
  BY <1>1 DEF BackedUp, Early
<1>3. CASE Answer(p)
  <2>1. pc[p] = "ask" /\ (command[p] = "install" \/ existed(p))
    BY <1>1, <1>3 DEF Answer, TypeOK, Location, Idle
  <2>2. PICK l \in {"check", "choose", "unchanged"} :
         pc' = [pc EXCEPT ![p] = l] /\ (l = "choose" => existed(p))
    BY <1>1, <1>3, <2>1 DEF Answer, Goto, TypeOK
  <2>3. /\ UNCHANGED <<arguments, settings, backups, plan, seen, name, source>>
        /\ recording' \in {"absent", "bare", "ready", "bad"}
        /\ recording \in {"bare", "ready"} => recording' \in {"bare", "ready"}
        /\ name = [q \in Proc |-> name[q]]
    BY <1>1, <1>3 DEF Answer, TypeOK
  <2>4. Moves(p, l)
    BY <1>0, <1>2, <2>1, <2>2, <2>3 DEF Location, Idle, Moves, Writing, Copied, Early, Finished
  <2> QED
    BY <2>4, MoveHolds, Zenon
<1>4. CASE CheckRecording(p)
  <2>1. pc[p] = "check" /\ (command[p] = "install" \/ existed(p))
    BY <1>1, <1>4 DEF CheckRecording, TypeOK, Location, Idle
  <2>4. Moves(p, IF existed(p) THEN "choose" ELSE "prepare")
    BY <1>0, <1>1, <1>2, <1>4, <2>1
    DEF CheckRecording, Goto, TypeOK, Location, Idle, Moves, Writing, Copied, Early, Finished
  <2> QED
    BY <2>4, MoveHolds, Zenon
<1>5. CASE ChooseName(p)
  <2>1. pc[p] = "choose" /\ existed(p)
    BY <1>1, <1>5 DEF ChooseName, Move, BackedUp
  <2>2. PICK n \in Name : name' = [name EXCEPT ![p] = n]
    BY <1>5 DEF ChooseName
  <2>3. /\ name' = [q \in Proc |-> name'[q]] /\ name'[p] \in Name
        /\ \A q \in Proc \ {p} : name'[q] = name[q]
    BY <1>1, <2>2 DEF TypeOK
  <2>4. Moves(p, "copy")
    BY <1>0, <1>1, <1>2, <1>5, <2>1, <2>3
    DEF ChooseName, Move, Goto, TypeOK, Location, Idle, Moves, Writing, Copied, Early, Finished
  <2> QED
    BY <2>4, MoveHolds, Zenon
<1>6. CASE Prepare(p)
  <2>1. pc[p] \in {"prepare", "repair"} /\ (command[p] = "install" \/ existed(p))
    BY <1>1, <1>6 DEF Prepare, Move, TypeOK, Location, Idle
  <2>2. PICK l \in {"mkdir", "replace", "repair-mkdir", "unchanged"} :
         /\ pc' = [pc EXCEPT ![p] = l] /\ (l \in {"mkdir", "replace"} => pc[p] = "prepare")
         /\ l = "replace" => recording' \in {"bare", "ready"}
    BY <1>1, <1>6, <2>1 DEF Prepare, Move, Goto, TypeOK
  <2>3. /\ UNCHANGED <<arguments, settings, backups, plan, seen, name, source>>
        /\ recording' \in {"absent", "bare", "ready", "bad"}
        /\ recording \in {"bare", "ready"} => recording' \in {"bare", "ready"}
        /\ name = [q \in Proc |-> name[q]]
    BY <1>1, <1>6 DEF Prepare, TypeOK
  <2>4. Moves(p, l)
    BY <1>0, <1>2, <2>1, <2>2, <2>3 DEF Location, Idle, Moves, Writing, Copied, Early, Finished
  <2> QED
    BY <2>4, MoveHolds, Zenon
<1>7. CASE MakeDirectory(p)
  <2>1. pc[p] \in {"mkdir", "repair-mkdir"} /\ (command[p] = "install" \/ existed(p))
    BY <1>1, <1>7 DEF MakeDirectory, Move, TypeOK, Location, Idle
  <2>2. PICK l \in {"ignore", "repair-ignore"} :
         pc' = [pc EXCEPT ![p] = l] /\ (l = "ignore" => pc[p] = "mkdir")
    BY <1>1, <1>7, <2>1 DEF MakeDirectory, Move, Goto, TypeOK
  <2>3. /\ UNCHANGED <<arguments, settings, backups, plan, seen, name, source>>
        /\ recording' \in {"absent", "bare", "ready", "bad"}
        /\ recording \in {"bare", "ready"} => recording' \in {"bare", "ready"}
        /\ name = [q \in Proc |-> name[q]]
    BY <1>1, <1>7 DEF MakeDirectory, TypeOK
  <2>4. Moves(p, l)
    BY <1>0, <1>2, <2>1, <2>2, <2>3 DEF Location, Idle, Moves, Writing, Copied, Early, Finished
  <2> QED
    BY <2>4, MoveHolds, Zenon
<1>8. CASE WriteIgnore(p)
  <2>1. pc[p] \in {"ignore", "repair-ignore"} /\ (command[p] = "install" \/ existed(p))
    BY <1>1, <1>8 DEF WriteIgnore, Move, TypeOK, Location, Idle
  <2>2. PICK l \in {"replace", "unchanged"} :
         /\ pc' = [pc EXCEPT ![p] = l] /\ (l = "replace" => pc[p] = "ignore")
         /\ recording' = "ready"
    BY <1>1, <1>8, <2>1 DEF WriteIgnore, Move, Goto, TypeOK
  <2>3. /\ UNCHANGED <<arguments, settings, backups, plan, seen, name, source>>
        /\ recording' \in {"absent", "bare", "ready", "bad"}
        /\ recording \in {"bare", "ready"} => recording' \in {"bare", "ready"}
        /\ name = [q \in Proc |-> name[q]]
    BY <1>1, <1>8 DEF WriteIgnore, TypeOK
  <2>4. Moves(p, l)
    BY <1>0, <1>2, <2>1, <2>2, <2>3 DEF Location, Idle, Moves, Writing, Copied, Early, Finished
  <2> QED
    BY <2>4, MoveHolds, Zenon
<1>9. CASE Recheck(p)
  <2>1. pc[p] = "recheck" /\ (command[p] = "install" \/ existed(p))
    BY <1>1, <1>9 DEF Recheck, Move, TypeOK, Location, Idle
  <2>4. Moves(p, IF recording = "absent" THEN "ask-repair" ELSE "unchanged")
    BY <1>0, <1>1, <1>2, <1>9, <2>1
    DEF Recheck, Move, Goto, TypeOK, Location, Idle, Moves, Writing, Copied, Early, Finished
  <2> QED
    BY <2>4, MoveHolds, Zenon
<1>10. CASE AnswerRepair(p)
  <2>1. pc[p] = "ask-repair" /\ (command[p] = "install" \/ existed(p))
    BY <1>1, <1>10 DEF AnswerRepair, Move, TypeOK, Location, Idle
  <2>2. PICK l \in {"repair", "unchanged"} : pc' = [pc EXCEPT ![p] = l]
    BY <1>1, <1>10, <2>1 DEF AnswerRepair, Move, Goto, TypeOK
  <2>3. /\ UNCHANGED <<arguments, settings, backups, plan, seen, name, source>>
        /\ recording' \in {"absent", "bare", "ready", "bad"}
        /\ recording \in {"bare", "ready"} => recording' \in {"bare", "ready"}
        /\ name = [q \in Proc |-> name[q]]
    BY <1>1, <1>10 DEF AnswerRepair, TypeOK
  <2>4. Moves(p, l)
    BY <1>0, <1>2, <2>1, <2>2, <2>3 DEF Location, Idle, Moves, Writing, Copied, Early, Finished
  <2> QED
    BY <2>4, MoveHolds, Zenon
<1>11. CASE Fail(p)
  <2>1. Moves(p, "failed")
    BY <1>0, <1>1, <1>2, <1>11
    DEF Fail, Goto, TypeOK, Location, Idle, Moves, Writing, Copied, Early,
        Finished
  <2> QED
    BY <2>1, MoveHolds, Zenon
<1> QED
  BY <1>3, <1>4, <1>5, <1>6, <1>7, <1>8, <1>9, <1>10, <1>11

LEMMA CopyHolds ==
  ASSUME InstallInv, NEW p \in Proc, CopyFile(p)
  PROVE  InstallInv'
<1> USE DEF InstallInv
<1>1. /\ pc[p] = "copy" /\ existed(p) /\ name[p] \in Name /\ source[p] = Absent
      /\ command[p] \in {"install", "uninstall"} /\ file # Absent
  BY DEF CopyFile, Move, TypeOK, BackedUp
<1>2. /\ pc' = [pc EXCEPT ![p] = "copying"] /\ source' = [source EXCEPT ![p] = file]
      /\ fresh' = [fresh EXCEPT ![p] = TRUE]
      /\ UNCHANGED <<target, command, file, recording, plan, seen, name>>
  BY DEF CopyFile, Move, Goto, arguments
<1>3. /\ DOMAIN backups' = DOMAIN backups \cup {name[p]}
      /\ \A n \in DOMAIN backups \ {name[p]} : backups'[n] = backups[n]
  BY DEF CopyFile, Written
<1>4. /\ pc'[p] = "copying" /\ source'[p] = file
      /\ \A q \in Proc \ {p} : pc'[q] = pc[q] /\ source'[q] = source[q] /\ fresh'[q] = fresh[q]
  BY <1>2 DEF TypeOK
<1>5. TypeOK'
  BY <1>1, <1>2, <1>3 DEF TypeOK, Location, Idle, existed
<1>6. InstalledIsGuarded' /\ PlansGuard'
  <2>1. /\ \A q \in Proc : pc'[q] = "installed" <=> pc[q] = "installed"
        /\ \A q \in Proc : pc'[q] \in Writing => pc[q] \in Writing
    BY <1>1, <1>4 DEF Writing
  <2>2. InstalledIsGuarded'
    BY <1>2, <2>1, Zenon DEF InstalledIsGuarded, Guarded, Disarms
  <2>3. PlansGuard'
    BY <1>2, <2>1, Zenon DEF PlansGuard, Guarded, Disarms
  <2> QED
    BY <2>2, <2>3
<1>7. Recordable'
  BY <1>1, <1>2 DEF TypeOK, Recordable
<1>8. BackedUp'
  <2> SUFFICES ASSUME NEW q \in Proc PROVE
        /\ pc'[q] \in {"choose", "copy"} => existed(q)
        /\ pc'[q] \in {"start", "ask", "check", "choose", "copy"} => source'[q] = Absent
        /\ pc'[q] = "copying" => source'[q] # Absent
        /\ fresh'[q] /\ ~ existed(q) => file = Absent
        /\ fresh'[q] /\ file # Absent
             /\ pc'[q] \in {"copying", "prepare", "mkdir", "ignore", "replace"} => source'[q] = file
        /\ fresh'[q] /\ file # Absent /\ pc'[q] \in {"prepare", "mkdir", "ignore", "replace"}
             /\ Alone(q)' => name[q] \in DOMAIN backups' /\ backups'[name[q]] = file
    BY <1>2 DEF BackedUp, existed
  <2>1. CASE q = p
    BY <1>1, <1>4, <2>1
  <2>2. CASE q # p
    <3>1. Alone(q)' => Alone(q) /\ name[p] # name[q]
      <4>1. \A r \in Proc : Spoils(r, q) => Spoils(r, q)'
        BY <1>1, <1>2, <1>4, <2>2 DEF Spoils
      <4>2. name[p] = name[q] => Spoils(p, q)'
        BY <1>1, <1>2, <1>4, <2>2 DEF Spoils, Finished
      <4> QED
        BY <4>1, <4>2 DEF Alone
    <3> QED
      BY <1>3, <1>4, <2>2, <3>1 DEF BackedUp
  <2> QED
    BY <2>1, <2>2
<1> QED
  BY <1>5, <1>6, <1>7, <1>8

LEMMA FinishHolds ==
  ASSUME InstallInv, NEW p \in Proc, FinishCopy(p)
  PROVE  InstallInv'
<1> USE DEF InstallInv
<1>1. /\ pc[p] = "copying" /\ existed(p) /\ name[p] \in Name /\ source[p] # Absent
      /\ command[p] \in {"install", "uninstall"}
  BY DEF FinishCopy, Move, TypeOK, BackedUp
<1>2. /\ pc' = [pc EXCEPT ![p] = IF command[p] = "install" THEN "prepare" ELSE "replace"]
      /\ UNCHANGED <<target, command, file, fresh, recording, plan, seen, name, source>>
  BY DEF FinishCopy, Move, Goto, arguments, settings
<1>3. /\ DOMAIN backups' = DOMAIN backups \cup {name[p]}
      /\ \A n \in DOMAIN backups \ {name[p]} : backups'[n] = backups[n]
      /\ backups'[name[p]] = source[p] \/ \E q \in Proc : Spoils(q, p)
  BY DEF FinishCopy, Written
<1>4. /\ pc'[p] \in {"prepare", "replace"} /\ \A q \in Proc \ {p} : pc'[q] = pc[q]
  BY <1>1, <1>2 DEF TypeOK
<1>5. TypeOK'
  BY <1>1, <1>2, <1>3 DEF TypeOK, Location, Idle, existed
<1>6. InstalledIsGuarded' /\ PlansGuard'
  <2>1. /\ \A q \in Proc : pc'[q] = "installed" <=> pc[q] = "installed"
        /\ \A q \in Proc : pc'[q] \in Writing => pc[q] \in Writing
    BY <1>1, <1>4 DEF Writing
  <2>2. InstalledIsGuarded'
    BY <1>2, <2>1, Zenon DEF InstalledIsGuarded, Guarded, Disarms
  <2>3. PlansGuard'
    BY <1>2, <2>1, Zenon DEF PlansGuard, Guarded, Disarms
  <2> QED
    BY <2>2, <2>3
<1>7. Recordable'
  BY <1>1, <1>2 DEF TypeOK, Recordable
<1>8. BackedUp'
  <2> SUFFICES ASSUME NEW q \in Proc, fresh[q], file # Absent, Alone(q)',
                      pc'[q] \in {"prepare", "mkdir", "ignore", "replace"}
               PROVE  name[q] \in DOMAIN backups' /\ backups'[name[q]] = file
    BY <1>1, <1>2, <1>4 DEF BackedUp, existed
  <2>1. CASE q = p
    <3>1. \A r \in Proc : Spoils(r, p) => Spoils(r, p)'
      BY <1>1, <1>2, <1>4 DEF Spoils
    <3>2. source[p] = file
      BY <1>1, <2>1 DEF BackedUp
    <3> QED
      BY <1>3, <2>1, <3>1, <3>2 DEF Alone
  <2>2. CASE q # p /\ name[q] = name[p]
    <3>1. source[q] = file /\ pc[q] \in Finished
      BY <1>4, <2>2 DEF BackedUp, Finished
    <3>2. source[p] = source[q]
      <4>1. ~ Spoils(p, q)'
        BY DEF Alone
      <4> QED
        BY <1>1, <1>2, <2>2, <4>1 DEF Spoils
    <3>3. ~ Spoils(q, p)
      BY <2>2, <3>1, <3>2 DEF Spoils
    <3>4. ASSUME NEW r \in Proc, r # q PROVE ~ Spoils(r, p)
      <4>1. ~ Spoils(r, q)'
        BY DEF Alone
      <4> QED
        BY <1>2, <1>4, <2>2, <3>2, <3>4, <4>1 DEF Spoils
    <3> QED
      BY <1>3, <2>2, <3>1, <3>2, <3>3, <3>4
  <2>3. CASE q # p /\ name[q] # name[p]
    <3>1. \A r \in Proc : Spoils(r, q) => Spoils(r, q)'
      BY <1>2, <1>4, <2>3 DEF Spoils
    <3>2. Alone(q)
      BY <3>1, Zenon DEF Alone
    <3> QED
      BY <1>3, <1>4, <2>3, <3>2 DEF BackedUp
  <2> QED
    BY <2>1, <2>2, <2>3
<1> QED
  BY <1>5, <1>6, <1>7, <1>8

LEMMA ReplaceHolds ==
  ASSUME InstallInv, NEW p \in Proc, Replace(p)
  PROVE  InstallInv'
<1> USE DEF InstallInv
<1>1. /\ pc[p] = "replace" /\ command[p] \in {"install", "uninstall"}
      /\ file' = plan[p] /\ fresh' = [q \in Proc |-> FALSE]
      /\ pc' = [pc EXCEPT ![p] = IF command[p] = "install" THEN "installed" ELSE "uninstalled"]
      /\ UNCHANGED <<target, command, backups, recording, plan, seen, name, source>>
  BY DEF Replace, Move, Goto, TypeOK, arguments
<1>2. TypeOK'
  BY <1>1 DEF TypeOK, Location, Idle, existed
<1>3. InstalledIsGuarded' /\ PlansGuard'
  <2> SUFFICES ASSUME \A q \in Proc : command[q] = "install"
               PROVE  /\ file' \in Settings \cup {Absent, Broken}
                      /\ Guarded(file') \/ (pc'[p] = "installed" /\ Disarms(seen[p]))
                      /\ \A q \in Proc : pc'[q] \in Writing =>
                           plan[q] \in Settings /\ (Guarded(plan[q]) \/ Disarms(seen[q]))
    BY <1>1, Zenon DEF InstalledIsGuarded, PlansGuard, Guarded, Disarms
  <2>1. plan[p] \in Settings /\ (Guarded(plan[p]) \/ Disarms(seen[p]))
    BY <1>1 DEF PlansGuard, Writing
  <2>2. \A q \in Proc : pc'[q] \in Writing => pc[q] \in Writing
    BY <1>1 DEF TypeOK, Writing
  <2>3. pc'[p] = "installed"
    BY <1>1 DEF TypeOK
  <2> QED
    BY <1>1, <2>1, <2>2, <2>3 DEF PlansGuard
<1>4. Recordable' /\ BackedUp'
  <2>1. pc'[p] \in {"installed", "uninstalled"} /\ \A q \in Proc \ {p} : pc'[q] = pc[q]
    BY <1>1 DEF TypeOK
  <2> QED
    BY <1>1, <2>1 DEF Recordable, BackedUp, existed
<1> QED
  BY <1>2, <1>3, <1>4

LEMMA EditHolds ==
  ASSUME InstallInv, Edit
  PROVE  InstallInv'
<1> USE DEF InstallInv
<1>1. /\ file # Broken /\ file' = [Seen EXCEPT !.rest = @ + 1]
      /\ fresh' = [q \in Proc |-> FALSE]
      /\ UNCHANGED <<target, command, backups, recording, pc, plan, seen, name, source>>
  BY DEF Edit, arguments
<1>2. TypeOK'
  BY <1>1 DEF TypeOK, existed
<1>3. InstalledIsGuarded' /\ PlansGuard'
  <2> SUFFICES ASSUME \A q \in Proc : command[q] = "install"
               PROVE  /\ file' \in Settings \cup {Absent, Broken}
                      /\ Guarded(file) => Guarded(file')
    <3>1. InstalledIsGuarded'
      BY <1>1, Zenon DEF InstalledIsGuarded, Guarded, Disarms
    <3>2. PlansGuard'
      BY <1>1, Zenon DEF PlansGuard, Guarded, Disarms
    <3> QED
      BY <3>1, <3>2
  <2>1. Seen \in Settings
    BY <1>1, SeenIsSettings DEF PlansGuard
  <2>2. file' \in Settings /\ (Guarded(Seen) => Guarded(file'))
    BY <1>1, <2>1, EditKeepsGuard
  <2>3. Guarded(file) => file = Seen
    BY DEF Guarded, Seen
  <2> QED
    BY <2>2, <2>3
<1>4. Recordable' /\ BackedUp'
  BY <1>1 DEF Recordable, BackedUp, existed
<1> QED
  BY <1>2, <1>3, <1>4

LEMMA NextHolds == InstallInv /\ [Next]_vars => InstallInv'
<1> SUFFICES ASSUME InstallInv, [Next]_vars PROVE InstallInv'
  OBVIOUS
<1>1. CASE Edit
  BY <1>1, EditHolds
<1>2. ASSUME NEW p \in Proc, Step(p) PROVE InstallInv'
  BY <1>2, ReadHolds, StepsThatMove, CopyHolds, FinishHolds, ReplaceHolds DEF Step
<1>3. CASE UNCHANGED vars
  <2>1. UNCHANGED <<target, command, file, backups, recording, pc, plan, seen, name, source, fresh>>
    BY <1>3 DEF vars, arguments, settings
  <2>2. TypeOK' /\ Recordable'
    BY <2>1 DEF InstallInv, TypeOK, Recordable, existed
  <2>3. InstalledIsGuarded' /\ PlansGuard'
    BY <2>1, Zenon DEF InstallInv, InstalledIsGuarded, PlansGuard, Guarded, Disarms
  <2>4. BackedUp'
    BY <2>1, Zenon DEF InstallInv, BackedUp, existed, Alone, Spoils
  <2> QED
    BY <2>2, <2>3, <2>4 DEF InstallInv
<1> QED
  BY <1>1, <1>2, <1>3 DEF Next

(* Whatever commands run beside each other and a user, an install that says  *)
(* it is done guards as long as nobody uninstalls, and what a command on its *)
(* way relies on holds.                                                      *)
THEOREM InstallInvariant == Spec => []InstallInv
BY InitHolds, NextHolds, PTL DEF Spec

-----------------------------------------------------------------------------
(* What the user wrote. *)

(* The user's hooks v are those of u but for matchers an install widened.    *)
Says(u, v) ==
  Len(v) = Len(u) /\ \A k \in 1..Len(u) : v[k].matcher = u[k].matcher \/ Widened(k)

(* The file can be read, unless it could not be from the start, and what a   *)
(* command on its way will write says the same of the user's hooks, and of   *)
(* the rest what the command has read.                                       *)
PlansKeep ==
  /\ file \in Settings \cup {Absent, Broken}
  /\ \A p \in Proc : pc[p] = "start" => seen[p] = Absent
  /\ \A p \in Proc : pc[p] \in Writing =>
       /\ file # Broken /\ plan[p] \in Settings /\ plan[p].rest = Rest(seen[p])
       /\ Says(Foreign(file), UserHooks(plan[p]))

LEMMA UserHooksTypes ==
  ASSUME NEW s \in Settings
  PROVE  UserHooks(s) \in Seq(Tag) /\ Foreign(s) = UserHooks(s) /\ Rest(s) = s.rest
<1>1. s.entries \in Seq(Entry)
  BY DEF Settings
<1>2. UserHooks(s) = OwnIn(s.entries)
  BY DEF UserHooks, OwnIn
<1>3. s \notin {Absent, Broken}
  BY InstallAssumption
<1> QED
  BY <1>1, <1>2, <1>3, OwnEachTypes DEF Foreign, Rest

LEMMA SeenKeeps ==
  ASSUME PlansKeep, file # Broken
  PROVE  /\ Seen \in Settings /\ UserHooks(Seen) = Foreign(file) /\ Seen.rest = Rest(file)
         /\ UserHooks(Seen) \in Seq(Tag)
<1>1. Seen \in Settings
  BY SeenIsSettings DEF PlansKeep
<1>2. CASE file = Absent
  <2>1. Seen.entries = <<>> /\ Seen.rest = 0
    BY <1>2 DEF Seen
  <2>2. UserHooks(Seen) = <<>>
    BY <2>1 DEF UserHooks, FlattenSeq
  <2> QED
    BY <1>1, <1>2, <2>1, <2>2, UserHooksTypes DEF Foreign, Rest
<1>3. CASE file # Absent
  <2>1. Seen = file
    BY <1>3 DEF Seen
  <2> QED
    BY <1>1, <2>1, UserHooksTypes
<1> QED
  BY <1>2, <1>3

(* Nothing that was widened is forgotten. *)
LEMMA WidenedStays ==
  ASSUME UNCHANGED arguments, \A q \in Proc : seen'[q] = seen[q] \/ seen[q] = Absent
  PROVE  \A k : Widened(k) => Widened(k)'
<1> SUFFICES ASSUME NEW k, Widened(k) PROVE Widened(k)'
  OBVIOUS
<1>1. PICK q \in Proc : /\ target = "claude-code" /\ command[q] = "install"
                        /\ k \in DOMAIN Foreign(seen[q]) /\ Foreign(seen[q])[k].shared
  BY DEF Widened
<1>2. seen[q] # Absent
  <2>1. Foreign(Absent) = <<>>
    BY DEF Foreign
  <2>2. DOMAIN <<>> = {}
    OBVIOUS
  <2> QED
    BY <1>1, <2>1, <2>2
<1>3. seen'[q] = seen[q] /\ target' = target /\ command' = command
  BY <1>2 DEF arguments
<1> QED
  BY <1>1, <1>3 DEF Widened

LEMMA SaysStill ==
  ASSUME NEW u, NEW v, Says(u, v), \A k : Widened(k) => Widened(k)'
  PROVE  Len(v) = Len(u) /\ \A k \in 1..Len(u) : v[k].matcher = u[k].matcher \/ Widened(k)'
BY DEF Says

(* A step of a command that leaves the file alone. *)
LEMMA OthersKeep ==
  ASSUME PlansKeep, NEW p \in Proc, file' = file, UNCHANGED arguments,
         \A q \in Proc \ {p} : pc'[q] = pc[q] /\ plan'[q] = plan[q] /\ seen'[q] = seen[q],
         seen'[p] = seen[p] \/ seen[p] = Absent, pc'[p] # "start",
         pc'[p] \in Writing =>
           /\ file # Broken /\ plan'[p] \in Settings /\ plan'[p].rest = Rest(seen'[p])
           /\ Len(UserHooks(plan'[p])) = Len(Foreign(file))
           /\ \A k \in 1..Len(Foreign(file)) :
                UserHooks(plan'[p])[k].matcher = Foreign(file)[k].matcher \/ Widened(k)'
  PROVE  PlansKeep'
<1>1. \A k : Widened(k) => Widened(k)'
  BY WidenedStays
<1>2. ASSUME NEW q \in Proc, pc'[q] \in Writing
      PROVE  /\ file # Broken /\ plan'[q] \in Settings /\ plan'[q].rest = Rest(seen'[q])
             /\ Says(Foreign(file), UserHooks(plan[q]))' 
  <2>1. CASE q = p
    BY <1>2, <2>1 DEF Says
  <2>2. CASE q # p
    <3>1. pc'[q] = pc[q] /\ plan'[q] = plan[q] /\ seen'[q] = seen[q]
      BY <2>2
    <3>2. /\ file # Broken /\ plan[q] \in Settings /\ plan[q].rest = Rest(seen[q])
          /\ Says(Foreign(file), UserHooks(plan[q]))
      BY <1>2, <3>1 DEF PlansKeep
    <3>3. Says(Foreign(file), UserHooks(plan[q]))'
      BY <1>1, <3>1, <3>2, SaysStill, Zenon DEF Says
    <3> QED
      BY <3>1, <3>2, <3>3
  <2> QED
    BY <2>1, <2>2
<1>3. \A q \in Proc : pc'[q] = "start" => seen'[q] = Absent
  BY DEF PlansKeep
<1> QED
  BY <1>2, <1>3 DEF PlansKeep

LEMMA PlansKeepStep ==
  ASSUME InstallInv, PlansKeep, [Next]_vars
  PROVE  PlansKeep'
<1>1. TypeOK
  BY DEF InstallInv
<1>2. ASSUME NEW p \in Proc, Read(p) PROVE PlansKeep'
  <2>1. /\ \A q \in Proc \ {p} : pc'[q] = pc[q] /\ plan'[q] = plan[q] /\ seen'[q] = seen[q]
        /\ file' = file /\ UNCHANGED arguments /\ pc'[p] # "start" /\ pc[p] = "start"
        /\ seen'[p] = file
    BY <1>1, <1>2 DEF Read, Goto, TypeOK
  <2>2. seen[p] = Absent
    BY <2>1 DEF PlansKeep
  <2>3. ASSUME pc'[p] \in Writing
        PROVE  /\ file # Broken
               /\ \/ plan'[p] = Merged(Seen) /\ command[p] = "install"
                  \/ plan'[p] = Unmanaged(Seen)
    BY <1>1, <1>2, <2>3 DEF Read, Goto, TypeOK, Writing
  <2>4. ASSUME pc'[p] \in Writing
        PROVE  /\ file # Broken /\ plan'[p] \in Settings /\ plan'[p].rest = Rest(seen'[p])
               /\ Len(UserHooks(plan'[p])) = Len(Foreign(file))
               /\ \A k \in 1..Len(Foreign(file)) :
                    UserHooks(plan'[p])[k].matcher = Foreign(file)[k].matcher \/ Widened(k)'
    <3>1. PICK s \in Settings : /\ s = Seen /\ UserHooks(s) = Foreign(file) /\ s.rest = Rest(file)
                                /\ UserHooks(s) \in Seq(Tag)
      BY <2>3, <2>4, SeenKeeps
    <3>2. CASE plan'[p] = Merged(s) /\ command[p] = "install"
      <4>1. Merged(s) \in Settings /\ Keeps(s, Merged(s), target # "codex")
        BY MergedSettings
      <4>2. ASSUME NEW k \in 1..Len(Foreign(file)), target # "codex", Foreign(file)[k].shared
            PROVE  Widened(k)'
        <5>1. target' = "claude-code" /\ command'[p] = "install"
          BY <1>1, <2>1, <3>2, <4>2 DEF TypeOK, arguments
        <5>2. k \in DOMAIN Foreign(seen'[p]) /\ Foreign(seen'[p])[k].shared
          <6>1. Foreign(file) \in Seq(Tag)
            BY <3>1
          <6> QED
            BY <2>1, <4>2, <6>1
        <5> QED
          BY <5>1, <5>2 DEF Widened
      <4>3. /\ Merged(s).rest = Rest(file) /\ Len(UserHooks(Merged(s))) = Len(Foreign(file))
            /\ \A k \in 1..Len(Foreign(file)) :
                 \/ UserHooks(Merged(s))[k].matcher = Foreign(file)[k].matcher
                 \/ target # "codex" /\ Foreign(file)[k].shared
        BY <3>1, <4>1 DEF Keeps, Follows
      <4> QED
        BY <2>1, <2>3, <2>4, <3>2, <4>1, <4>2, <4>3
    <3>3. CASE plan'[p] = Unmanaged(s)
      <4>1. Unmanaged(s) \in Settings /\ Keeps(s, Unmanaged(s), FALSE)
        BY UninstallKeeps
      <4>2. /\ Unmanaged(s).rest = Rest(file) /\ Len(UserHooks(Unmanaged(s))) = Len(Foreign(file))
            /\ \A k \in 1..Len(Foreign(file)) :
                 UserHooks(Unmanaged(s))[k].matcher = Foreign(file)[k].matcher
        BY <3>1, <4>1 DEF Keeps, Follows
      <4> QED
        BY <2>1, <2>3, <2>4, <3>3, <4>1, <4>2
    <3> QED
      BY <2>3, <2>4, <3>1, <3>2, <3>3
  <2> QED
    BY <2>1, <2>2, <2>4, OthersKeep
<1>3. ASSUME NEW p \in Proc, Replace(p) PROVE PlansKeep'
  <2>1. /\ pc[p] = "replace" /\ file' = plan[p] /\ UNCHANGED <<arguments, plan, seen>>
        /\ \A q \in Proc : pc'[q] \in Writing => pc[q] \in Writing
        /\ \A q \in Proc : pc'[q] = "start" => pc[q] = "start"
    BY <1>1, <1>3 DEF Replace, Move, Goto, TypeOK, Writing
  <2>2. plan[p] \in Settings /\ Says(Foreign(file), UserHooks(plan[p]))
    BY <2>1 DEF PlansKeep, Writing
  <2>3. Foreign(plan[p]) = UserHooks(plan[p]) /\ plan[p] \notin {Absent, Broken}
    BY <2>2, UserHooksTypes, InstallAssumption
  <2>4. \A k : Widened(k) => Widened(k)'
    BY <2>1, WidenedStays
  <2>5. ASSUME NEW q \in Proc, pc'[q] \in Writing
        PROVE  /\ plan[q] \in Settings /\ plan[q].rest = Rest(seen[q])
               /\ Len(UserHooks(plan[q])) = Len(Foreign(plan[p]))
               /\ \A k \in 1..Len(Foreign(plan[p])) :
                    UserHooks(plan[q])[k].matcher = Foreign(plan[p])[k].matcher \/ Widened(k)'
    <3>1. /\ plan[q] \in Settings /\ plan[q].rest = Rest(seen[q])
          /\ Says(Foreign(file), UserHooks(plan[q]))
      BY <2>1, <2>5 DEF PlansKeep
    <3> QED
      BY <2>2, <2>3, <2>4, <3>1 DEF Says
  <2>6. \A q \in Proc : pc'[q] \in Writing => Says(Foreign(file), UserHooks(plan[q]))'
    BY <2>1, <2>5 DEF Says
  <2> QED
    BY <2>1, <2>2, <2>3, <2>5, <2>6 DEF PlansKeep
<1>4. CASE Edit
  <2>1. /\ file # Broken /\ file' = [Seen EXCEPT !.rest = @ + 1]
        /\ UNCHANGED <<arguments, pc, plan, seen>>
    BY <1>4 DEF Edit
  <2>2. Seen \in Settings /\ UserHooks(Seen) = Foreign(file)
    BY <2>1, SeenKeeps
  <2>3. PICK s \in Settings : s = [Seen EXCEPT !.rest = @ + 1] /\ s.entries = Seen.entries
    <3>1. PICK t \in Settings : t = Seen
      BY <2>2
    <3>2. [t EXCEPT !.rest = @ + 1] \in Settings /\ [t EXCEPT !.rest = @ + 1].entries = t.entries
      BY DEF Settings
    <3> QED
      BY <3>1, <3>2, Zenon
  <2>4. Foreign(s) = Foreign(file) /\ s \notin {Absent, Broken}
    <3>1. UserHooks(s) = UserHooks(Seen)
      BY <2>3 DEF UserHooks
    <3> QED
      BY <2>2, <2>3, <3>1, UserHooksTypes, InstallAssumption
  <2>5. \A k : Widened(k) => Widened(k)'
    BY <2>1, WidenedStays
  <2>6. ASSUME NEW q \in Proc, pc[q] \in Writing PROVE Says(Foreign(file), UserHooks(plan[q]))'
    <3>1. Says(Foreign(file), UserHooks(plan[q]))
      BY <2>6 DEF PlansKeep
    <3>2. Foreign(file') = Foreign(file) /\ plan'[q] = plan[q]
      BY <2>1, <2>3, <2>4
    <3> QED
      BY <2>5, <3>1, <3>2, SaysStill, Zenon DEF Says
  <2> QED
    BY <2>1, <2>3, <2>4, <2>6 DEF PlansKeep
<1>5. ASSUME NEW p \in Proc, Step(p), ~ Read(p), ~ Replace(p) PROVE PlansKeep'
  <2>1. /\ \A q \in Proc \ {p} : pc'[q] = pc[q]
        /\ UNCHANGED <<arguments, plan, seen>> /\ file' = file
        /\ pc'[p] \in Writing => pc[p] \in Writing
        /\ pc'[p] # "start"
    BY <1>1, <1>5
    DEF Step, Answer, CheckRecording, ChooseName, CopyFile, FinishCopy, Prepare, MakeDirectory,
        WriteIgnore, Recheck, AnswerRepair, Fail, Move, Goto, TypeOK, settings, Writing
  <2>2. pc[p] \in Writing => /\ file # Broken /\ plan[p] \in Settings
                             /\ plan[p].rest = Rest(seen[p])
                             /\ Says(Foreign(file), UserHooks(plan[p]))
    BY DEF PlansKeep
  <2>3. \A k : Widened(k) => Widened(k)'
    BY <2>1, WidenedStays
  <2> QED
    BY <2>1, <2>2, <2>3, SaysStill, OthersKeep
<1>6. CASE UNCHANGED vars
  <2>1. /\ file' = file /\ UNCHANGED <<arguments, pc, plan, seen>>
    BY <1>6 DEF vars, settings
  <2> QED
    BY <2>1, Zenon DEF PlansKeep, Says, Widened, arguments
<1> QED
  BY <1>2, <1>3, <1>4, <1>5, <1>6 DEF Next

LEMMA PlansAlwaysKeep == Spec => []PlansKeep
<1>1. Init => PlansKeep
  BY InstallAssumption DEF Init, PlansKeep, Writing
<1> QED
  BY <1>1, PlansKeepStep, InstallInvariant, PTL DEF Spec

(* Running install again finds nothing to do, whatever other commands and    *)
(* users have made of the file; where all it found were exec hooks of Codex  *)
(* the second run appends the hook and the third has nothing to do.          *)
THEOREM InstallsSettle == Spec => []InstallSettles
<1>1. PlansKeep => InstallSettles
  BY MergedSettings DEF PlansKeep, InstallSettles, Settled
<1> QED
  BY <1>1, PlansAlwaysKeep, PTL

-----------------------------------------------------------------------------
(* What a step may not do. *)

(* No hook is registered before there is a directory for its records.        *)
THEOREM HooksHaveRecording == Spec => RegisteredCanRecord
<1>1. InstallInv /\ [Next]_vars =>
        [\A p \in Proc : pc[p] # "installed" /\ pc'[p] = "installed"
           => recording \in {"bare", "ready"}]_vars
  <2> SUFFICES ASSUME InstallInv, Next, NEW p \in Proc,
                      pc[p] # "installed", pc'[p] = "installed"
               PROVE  recording \in {"bare", "ready"}
    OBVIOUS
  <2>1. TypeOK /\ Recordable
    BY DEF InstallInv
  <2>2. PICK q \in Proc : Step(q)
    BY DEF Next, Edit
  <2>3. CASE Replace(q)
    BY <2>1, <2>3 DEF Replace, Move, Goto, TypeOK, Recordable
  <2>4. CASE ~ Replace(q)
    BY <2>1, <2>2, <2>4
    DEF Step, Read, Answer, CheckRecording, ChooseName, CopyFile, FinishCopy, Prepare,
        MakeDirectory, WriteIgnore, Recheck, AnswerRepair, Fail, Move, Goto, TypeOK
  <2> QED
    BY <2>3, <2>4
<1> QED
  BY <1>1, InstallInvariant, PTL DEF Spec, RegisteredCanRecord

(* No command replaces a file it left unsaved, whatever names the others     *)
(* take for their backups, unless one that has its name is in its copy, was  *)
(* stopped or copied another text.                                           *)
THEOREM NothingIsLost == Spec => ReplacedIsBackedUp
<1>1. InstallInv /\ [Next]_vars =>
        [\A p \in Proc : Replace(p) /\ fresh[p] /\ file # Absent /\ Alone(p) =>
           \E n \in DOMAIN backups : backups[n] = file]_vars
  BY DEF InstallInv, BackedUp, Replace, Move
<1> QED
  BY <1>1, InstallInvariant, PTL DEF Spec, ReplacedIsBackedUp

(* No command, install or uninstall, changes a user's hook, the tools it is  *)
(* called for, their order or another field, if it has seen the user's last  *)
(* edit, but for the matchers that install widens.                           *)
THEOREM UserSettingsKept == Spec => ForeignKept
<1>1. PlansKeep /\ [Next]_vars =>
        [\A p \in Proc : Replace(p) /\ Rest(seen[p]) = Rest(file) =>
           /\ Rest(file') = Rest(file) /\ Len(Foreign(file')) = Len(Foreign(file))
           /\ \A k \in DOMAIN Foreign(file) :
                Foreign(file')[k].matcher = Foreign(file)[k].matcher \/ Widened(k)]_vars
  <2> SUFFICES ASSUME PlansKeep, NEW p \in Proc, Replace(p), Rest(seen[p]) = Rest(file)
               PROVE  /\ Rest(file') = Rest(file) /\ Len(Foreign(file')) = Len(Foreign(file))
                      /\ \A k \in DOMAIN Foreign(file) :
                           Foreign(file')[k].matcher = Foreign(file)[k].matcher \/ Widened(k)
    OBVIOUS
  <2>1. pc[p] = "replace" /\ file' = plan[p]
    BY DEF Replace, Move
  <2>2. /\ file # Broken /\ plan[p] \in Settings /\ plan[p].rest = Rest(seen[p])
        /\ Says(Foreign(file), UserHooks(plan[p]))
    BY <2>1 DEF PlansKeep, Writing
  <2>3. Foreign(file') = UserHooks(plan[p]) /\ Rest(file') = plan[p].rest
    BY <2>1, <2>2, UserHooksTypes
  <2>4. Foreign(file) \in Seq(Tag)
    BY <2>2, SeenKeeps
  <2> QED
    BY <2>2, <2>3, <2>4 DEF Says
<1> QED
  BY <1>1, PlansAlwaysKeep, PTL DEF Spec, ForeignKept

=============================================================================

------------------------------ MODULE FormProofs ------------------------------
(***************************************************************************)
(* What the form of an entry promises, for procedures, error guides and    *)
(* configurations of any length, any size of a batch and any limit of a    *)
(* branch.  The assembly walks over a list and carries an accumulator, so  *)
(* everything here is an induction on how far the walk has come: the       *)
(* lemmas about induction come first, with sets in place of predicates.    *)
(***************************************************************************)
EXTENDS FormFields, WellFoundedInduction, FiniteSetTheorems, SequenceTheorems, TLAPS

-----------------------------------------------------------------------------
(* Induction.                                                              *)

Below == {p \in Nat \X Nat : p[1] < p[2]}

\* Least: a set of natural numbers that is not empty has a least member.
LEMMA Least ==
    ASSUME NEW S, S \subseteq Nat, S # {}
    PROVE  \E x \in S : \A y \in S : x <= y
<1>1. Below = OpToRel(<, Nat)
  BY DEF Below, OpToRel
<1>2. IsWellFoundedOn(Below, Nat)
  BY <1>1, NatLessThanWellFounded
<1>3. PICK x \in S : \A y \in S : <<y, x>> \notin Below
  BY <1>2, WFMin
<1>4. \A y \in S : <<y, x>> \in Nat \X Nat /\ <<y, x>>[1] = y /\ <<y, x>>[2] = x
  OBVIOUS
<1>5. \A y \in S : ~ (y < x)
  BY <1>3, <1>4, Zenon DEF Below
<1> QED
  BY <1>5

\* Climb: what holds at the start of a walk, and holds after a step if it held
\* before, holds all along.
LEMMA Climb ==
    ASSUME NEW k \in Nat, NEW T, 0 \in T, \A i \in 1..k : i - 1 \in T => i \in T
    PROVE  \A i \in 0..k : i \in T
<1> DEFINE U == (0..k) \ T
<1>1. SUFFICES ASSUME U # {} PROVE FALSE
  OBVIOUS
<1>2. U \subseteq Nat /\ \A y : y \in U <=> y \in 0..k /\ y \notin T
  OBVIOUS
<1> HIDE DEF U
<1>3. PICK x \in U : \A y \in U : x <= y
  BY <1>1, <1>2, Least
<1>4. x \in 0..k /\ x \notin T /\ x # 0
  BY <1>2, <1>3
<1>5. x \in 1..k /\ x - 1 \in 0..k /\ ~ (x <= x - 1)
  BY <1>4
<1>6. x - 1 \in T
  BY <1>2, <1>3, <1>5
<1> QED
  BY <1>4, <1>5, <1>6

Walks(acc, k, S, base, next) ==
    /\ acc \in [0..k -> S]
    /\ acc[0] = base
    /\ \A i \in 1..k : acc[i] = next[<<acc[i - 1], i>>]

\* Walk: a recursion along a walk has a solution.
LEMMA Walk ==
    ASSUME NEW k \in Nat, NEW S, NEW base \in S, NEW next \in [S \X (1..k) -> S]
    PROVE  \E acc : Walks(acc, k, S, base, next)
<1> DEFINE Good(h, n) == Walks(h, n, S, base, next)
           T == {n \in 0..k : \E h : Good(h, n)}
<1>1. 0 \in T
  <2>1. \E h : Good(h, 0)
    <3>1. Good([i \in 0..0 |-> base], 0)
      BY DEF Walks
    <3> QED
      BY <3>1, Zenon
  <2> QED
    BY <2>1
<1>2. ASSUME NEW n \in 1..k, n - 1 \in T
      PROVE  n \in T
  <2>1. PICK h : Good(h, n - 1)
    BY <1>2
  <2>2. /\ h \in [0..(n - 1) -> S] /\ h[0] = base
        /\ \A i \in 1..(n - 1) : h[i] = next[<<h[i - 1], i>>]
    BY <2>1 DEF Walks
  <2> DEFINE g == [i \in 0..n |-> IF i = n THEN next[<<h[n - 1], n>>] ELSE h[i]]
  <2>3. n - 1 \in 0..(n - 1) /\ h[n - 1] \in S
    BY <2>2
  <2>4. <<h[n - 1], n>> \in S \X (1..k)
    BY <2>3
  <2>5. next[<<h[n - 1], n>>] \in S
    BY <2>4
  <2>6. g \in [0..n -> S]
    <3>1. \A i \in 0..n : i # n => i \in 0..(n - 1)
      OBVIOUS
    <3> QED
      BY <2>2, <2>5, <3>1
  <2>7. g[0] = base
    BY <2>2
  <2>8. ASSUME NEW i \in 1..n
        PROVE  g[i] = next[<<g[i - 1], i>>]
    <3>1. CASE i = n
      <4>1. n \in 0..n /\ n - 1 \in 0..n /\ n - 1 # n
        OBVIOUS
      <4>2. g[n] = next[<<h[n - 1], n>>] /\ g[n - 1] = h[n - 1]
        BY <4>1
      <4> QED
        BY <3>1, <4>2
    <3>2. CASE i # n
      <4>1. i \in 1..(n - 1) /\ i \in 0..n /\ i - 1 \in 0..n /\ i - 1 # n
        BY <3>2
      <4>2. g[i] = h[i] /\ g[i - 1] = h[i - 1]
        BY <3>2, <4>1
      <4> QED
        BY <2>2, <4>1, <4>2
    <3> QED
      BY <3>1, <3>2
  <2>9. Good(g, n)
    BY <2>6, <2>7, <2>8 DEF Walks
  <2> HIDE DEF Good
  <2> QED
    BY <2>9
<1>3. k \in T
  <2> HIDE DEF T
  <2> QED
    BY <1>1, <1>2, Climb
<1> QED
  BY <1>3

-----------------------------------------------------------------------------
(* Filters.                                                                *)

KeepsOf(acc, T, s, S) ==
    /\ acc \in [0..Len(s) -> Seq(T)]
    /\ acc[0] = <<>>
    /\ \A i \in 1..Len(s) :
          acc[i] = IF s[i] \in S THEN Append(acc[i - 1], s[i]) ELSE acc[i - 1]
    /\ Keep(s, S) = acc[Len(s)]

\* KeepWalk: Keep goes from one end of a sequence to the other.
LEMMA KeepWalk ==
    ASSUME NEW T, NEW s \in Seq(T), NEW S
    PROVE  \E acc : KeepsOf(acc, T, s, S)
<1> DEFINE k == Len(s)
           next == [p \in Seq(T) \X (1..k) |->
                       IF s[p[2]] \in S THEN Append(p[1], s[p[2]]) ELSE p[1]]
           eqn(f) == f = [i \in 0..k |-> IF i = 0 THEN <<>>
                                         ELSE IF s[i] \in S THEN Append(f[i - 1], s[i])
                                         ELSE f[i - 1]]
           kept == CHOOSE f : eqn(f)
<1>1. k \in Nat /\ <<>> \in Seq(T) /\ next \in [Seq(T) \X (1..k) -> Seq(T)]
  OBVIOUS
<1>2. PICK acc : Walks(acc, k, Seq(T), <<>>, next)
  <2> HIDE DEF next, k
  <2> QED
    BY <1>1, Walk
<1>3. /\ acc \in [0..k -> Seq(T)] /\ acc[0] = <<>>
      /\ \A i \in 1..k : acc[i] = next[<<acc[i - 1], i>>]
  BY <1>2 DEF Walks
<1>4. ASSUME NEW i \in 1..k
      PROVE  acc[i] = IF s[i] \in S THEN Append(acc[i - 1], s[i]) ELSE acc[i - 1]
  <2>1. \A a \in Seq(T) : next[<<a, i>>] = IF s[i] \in S THEN Append(a, s[i]) ELSE a
    OBVIOUS
  <2>2. acc[i - 1] \in Seq(T)
    BY <1>3
  <2> QED
    BY <1>3, <2>1, <2>2
<1>5. eqn(acc)
  <2>1. \A i \in 0..k : i # 0 => i \in 1..k
    OBVIOUS
  <2>2. \A i \in 0..k : acc[i] = IF i = 0 THEN <<>>
                                 ELSE IF s[i] \in S THEN Append(acc[i - 1], s[i])
                                 ELSE acc[i - 1]
    BY <1>3, <1>4, <2>1
  <2>3. acc = [i \in 0..k |-> acc[i]]
    BY <1>3
  <2> QED
    BY <2>2, <2>3
<1>6. eqn(kept)
  BY <1>5, Zenon
<1>7. Keep(s, S) = kept[k]
  BY DEF Keep
<1> HIDE DEF kept
<1>8. kept[0] = <<>> /\ \A i \in 1..k :
         kept[i] = IF s[i] \in S THEN Append(kept[i - 1], s[i]) ELSE kept[i - 1]
  <2>1. 0 \in 0..k /\ \A i \in 1..k : i \in 0..k /\ i # 0
    OBVIOUS
  <2> QED
    BY <1>6, <2>1
<1> DEFINE U == {i \in 0..k : kept[i] = acc[i]}
<1>9. \A i \in 0..k : i \in U
  <2>1. 0 \in U
    BY <1>3, <1>8
  <2>2. ASSUME NEW i \in 1..k, i - 1 \in U
        PROVE  i \in U
    <3>1. kept[i - 1] = acc[i - 1]
      BY <2>2
    <3> QED
      BY <1>4, <1>8, <3>1
  <2> HIDE DEF U
  <2> QED
    BY <1>1, <2>1, <2>2, Climb
<1>10. Keep(s, S) = acc[k]
  <2>1. k \in 0..k
    OBVIOUS
  <2> QED
    BY <1>7, <1>9, <2>1
<1> QED
  BY <1>3, <1>4, <1>10 DEF KeepsOf

\* pos tells where what was kept of the first k members of s stood.
Places(pos, kept, s, S, k) ==
    /\ Len(kept) <= k
    /\ pos \in [1..Len(kept) -> 1..k]
    /\ \A j \in 1..Len(kept) : kept[j] = s[pos[j]] /\ s[pos[j]] \in S
    /\ \A j, l \in 1..Len(kept) : j < l => pos[j] < pos[l]
    /\ \A n \in 1..k : s[n] \in S => \E j \in 1..Len(kept) : pos[j] = n

\* KeepPlaces: Keep lets through, in order, the members that are in the set.
LEMMA KeepPlaces ==
    ASSUME NEW T, NEW s \in Seq(T), NEW S
    PROVE  Keep(s, S) \in Seq(T) /\ \E pos : Places(pos, Keep(s, S), s, S, Len(s))
<1>1. PICK acc : KeepsOf(acc, T, s, S)
  BY KeepWalk
<1>2. /\ acc \in [0..Len(s) -> Seq(T)]
      /\ acc[0] = <<>>
      /\ \A i \in 1..Len(s) :
            acc[i] = IF s[i] \in S THEN Append(acc[i - 1], s[i]) ELSE acc[i - 1]
      /\ Keep(s, S) = acc[Len(s)]
  BY <1>1 DEF KeepsOf
<1> DEFINE U == {i \in 0..Len(s) : \E pos : Places(pos, acc[i], s, S, i)}
<1>3. 0 \in U
  <2>1. Places([j \in 1..0 |-> 1], acc[0], s, S, 0)
    BY <1>2 DEF Places
  <2> QED
    BY <2>1
<1>4. ASSUME NEW i \in 1..Len(s), i - 1 \in U
      PROVE  i \in U
  <2>1. PICK pos : Places(pos, acc[i - 1], s, S, i - 1)
    BY <1>4
  <2> DEFINE old == acc[i - 1]
             m == Len(old)
  <2>2. i - 1 \in 0..Len(s) /\ i \in 0..Len(s) /\ old \in Seq(T) /\ m \in Nat
    <3>1. Len(s) \in Nat
      OBVIOUS
    <3>2. i - 1 \in 0..Len(s) /\ i \in 0..Len(s)
      <4> HIDE DEF U, old, m
      <4> QED
        BY <3>1
    <3>3. old \in Seq(T)
      <4>1. acc \in [0..Len(s) -> Seq(T)]
        BY <1>2
      <4> HIDE DEF U, m
      <4> QED
        BY <3>2, <4>1
    <3>4. m \in Nat
      <4> HIDE DEF U, old
      <4> QED
        BY <3>3
    <3> QED
      BY <3>2, <3>3, <3>4
  <2>3. /\ m <= i - 1
        /\ pos \in [1..m -> 1..(i - 1)]
        /\ \A j \in 1..m : old[j] = s[pos[j]] /\ s[pos[j]] \in S
        /\ \A j, l \in 1..m : j < l => pos[j] < pos[l]
        /\ \A n \in 1..(i - 1) : s[n] \in S => \E j \in 1..m : pos[j] = n
    BY <2>1 DEF Places
  <2>4. acc[i] = IF s[i] \in S THEN Append(old, s[i]) ELSE old
    BY <1>2
  <2> HIDE DEF old, m
  <2>5. CASE s[i] \in S
    <3> DEFINE new == [j \in 1..(m + 1) |-> IF j = m + 1 THEN i ELSE pos[j]]
               all == Append(old, s[i])
    <3>1. /\ Len(all) = m + 1 /\ all[m + 1] = s[i]
          /\ \A j \in 1..m : all[j] = old[j]
      BY <2>2 DEF m
    <3>2. \A j \in 1..(m + 1) : j # m + 1 => j \in 1..m
      BY <2>2
    <3>3. new[m + 1] = i /\ \A j \in 1..m : new[j] = pos[j]
      BY <2>2
    <3>4. new \in [1..(m + 1) -> 1..i]
      BY <2>2, <2>3, <3>2
    <3> HIDE DEF new, all
    <3>5. \A j \in 1..(m + 1) : all[j] = s[new[j]] /\ s[new[j]] \in S
      BY <2>3, <2>5, <3>1, <3>2, <3>3
    <3>6. \A j, l \in 1..(m + 1) : j < l => new[j] < new[l]
      <4> SUFFICES ASSUME NEW j \in 1..(m + 1), NEW l \in 1..(m + 1), j < l
                   PROVE  new[j] < new[l]
        OBVIOUS
      <4>1. j \in 1..m /\ new[j] = pos[j] /\ pos[j] \in 1..(i - 1)
        BY <2>2, <2>3, <3>3
      <4> QED
        BY <2>3, <3>2, <3>3, <4>1
    <3>7. \A n \in 1..i : s[n] \in S => \E j \in 1..(m + 1) : new[j] = n
      <4> SUFFICES ASSUME NEW n \in 1..i, s[n] \in S
                   PROVE  \E j \in 1..(m + 1) : new[j] = n
        OBVIOUS
      <4>1. CASE n = i
        BY <2>2, <3>3, <4>1
      <4>2. CASE n # i
        <5>1. n \in 1..(i - 1)
          BY <4>2
        <5>2. PICK j \in 1..m : pos[j] = n
          BY <2>3, <5>1
        <5> QED
          BY <2>2, <3>3, <5>2
      <4> QED
        BY <4>1, <4>2
    <3>8. Places(new, all, s, S, i)
      BY <2>2, <2>3, <3>1, <3>4, <3>5, <3>6, <3>7 DEF Places
    <3>9. acc[i] = all
      BY <2>4, <2>5 DEF all
    <3> QED
      BY <2>2, <3>8, <3>9
  <2>6. CASE s[i] \notin S
    <3>1. acc[i] = old
      BY <2>4, <2>6
    <3>2. pos \in [1..m -> 1..i]
      BY <2>2, <2>3
    <3>3. \A n \in 1..i : s[n] \in S => n \in 1..(i - 1)
      BY <2>6
    <3>4. Places(pos, old, s, S, i)
      BY <2>2, <2>3, <3>2, <3>3 DEF Places, m
    <3> QED
      BY <2>2, <3>1, <3>4
  <2> QED
    BY <2>5, <2>6
<1>5. \A i \in 0..Len(s) : i \in U
  <2>1. Len(s) \in Nat
    OBVIOUS
  <2> HIDE DEF U
  <2> QED
    BY <1>3, <1>4, <2>1, Climb
<1>6. Len(s) \in 0..Len(s) /\ Len(s) \in U
  BY <1>5
<1> QED
  BY <1>2, <1>6

-----------------------------------------------------------------------------
(* The batches of a procedure.                                             *)

NumberedStep == [type : StepTypes, text : Texts, acknowledged : BOOLEAN, number : Nat]

Accumulators == [batches : Seq(Seq(NumberedStep)), current : Seq(NumberedStep),
                 inBranch : BOOLEAN, branch : Seq(NumberedStep)]

\* NoteIsAStep: the note of a split looks like a step.
LEMMA NoteIsAStep == Note \in NumberedStep
BY DEF Note, NumberedStep, StepTypes, Texts

\* NumberedSteps: the steps of a form, numbered, are steps.
LEMMA NumberedSteps ==
    ASSUME NEW steps \in Seq(Step)
    PROVE  /\ Numbered(steps) \in Seq(NumberedStep)
           /\ Len(Numbered(steps)) = Len(steps)
           /\ \A i \in 1..Len(steps) : /\ Numbered(steps)[i].number = i
                                       /\ Numbered(steps)[i].type = steps[i].type
<1>1. \A i \in 1..Len(steps) : [steps[i] EXCEPT !.number = i] \in NumberedStep
  <2> SUFFICES ASSUME NEW i \in 1..Len(steps)
               PROVE  [steps[i] EXCEPT !.number = i] \in NumberedStep
    OBVIOUS
  <2>1. steps[i] \in Step /\ i \in Nat
    OBVIOUS
  <2> QED
    BY <2>1 DEF Step, NumberedStep
<1>2. \A i \in 1..Len(steps) : /\ [steps[i] EXCEPT !.number = i].number = i
                              /\ [steps[i] EXCEPT !.number = i].type = steps[i].type
  <2> SUFFICES ASSUME NEW i \in 1..Len(steps)
               PROVE  /\ [steps[i] EXCEPT !.number = i].number = i
                      /\ [steps[i] EXCEPT !.number = i].type = steps[i].type
    OBVIOUS
  <2>1. steps[i] \in Step
    OBVIOUS
  <2> QED
    BY <2>1 DEF Step
<1> DEFINE own(i) == [steps[i] EXCEPT !.number = i]
           all == [i \in 1..Len(steps) |-> own(i)]
<1>3. Numbered(steps) = all
  BY DEF Numbered
<1>4. /\ \A i \in 1..Len(steps) : own(i) \in NumberedStep
      /\ \A i \in 1..Len(steps) : own(i).number = i /\ own(i).type = steps[i].type
  BY <1>1, <1>2
<1> HIDE DEF own
<1>5. all \in Seq(NumberedStep) /\ Len(all) = Len(steps)
  BY <1>4
<1>6. \A i \in 1..Len(steps) : all[i] = own(i)
  OBVIOUS
<1> QED
  BY <1>3, <1>4, <1>5, <1>6

\* SplitInside: a branch is split inside it.
LEMMA SplitInside ==
    ASSUME NEW branch \in Seq(NumberedStep), Len(branch) >= 1
    PROVE  /\ SplitAt(branch) \in 0..Len(branch)
           /\ Len(branch) >= 2 => SplitAt(branch) \in 1..(Len(branch) - 1)
<1> DEFINE over == {i \in 1..Len(branch) : TotalLength(SubSeq(branch, 1, i)) > BranchLimit}
           half == Len(branch) \div 2
           first == CHOOSE i \in over : \A j \in over : i <= j
<1>1. CASE over = {}
  <2>1. SplitAt(branch) = half
    BY <1>1 DEF SplitAt
  <2>2. half \in 0..Len(branch) /\ (Len(branch) >= 2 => half \in 1..(Len(branch) - 1))
    OBVIOUS
  <2> QED
    BY <2>1, <2>2
<1>2. CASE over # {}
  <2>1. SplitAt(branch) = IF first - 2 > 1 THEN first - 2 ELSE 1
    BY <1>2 DEF SplitAt
  <2>2. over \subseteq Nat
    OBVIOUS
  <2> HIDE DEF over
  <2>3. \E i \in over : \A j \in over : i <= j
    BY <1>2, <2>2, Least
  <2>4. first \in over
    BY <2>3, Zenon
  <2>5. first \in 1..Len(branch)
    BY <2>4 DEF over
  <2> QED
    BY <2>1, <2>5
<1> QED
  BY <1>1, <1>2

\* SplitGroups: a split makes two batches of the steps of the branch.
LEMMA SplitGroups ==
    ASSUME NEW branch \in Seq(NumberedStep), Len(branch) >= 1
    PROVE  LET first  == Append(SubSeq(branch, 1, SplitAt(branch)), Note)
               second == <<Note>> \o SubSeq(branch, SplitAt(branch) + 1, Len(branch))
           IN  /\ first \in Seq(NumberedStep) /\ second \in Seq(NumberedStep)
               /\ SplitBranchGroup(branch) = <<first, second>>
               /\ SplitBranchGroup(branch) \in Seq(Seq(NumberedStep))
<1> DEFINE h == SplitAt(branch)
<1>1. h \in 0..Len(branch)
  BY SplitInside
<1>2. SplitBranchGroup(branch) = <<Append(SubSeq(branch, 1, h), Note),
                                   <<Note>> \o SubSeq(branch, h + 1, Len(branch))>>
  BY DEF SplitBranchGroup
<1> HIDE DEF h
<1>3. SubSeq(branch, 1, h) \in Seq(NumberedStep)
  BY <1>1
<1>4. SubSeq(branch, h + 1, Len(branch)) \in Seq(NumberedStep)
  BY <1>1
<1>5. <<Note>> \in Seq(NumberedStep)
  BY NoteIsAStep
<1>6. <<Note>> \o SubSeq(branch, h + 1, Len(branch)) \in Seq(NumberedStep)
  BY <1>4, <1>5, ConcatProperties
<1>7. Append(SubSeq(branch, 1, h), Note) \in Seq(NumberedStep)
  BY <1>3, NoteIsAStep, AppendProperties
<1>8. SplitBranchGroup(branch) \in Seq(Seq(NumberedStep))
  <2> DEFINE first  == Append(SubSeq(branch, 1, h), Note)
             second == <<Note>> \o SubSeq(branch, h + 1, Len(branch))
             S      == Seq(NumberedStep)
  <2>1. first \in S /\ second \in S /\ SplitBranchGroup(branch) = <<first, second>>
    BY <1>2, <1>6, <1>7
  <2> HIDE DEF first, second, S
  <2> QED
    BY <2>1 DEF S
<1> QED
  BY <1>2, <1>6, <1>7, <1>8 DEF h

\* NonEmptyBatch: an empty batch is left out.
LEMMA NonEmptyBatch ==
    ASSUME NEW batches \in Seq(Seq(NumberedStep)), NEW batch \in Seq(NumberedStep)
    PROVE  /\ NonEmpty(batch) \in Seq(Seq(NumberedStep))
           /\ batches \o NonEmpty(batch) \in Seq(Seq(NumberedStep))
           /\ batch = <<>> => batches \o NonEmpty(batch) = batches
           /\ batch # <<>> => batches \o NonEmpty(batch) = Append(batches, batch)
<1>1. NonEmpty(batch) \in Seq(Seq(NumberedStep))
  BY DEF NonEmpty
<1>2. batch = <<>> => batches \o NonEmpty(batch) = batches
  BY ConcatEmptySeq DEF NonEmpty
<1>3. batch # <<>> => batches \o NonEmpty(batch) = Append(batches, batch)
  BY AppendIsConcat DEF NonEmpty
<1> QED
  BY <1>1, <1>2, <1>3, ConcatProperties

\* SplitBatches: the two halves of a split are added one after the other.
LEMMA SplitBatches ==
    ASSUME NEW batches \in Seq(Seq(NumberedStep)),
           NEW branch \in Seq(NumberedStep), Len(branch) >= 1
    PROVE  batches \o SplitBranchGroup(branch) =
              Append(Append(batches, Append(SubSeq(branch, 1, SplitAt(branch)), Note)),
                     <<Note>> \o SubSeq(branch, SplitAt(branch) + 1, Len(branch)))
<1> DEFINE first  == Append(SubSeq(branch, 1, SplitAt(branch)), Note)
           second == <<Note>> \o SubSeq(branch, SplitAt(branch) + 1, Len(branch))
           S      == Seq(NumberedStep)
<1>1. first \in S /\ second \in S /\ SplitBranchGroup(branch) = <<first, second>>
  BY SplitGroups
<1> SUFFICES batches \o <<first, second>> = Append(Append(batches, first), second)
  BY <1>1
<1> HIDE DEF first, second, S
<1>2. batches \in Seq(S)
  BY DEF S
<1> QED
  BY <1>1, <1>2

\* The accumulator after a step, field by field.
Becomes(b, batches, current, inBranch, branch) ==
    /\ b \in Accumulators
    /\ b.batches = batches /\ b.current = current /\ b.branch = branch
    /\ b.inBranch = inBranch

\* Opens: the start of a branch flushes the batch and buffers the step.
LEMMA Opens ==
    ASSUME NEW a \in Accumulators, NEW step \in NumberedStep, step.type = "branch_start"
    PROVE  Becomes(NextStep(a, step), a.batches \o NonEmpty(a.current), <<>>, TRUE, <<step>>)
<1> DEFINE flushed == a.batches \o NonEmpty(a.current)
           one == <<step>>
<1>1. flushed \in Seq(Seq(NumberedStep))
  BY NonEmptyBatch DEF Accumulators
<1>2. one \in Seq(NumberedStep) /\ <<>> \in Seq(NumberedStep)
  OBVIOUS
<1>3. NextStep(a, step) = [batches |-> flushed, current |-> <<>>, inBranch |-> TRUE,
                           branch |-> one]
  BY DEF NextStep, StartBranch
<1> HIDE DEF flushed, one
<1>4. Becomes(NextStep(a, step), flushed, <<>>, TRUE, one)
  BY <1>1, <1>2, <1>3 DEF Becomes, Accumulators
<1> QED
  BY <1>4 DEF flushed, one

\* Closes: the end of a branch adds it, or the two halves of it, to the batches.
LEMMA Closes ==
    ASSUME NEW a \in Accumulators, NEW step \in NumberedStep,
           step.type = "branch_end", a.inBranch = TRUE
    PROVE  LET branch == Append(a.branch, step)
           IN  IF BranchLength(branch) > BranchLimit
               THEN Becomes(NextStep(a, step), a.batches \o SplitBranchGroup(branch),
                            a.current, FALSE, <<>>)
               ELSE Becomes(NextStep(a, step), Append(a.batches, branch),
                            a.current, FALSE, <<>>)
<1> DEFINE branch == Append(a.branch, step)
           groups == IF BranchLength(branch) > BranchLimit THEN SplitBranchGroup(branch)
                                                           ELSE <<branch>>
           grown  == a.batches \o groups
           S      == Seq(NumberedStep)
<1>1. branch \in S /\ Len(branch) >= 1
  BY DEF Accumulators
<1>2. SplitBranchGroup(branch) \in Seq(S)
  <2> HIDE DEF branch
  <2> QED
    BY <1>1, SplitGroups
<1>3. groups \in Seq(S) /\ a.batches \in Seq(S) /\ a.current \in S /\ <<>> \in S
  <2> HIDE DEF branch
  <2>1. <<branch>> \in Seq(S)
    BY <1>1
  <2> HIDE DEF S
  <2>2. a.batches \in Seq(S) /\ a.current \in S
    BY DEF Accumulators, S
  <2>3. <<>> \in S
    BY DEF S
  <2> QED
    BY <1>2, <2>1, <2>2, <2>3
<1>4. NextStep(a, step) = [a EXCEPT !.batches = a.batches \o groups, !.inBranch = FALSE,
                                    !.branch = <<>>]
  BY DEF NextStep, GrowBranch
<1>5. grown \in Seq(S)
  <2> HIDE DEF groups, S
  <2> QED
    BY <1>3, ConcatProperties
<1>6. a = [batches |-> a.batches, current |-> a.current, inBranch |-> a.inBranch,
           branch |-> a.branch]
  BY DEF Accumulators
<1>7. NextStep(a, step) = [batches |-> grown, current |-> a.current, inBranch |-> FALSE,
                           branch |-> <<>>]
  <2> HIDE DEF groups
  <2> QED
    BY <1>4, <1>6
<1>8. BranchLength(branch) > BranchLimit => grown = a.batches \o SplitBranchGroup(branch)
  OBVIOUS
<1>9. ~ (BranchLength(branch) > BranchLimit) => grown = Append(a.batches, branch)
  <2>1. ~ (BranchLength(branch) > BranchLimit) => grown = a.batches \o <<branch>>
    OBVIOUS
  <2> HIDE DEF branch, grown, S
  <2> QED
    BY <1>1, <1>3, <2>1, AppendIsConcat
<1> HIDE DEF grown, branch
<1>10. Becomes(NextStep(a, step), grown, a.current, FALSE, <<>>)
  BY <1>3, <1>5, <1>7 DEF Becomes, Accumulators
<1> QED
  BY <1>8, <1>9, <1>10 DEF branch

\* Buffers: a step inside a branch joins it.
LEMMA Buffers ==
    ASSUME NEW a \in Accumulators, NEW step \in NumberedStep,
           step.type \notin {"branch_start", "branch_end"}, a.inBranch = TRUE
    PROVE  Becomes(NextStep(a, step), a.batches, a.current, TRUE, Append(a.branch, step))
<1> DEFINE branch == Append(a.branch, step)
<1>1. branch \in Seq(NumberedStep)
  BY DEF Accumulators
<1>2. a = [batches |-> a.batches, current |-> a.current, inBranch |-> a.inBranch,
           branch |-> a.branch]
  BY DEF Accumulators
<1>3. NextStep(a, step) = [a EXCEPT !.branch = branch]
  BY DEF NextStep, GrowBranch
<1> HIDE DEF branch
<1>4. NextStep(a, step) = [batches |-> a.batches, current |-> a.current, inBranch |-> TRUE,
                           branch |-> branch]
  BY <1>2, <1>3
<1> QED
  BY <1>1, <1>4 DEF Becomes, Accumulators, branch

\* Collects: a step outside a branch joins the batch, which is closed when full.
LEMMA Collects ==
    ASSUME NEW a \in Accumulators, NEW step \in NumberedStep,
           step.type # "branch_start", a.inBranch = FALSE
    PROVE  LET batch == Append(a.current, step)
           IN  IF Len(batch) >= StepsPerBatch
               THEN Becomes(NextStep(a, step), Append(a.batches, batch), <<>>, FALSE, a.branch)
               ELSE Becomes(NextStep(a, step), a.batches, batch, FALSE, a.branch)
<1> DEFINE batch == Append(a.current, step)
           full  == Append(a.batches, batch)
<1>1. batch \in Seq(NumberedStep) /\ <<>> \in Seq(NumberedStep)
  BY DEF Accumulators
<1>2. full \in Seq(Seq(NumberedStep))
  <2> HIDE DEF batch
  <2> QED
    BY <1>1 DEF Accumulators
<1>3. a = [batches |-> a.batches, current |-> a.current, inBranch |-> a.inBranch,
           branch |-> a.branch]
  BY DEF Accumulators
<1>4. NextStep(a, step) = IF Len(batch) >= StepsPerBatch
                          THEN [a EXCEPT !.batches = full, !.current = <<>>]
                          ELSE [a EXCEPT !.current = batch]
  BY DEF NextStep, GrowBatch
<1> HIDE DEF batch, full
<1>5. NextStep(a, step) = IF Len(batch) >= StepsPerBatch
                          THEN [batches |-> full, current |-> <<>>, inBranch |-> FALSE,
                                branch |-> a.branch]
                          ELSE [batches |-> a.batches, current |-> batch, inBranch |-> FALSE,
                                branch |-> a.branch]
  BY <1>3, <1>4
<1>6. IF Len(batch) >= StepsPerBatch
      THEN Becomes(NextStep(a, step), full, <<>>, FALSE, a.branch)
      ELSE Becomes(NextStep(a, step), a.batches, batch, FALSE, a.branch)
  BY <1>1, <1>2, <1>5 DEF Becomes, Accumulators
<1> QED
  BY <1>6 DEF batch, full

\* NextStepTypes: an accumulator stays one.
LEMMA NextStepTypes ==
    ASSUME NEW a \in Accumulators, NEW step \in NumberedStep
    PROVE  NextStep(a, step) \in Accumulators
<1>1. CASE step.type = "branch_start"
  BY <1>1, Opens DEF Becomes
<1>2. CASE step.type = "branch_end" /\ a.inBranch = TRUE
  BY <1>2, Closes DEF Becomes
<1>3. CASE step.type \notin {"branch_start", "branch_end"} /\ a.inBranch = TRUE
  BY <1>3, Buffers DEF Becomes
<1>4. CASE step.type # "branch_start" /\ a.inBranch = FALSE
  BY <1>4, Collects DEF Becomes
<1>5. a.inBranch = TRUE \/ a.inBranch = FALSE
  BY DEF Accumulators
<1> QED
  BY <1>1, <1>2, <1>3, <1>4, <1>5

\* acc[i] is the accumulator after i steps.
Batching(acc, steps) ==
    /\ acc \in [0..Len(steps) -> Accumulators]
    /\ acc[0] = NoBatches
    /\ \A i \in 1..Len(steps) : acc[i] = NextStep(acc[i - 1], steps[i])
    /\ BatchSteps(steps) = acc[Len(steps)].batches \o NonEmpty(acc[Len(steps)].branch)
                                                   \o NonEmpty(acc[Len(steps)].current)

\* BatchingWalk: the batches come from one walk over the steps.
LEMMA BatchingWalk ==
    ASSUME NEW steps \in Seq(NumberedStep)
    PROVE  \E acc : Batching(acc, steps)
<1> DEFINE k == Len(steps)
           next == [p \in Accumulators \X (1..k) |-> NextStep(p[1], steps[p[2]])]
           eqn(f) == f = [i \in 0..k |-> IF i = 0 THEN NoBatches
                                         ELSE NextStep(f[i - 1], steps[i])]
           walk == CHOOSE f : eqn(f)
<1>1. k \in Nat
  OBVIOUS
<1>2. NoBatches \in Accumulators
  BY DEF NoBatches, Accumulators
<1>3. next \in [Accumulators \X (1..k) -> Accumulators]
  BY NextStepTypes
<1>4. PICK acc : Walks(acc, k, Accumulators, NoBatches, next)
  <2> HIDE DEF next, k
  <2> QED
    BY <1>1, <1>2, <1>3, Walk
<1>5. /\ acc \in [0..k -> Accumulators] /\ acc[0] = NoBatches
      /\ \A i \in 1..k : acc[i] = next[<<acc[i - 1], i>>]
  BY <1>4 DEF Walks
<1>6. ASSUME NEW i \in 1..k
      PROVE  acc[i] = NextStep(acc[i - 1], steps[i])
  <2>1. \A a \in Accumulators : next[<<a, i>>] = NextStep(a, steps[i])
    OBVIOUS
  <2>2. acc[i - 1] \in Accumulators
    BY <1>5
  <2> QED
    BY <1>5, <2>1, <2>2
<1>7. eqn(acc)
  <2>1. \A i \in 0..k : i # 0 => i \in 1..k
    OBVIOUS
  <2>2. \A i \in 0..k : acc[i] = IF i = 0 THEN NoBatches ELSE NextStep(acc[i - 1], steps[i])
    BY <1>5, <1>6, <2>1
  <2>3. acc = [i \in 0..k |-> acc[i]]
    BY <1>5
  <2> QED
    BY <2>2, <2>3
<1>8. eqn(walk)
  BY <1>7, Zenon
<1>9. BatchSteps(steps) = walk[k].batches \o NonEmpty(walk[k].branch)
                                          \o NonEmpty(walk[k].current)
  BY DEF BatchSteps
<1> HIDE DEF walk
<1>10. walk[0] = NoBatches /\ \A i \in 1..k : walk[i] = NextStep(walk[i - 1], steps[i])
  <2>1. 0 \in 0..k /\ \A i \in 1..k : i \in 0..k /\ i # 0
    OBVIOUS
  <2> QED
    BY <1>8, <2>1
<1> DEFINE U == {i \in 0..k : walk[i] = acc[i]}
<1>11. \A i \in 0..k : i \in U
  <2>1. 0 \in U
    BY <1>5, <1>10
  <2>2. ASSUME NEW i \in 1..k, i - 1 \in U
        PROVE  i \in U
    <3>1. walk[i - 1] = acc[i - 1]
      BY <2>2
    <3> QED
      BY <1>6, <1>10, <3>1
  <2> HIDE DEF U
  <2> QED
    BY <1>1, <2>1, <2>2, Climb
<1>12. walk[k] = acc[k]
  <2>1. k \in 0..k
    OBVIOUS
  <2> QED
    BY <1>11, <2>1
<1>13. Batching(acc, steps)
  BY <1>5, <1>6, <1>9, <1>12 DEF Batching
<1> QED
  BY <1>13

\* FlushedLength: a flush adds at most one batch, and none if the batch is empty.
LEMMA FlushedLength ==
    ASSUME NEW batches \in Seq(Seq(NumberedStep)), NEW batch \in Seq(NumberedStep)
    PROVE  /\ Len(batches) \in Nat /\ Len(batch) \in Nat
           /\ Len(batches \o NonEmpty(batch)) \in Nat
           /\ Len(batches \o NonEmpty(batch)) <= Len(batches) + Len(batch)
<1> DEFINE S == Seq(NumberedStep)
<1>1. Len(batch) \in Nat /\ (batch # <<>> => Len(batch) >= 1)
  OBVIOUS
<1>2. batches \in Seq(S) /\ batch \in S
  OBVIOUS
<1> HIDE DEF S
<1>3. Len(batches) \in Nat /\ Len(Append(batches, batch)) = Len(batches) + 1
  BY <1>2
<1>4. CASE batch = <<>>
  <2>1. batches \o NonEmpty(batch) = batches
    BY <1>4, NonEmptyBatch
  <2> QED
    BY <1>1, <1>3, <2>1
<1>5. CASE batch # <<>>
  <2>1. batches \o NonEmpty(batch) = Append(batches, batch)
    BY <1>5, NonEmptyBatch
  <2> QED
    BY <1>1, <1>3, <1>5, <2>1
<1> QED
  BY <1>4, <1>5

\* The batches an accumulator stands for, at most.
Closed(a) == Len(a.batches)
Collected(a) == Len(a.current)
Buffered(a) == Len(a.branch)
Size(a) == Closed(a) + Collected(a) + Buffered(a)

\* SizesAreNumbers: all of these are natural numbers.
LEMMA SizesAreNumbers ==
    ASSUME NEW a \in Accumulators
    PROVE  Closed(a) \in Nat /\ Collected(a) \in Nat /\ Buffered(a) \in Nat /\ Size(a) \in Nat
<1>1. a.batches \in Seq(Seq(NumberedStep)) /\ a.current \in Seq(NumberedStep)
      /\ a.branch \in Seq(NumberedStep)
  BY DEF Accumulators
<1>2. Closed(a) \in Nat /\ Collected(a) \in Nat /\ Buffered(a) \in Nat
  BY <1>1, FlushedLength DEF Closed, Collected, Buffered
<1> QED
  BY <1>2 DEF Size

\* SizeGrows: a step adds at most one to it.
LEMMA SizeGrows ==
    ASSUME NEW a \in Accumulators, NEW step \in NumberedStep,
           a.inBranch = TRUE => Buffered(a) >= 1
    PROVE  /\ Size(NextStep(a, step)) <= Size(a) + 1
           /\ NextStep(a, step).inBranch = TRUE => Buffered(NextStep(a, step)) >= 1
<1> DEFINE b == NextStep(a, step)
           S == Seq(NumberedStep)
<1>1. /\ a.batches \in Seq(S) /\ a.current \in S /\ a.branch \in S
      /\ b.batches \in Seq(S) /\ b.current \in S /\ b.branch \in S
  BY NextStepTypes DEF Accumulators
<1>2. /\ Len(Append(a.current, step)) = Collected(a) + 1
      /\ Len(Append(a.branch, step)) = Buffered(a) + 1
      /\ Len(<<step>>) = 1 /\ Len(<<>>) = 0
      /\ Append(a.current, step) \in S /\ Append(a.branch, step) \in S
  BY <1>1 DEF Collected, Buffered
<1>3. /\ Closed(a) \in Nat /\ Collected(a) \in Nat /\ Buffered(a) \in Nat /\ Size(a) \in Nat
      /\ Closed(b) \in Nat /\ Collected(b) \in Nat /\ Buffered(b) \in Nat /\ Size(b) \in Nat
  BY NextStepTypes, SizesAreNumbers
<1>4. Size(a) = Closed(a) + Collected(a) + Buffered(a) /\ Size(b) = Closed(b) + Collected(b) + Buffered(b)
  BY DEF Size
<1> HIDE DEF b
<1> SUFFICES Size(b) <= Size(a) + 1 /\ (b.inBranch = TRUE => Buffered(b) >= 1)
  BY DEF b
<1>5. CASE step.type = "branch_start"
  <2>1. Becomes(b, a.batches \o NonEmpty(a.current), <<>>, TRUE, <<step>>)
    BY <1>5, Opens DEF b
  <2>2. /\ b.batches = a.batches \o NonEmpty(a.current)
        /\ b.current = <<>> /\ b.branch = <<step>>
    BY <2>1 DEF Becomes
  <2>3. Closed(b) <= Closed(a) + Collected(a)
    BY <1>1, <2>2, FlushedLength DEF Closed, Collected
  <2>4. Collected(b) = 0 /\ Buffered(b) = 1
    BY <1>2, <2>2 DEF Collected, Buffered
  <2> QED
    BY <1>3, <1>4, <2>3, <2>4
<1>6. CASE step.type = "branch_end" /\ a.inBranch = TRUE
  <2> DEFINE branch == Append(a.branch, step)
             first  == Append(SubSeq(branch, 1, SplitAt(branch)), Note)
             second == <<Note>> \o SubSeq(branch, SplitAt(branch) + 1, Len(branch))
  <2>1. IF BranchLength(branch) > BranchLimit
        THEN Becomes(b, a.batches \o SplitBranchGroup(branch), a.current, FALSE, <<>>)
        ELSE Becomes(b, Append(a.batches, branch), a.current, FALSE, <<>>)
    BY <1>6, Closes DEF b
  <2>2. branch \in S /\ Len(branch) >= 1
    BY <1>1
  <2> HIDE DEF branch
  <2>3. a.batches \o SplitBranchGroup(branch) = Append(Append(a.batches, first), second)
    BY <1>1, <2>2, SplitBatches
  <2>4. first \in S /\ second \in S
    BY <2>2, SplitGroups
  <2>5. /\ b.batches \in {Append(Append(a.batches, first), second), Append(a.batches, branch)}
        /\ b.current = a.current /\ b.branch = <<>> /\ b.inBranch = FALSE
    BY <2>1, <2>3 DEF Becomes
  <2> HIDE DEF first, second, S
  <2>6. /\ Len(Append(Append(a.batches, first), second)) = Closed(a) + 2
        /\ Len(Append(a.batches, branch)) = Closed(a) + 1
    BY <1>1, <2>2, <2>4 DEF Closed
  <2>7. Closed(b) = Closed(a) + 2 \/ Closed(b) = Closed(a) + 1
    BY <2>5, <2>6 DEF Closed
  <2>8. Collected(b) = Collected(a) /\ Buffered(b) = 0
    BY <1>2, <2>5 DEF Collected, Buffered
  <2>9. Buffered(a) >= 1
    BY <1>6
  <2>10. Size(b) <= Size(a) + 1
    BY <1>3, <1>4, <2>7, <2>8, <2>9
  <2> QED
    BY <2>5, <2>10
<1>7. CASE step.type \notin {"branch_start", "branch_end"} /\ a.inBranch = TRUE
  <2>1. Becomes(b, a.batches, a.current, TRUE, Append(a.branch, step))
    BY <1>7, Buffers DEF b
  <2>2. Closed(b) = Closed(a) /\ Collected(b) = Collected(a) /\ Buffered(b) = Buffered(a) + 1
    BY <1>2, <2>1 DEF Becomes, Closed, Collected, Buffered
  <2> QED
    BY <1>3, <1>4, <2>2
<1>8. CASE step.type # "branch_start" /\ a.inBranch = FALSE
  <2> DEFINE batch == Append(a.current, step)
  <2>1. IF Len(batch) >= StepsPerBatch
        THEN Becomes(b, Append(a.batches, batch), <<>>, FALSE, a.branch)
        ELSE Becomes(b, a.batches, batch, FALSE, a.branch)
    BY <1>8, Collects DEF b
  <2>2. batch \in S /\ Len(batch) = Collected(a) + 1
    BY <1>2
  <2> HIDE DEF batch, S
  <2>3. Len(Append(a.batches, batch)) = Closed(a) + 1
    BY <1>1, <2>2 DEF Closed
  <2>4. /\ b.branch = a.branch /\ b.inBranch = FALSE
        /\ \/ b.batches = Append(a.batches, batch) /\ b.current = <<>>
           \/ b.batches = a.batches /\ b.current = batch
    BY <2>1 DEF Becomes
  <2>5. /\ Buffered(b) = Buffered(a)
        /\ \/ Closed(b) = Closed(a) + 1 /\ Collected(b) = 0
           \/ Closed(b) = Closed(a) /\ Collected(b) = Collected(a) + 1
    BY <1>2, <2>2, <2>3, <2>4 DEF Closed, Collected, Buffered
  <2>6. b.inBranch = FALSE
    BY <2>4
  <2> QED
    BY <1>3, <1>4, <2>5, <2>6
<1>9. a.inBranch = TRUE \/ a.inBranch = FALSE
  BY DEF Accumulators
<1> QED
  BY <1>5, <1>6, <1>7, <1>8, <1>9

\* FewBatches: there are never more batches than steps.
LEMMA FewBatches ==
    ASSUME NEW steps \in Seq(NumberedStep)
    PROVE  BatchSteps(steps) \in Seq(Seq(NumberedStep)) /\ Len(BatchSteps(steps)) <= Len(steps)
<1>1. PICK acc : Batching(acc, steps)
  BY BatchingWalk
<1> DEFINE k == Len(steps)
           S == Seq(NumberedStep)
           U == {i \in 0..k : /\ Size(acc[i]) <= i
                              /\ acc[i].inBranch = TRUE => Buffered(acc[i]) >= 1}
           end   == acc[k]
           first == end.batches \o NonEmpty(end.branch)
           all   == first \o NonEmpty(end.current)
<1>2. /\ acc \in [0..k -> Accumulators] /\ acc[0] = NoBatches
      /\ \A i \in 1..k : acc[i] = NextStep(acc[i - 1], steps[i])
      /\ BatchSteps(steps) = all
  BY <1>1 DEF Batching
<1>3. 0 \in U
  <2>1. Closed(acc[0]) = 0 /\ Collected(acc[0]) = 0 /\ Buffered(acc[0]) = 0
    BY <1>2 DEF NoBatches, Closed, Collected, Buffered
  <2>2. acc[0].inBranch = FALSE
    BY <1>2 DEF NoBatches
  <2> QED
    BY <2>1, <2>2 DEF Size
<1>4. ASSUME NEW i \in 1..k, i - 1 \in U
      PROVE  i \in U
  <2>1. acc[i - 1] \in Accumulators /\ acc[i] \in Accumulators /\ steps[i] \in NumberedStep
    BY <1>2
  <2>2. acc[i] = NextStep(acc[i - 1], steps[i])
    BY <1>2
  <2>3. /\ Size(acc[i - 1]) <= i - 1
        /\ acc[i - 1].inBranch = TRUE => Buffered(acc[i - 1]) >= 1
    BY <1>4
  <2>4. /\ Size(acc[i]) <= Size(acc[i - 1]) + 1
        /\ acc[i].inBranch = TRUE => Buffered(acc[i]) >= 1
    BY <2>1, <2>2, <2>3, SizeGrows
  <2>5. Size(acc[i - 1]) \in Nat /\ Size(acc[i]) \in Nat
    BY <2>1, SizesAreNumbers
  <2> QED
    BY <2>3, <2>4, <2>5
<1>5. k \in Nat /\ k \in 0..k /\ k \in U
  <2>1. k \in Nat /\ k \in 0..k
    OBVIOUS
  <2> HIDE DEF U
  <2> QED
    BY <1>3, <1>4, <2>1, Climb
<1>6. end.batches \in Seq(S) /\ end.current \in S /\ end.branch \in S
  BY <1>2, <1>5 DEF Accumulators
<1>7. end \in Accumulators /\ Size(end) <= k
  BY <1>2, <1>5
<1> HIDE DEF end
<1>8. Len(first) \in Nat /\ Len(first) <= Closed(end) + Buffered(end)
  BY <1>6, FlushedLength DEF Closed, Buffered
<1>9. first \in Seq(S)
  BY <1>6, NonEmptyBatch
<1> HIDE DEF first
<1>10. Len(all) \in Nat /\ Len(all) <= Len(first) + Collected(end)
  BY <1>6, <1>9, FlushedLength DEF Collected
<1>11. all \in Seq(S)
  BY <1>6, <1>9, NonEmptyBatch
<1>12. Size(end) = Closed(end) + Collected(end) + Buffered(end)
  BY DEF Size
<1>13. Closed(end) \in Nat /\ Collected(end) \in Nat /\ Buffered(end) \in Nat
  BY <1>7, SizesAreNumbers
<1> DEFINE n == Len(all)
           m == Len(first)
<1>14. n \in Nat /\ m \in Nat /\ n <= m + Collected(end) /\ m <= Closed(end) + Buffered(end)
  BY <1>8, <1>10
<1> HIDE DEF all, S, n, m, k
<1>15. n <= k
  BY <1>5, <1>7, <1>12, <1>13, <1>14
<1> QED
  BY <1>2, <1>11, <1>15 DEF S, n, k

-----------------------------------------------------------------------------
(* The fields keep their shape.                                            *)

\* The causes are told apart by identities that were given out one by one.
GoodCauses(causes, nextId) ==
    \A i \in 1..Len(causes) :
        /\ causes[i].id < nextId
        /\ \A j \in 1..Len(causes) : i # j => causes[i].id # causes[j].id

FormRecord == [fields : [Fields -> Texts \cup {"NONE"}], causes : Seq(Cause),
               steps : Seq(Step), rows : Seq(Row), groups : Seq(Nat \ {0}),
               mode : {"structured", "free_text"}, nextId : Nat]

GoodForm(f) ==
    /\ f \in FormRecord
    /\ Len(f.causes) <= MaxCauses /\ Len(f.steps) <= MaxSteps
    /\ GoodCauses(f.causes, f.nextId)

Zone == [phase : {"idle", "pending", "uploading"}, upload : Nat, preview : BOOLEAN,
         error : BOOLEAN]

Upload == [id : Nat, section : AllSections, owner : Nat]

Screenshot == [id : Nat, section : AllSections, owner : Nat,
               vision : {"complete", "processing", "failed"}]

EntryTyped == contentType \in ContentTypes /\ readOnly \in BOOLEAN /\ saved \in BOOLEAN

ShotsTyped ==
    /\ screenshots \subseteq Screenshot /\ shown \subseteq Screenshot
    /\ sent \subseteq Upload /\ uploads \in Nat
    /\ zones \in [AllSections -> Zone]

\* What every step keeps: FieldsTypeOK does not say where the next identity stands,
\* nor what is on its way to the server.
FieldsInv == EntryTyped /\ GoodForm(form) /\ ShotsTyped

\* BoundsAreNumbers: the bounds are natural numbers.
LEMMA BoundsAreNumbers ==
    /\ MaxCauses \in Nat /\ MaxSteps \in Nat /\ MaxRows \in Nat
    /\ SectionLimit \in Nat /\ MaxUploads \in Nat
BY FieldsAssumption

\* Removed: RemoveAt closes the gap.
LEMMA Removed ==
    ASSUME NEW S, NEW s \in Seq(S), NEW i \in 1..Len(s)
    PROVE  /\ RemoveAt(s, i) \in Seq(S)
           /\ Len(RemoveAt(s, i)) = Len(s) - 1
           /\ \A j \in 1..(Len(s) - 1) : RemoveAt(s, i)[j] = IF j < i THEN s[j] ELSE s[j + 1]
<1> DEFINE a == SubSeq(s, 1, i - 1)
           b == SubSeq(s, i + 1, Len(s))
<1>1. RemoveAt(s, i) = a \o b
  BY DEF RemoveAt
<1>2. a \in Seq(S) /\ Len(a) = i - 1 /\ \A j \in 1..(i - 1) : a[j] = s[j]
  OBVIOUS
<1>3. b \in Seq(S) /\ Len(b) = Len(s) - i /\ \A j \in 1..(Len(s) - i) : b[j] = s[i + j]
  OBVIOUS
<1> HIDE DEF a, b
<1>4. /\ a \o b \in Seq(S) /\ Len(a \o b) = Len(a) + Len(b)
      /\ \A j \in 1..(Len(a) + Len(b)) : (a \o b)[j] = IF j <= Len(a) THEN a[j]
                                                      ELSE b[j - Len(a)]
  BY <1>2, <1>3, ConcatProperties
<1>5. Len(s) \in Nat
  OBVIOUS
<1>6. ASSUME NEW j \in 1..(Len(s) - 1)
      PROVE  (a \o b)[j] = IF j < i THEN s[j] ELSE s[j + 1]
  <2>1. CASE j < i
    <3>1. j \in 1..(i - 1) /\ j <= Len(a) /\ j \in 1..(Len(a) + Len(b))
      BY <1>2, <1>3, <1>5, <2>1
    <3> QED
      BY <1>2, <1>4, <2>1, <3>1
  <2>2. CASE ~ (j < i)
    <3>1. /\ j - (i - 1) \in 1..(Len(s) - i) /\ ~ (j <= Len(a)) /\ j \in 1..(Len(a) + Len(b))
          /\ i + (j - (i - 1)) = j + 1
      BY <1>2, <1>3, <1>5, <2>2
    <3>2. (a \o b)[j] = b[j - (i - 1)]
      BY <1>2, <1>4, <3>1
    <3> QED
      BY <1>3, <2>2, <3>1, <3>2
  <2> QED
    BY <2>1, <2>2
<1> QED
  BY <1>1, <1>2, <1>3, <1>4, <1>5, <1>6

\* ReplaceKeeps: a form of the right shape takes the place of another.
LEMMA ReplaceKeeps ==
    ASSUME FieldsInv, NEW f, GoodForm(f), ReplaceForm(f)
    PROVE  FieldsInv'
<1>1. GoodForm(form)'
  BY DEF ReplaceForm, GoodForm, FormRecord, GoodCauses, Cause, Step, Row
<1>2. EntryTyped'
  BY DEF FieldsInv, EntryTyped, ReplaceForm
<1>3. ShotsTyped'
  <2>1. IdleZone \in Zone
    BY DEF IdleZone, Zone
  <2>2. zones' \in [AllSections -> Zone]
    BY <2>1 DEF FieldsInv, ShotsTyped, ReplaceForm
  <2>3. /\ screenshots' = screenshots /\ shown' = shown /\ sent' = sent /\ uploads' = uploads
    BY DEF ReplaceForm
  <2> QED
    BY <2>2, <2>3 DEF FieldsInv, ShotsTyped, Screenshot, Upload, Zone, AllSections
<1> QED
  BY <1>1, <1>2, <1>3 DEF FieldsInv

\* EmptyFormIsGood: the form starts out in shape.
LEMMA EmptyFormIsGood == GoodForm(EmptyForm)
<1> DEFINE blank == [f \in Fields |-> ""]
<1>1. blank \in [Fields -> Texts \cup {"NONE"}]
  BY DEF Texts
<1>2. EmptyForm = [fields |-> blank, causes |-> <<>>, steps |-> <<>>, rows |-> <<>>,
                   groups |-> <<>>, mode |-> "structured", nextId |-> 1]
  BY DEF EmptyForm
<1> HIDE DEF blank
<1>3. EmptyForm \in FormRecord
  BY <1>1, <1>2 DEF FormRecord
<1>4. /\ Len(EmptyForm.causes) = 0 /\ Len(EmptyForm.steps) = 0
  BY <1>2
<1>5. GoodCauses(EmptyForm.causes, EmptyForm.nextId)
  BY <1>4 DEF GoodCauses
<1> QED
  BY <1>3, <1>4, <1>5, BoundsAreNumbers DEF GoodForm

\* InitKeeps: the first state is in shape.
LEMMA InitKeeps == Init => FieldsInv
<1> SUFFICES ASSUME Init PROVE FieldsInv
  OBVIOUS
<1>1. GoodForm(form)
  BY EmptyFormIsGood DEF Init
<1>2. EntryTyped
  BY DEF Init, EntryTyped
<1>3. IdleZone \in Zone
  BY DEF IdleZone, Zone
<1>4. ShotsTyped
  BY <1>3 DEF Init, ShotsTyped
<1> QED
  BY <1>1, <1>2, <1>4 DEF FieldsInv

\* The parts of a form of the right shape.
LEMMA FormParts ==
    ASSUME NEW f, GoodForm(f)
    PROVE  /\ f.fields \in [Fields -> Texts \cup {"NONE"}] /\ f.causes \in Seq(Cause)
           /\ f.steps \in Seq(Step) /\ f.rows \in Seq(Row) /\ f.groups \in Seq(Nat \ {0})
           /\ f.nextId \in Nat
           /\ Len(f.causes) <= MaxCauses /\ Len(f.steps) <= MaxSteps
           /\ GoodCauses(f.causes, f.nextId)
BY DEF GoodForm, FormRecord

\* FieldsEdited: a typed field keeps the shape.
LEMMA FieldsEdited ==
    ASSUME NEW f, GoodForm(f), NEW name \in Fields, NEW text \in Texts \cup {"NONE"}
    PROVE  GoodForm([f EXCEPT !.fields[name] = text])
<1> DEFINE g == [f EXCEPT !.fields[name] = text]
           typed == [f.fields EXCEPT ![name] = text]
<1>1. typed \in [Fields -> Texts \cup {"NONE"}]
  BY FormParts
<1>2. g = [f EXCEPT !.fields = typed]
  BY DEF GoodForm, FormRecord
<1> HIDE DEF g, typed
<1>3. g \in FormRecord /\ g.causes = f.causes /\ g.steps = f.steps /\ g.nextId = f.nextId
  BY <1>1, <1>2 DEF GoodForm, FormRecord
<1>4. GoodForm(g)
  BY <1>3, FormParts DEF GoodForm
<1> QED
  BY <1>4 DEF g

\* CauseReplaced: an edited cause keeps its identity.
LEMMA CauseReplaced ==
    ASSUME NEW f, GoodForm(f), NEW i \in 1..Len(f.causes),
           NEW c \in Cause, c.id = f.causes[i].id
    PROVE  GoodForm([f EXCEPT !.causes[i] = c])
<1> DEFINE g == [f EXCEPT !.causes[i] = c]
           new == [f.causes EXCEPT ![i] = c]
<1>1. f.causes \in Seq(Cause) /\ GoodCauses(f.causes, f.nextId)
  BY FormParts
<1>2. new \in Seq(Cause) /\ Len(new) = Len(f.causes)
      /\ \A j \in 1..Len(f.causes) : new[j] = IF j = i THEN c ELSE f.causes[j]
  BY <1>1, ExceptSeq
<1>3. g = [f EXCEPT !.causes = new]
  BY DEF GoodForm, FormRecord
<1> HIDE DEF g, new
<1>4. g \in FormRecord /\ g.causes = new /\ g.steps = f.steps /\ g.nextId = f.nextId
  BY <1>2, <1>3 DEF GoodForm, FormRecord
<1>5. \A j \in 1..Len(f.causes) : new[j].id = f.causes[j].id
  BY <1>2
<1>6. GoodCauses(new, f.nextId)
  BY <1>1, <1>2, <1>5 DEF GoodCauses
<1>7. GoodForm(g)
  BY <1>2, <1>4, <1>6, FormParts DEF GoodForm
<1> QED
  BY <1>7 DEF g

\* CauseAdded: a new cause has an identity nobody had.
LEMMA CauseAdded ==
    ASSUME NEW f, GoodForm(f), Len(f.causes) < MaxCauses
    PROVE  GoodForm([f EXCEPT !.causes = Append(f.causes, NewCause(f.nextId)),
                              !.nextId = f.nextId + 1])
<1> DEFINE c == NewCause(f.nextId)
           new == Append(f.causes, c)
           g == [f EXCEPT !.causes = new, !.nextId = f.nextId + 1]
           n == Len(f.causes)
<1>1. f.causes \in Seq(Cause) /\ GoodCauses(f.causes, f.nextId) /\ f.nextId \in Nat /\ n \in Nat
  BY FormParts
<1>2. c.id = f.nextId
  BY DEF NewCause
<1>3. c \in Cause
  <2>1. "common" \in ToSet(Priorities)
    <3>1. Priorities[2] = "common" /\ 2 \in DOMAIN Priorities
      BY DEF Priorities
    <3> QED
      BY <3>1 DEF ToSet
  <2> QED
    BY <1>1, <2>1 DEF NewCause, Cause, Texts
<1> HIDE DEF c
<1>4. /\ new \in Seq(Cause) /\ Len(new) = n + 1 /\ new[n + 1] = c
      /\ \A j \in 1..n : new[j] = f.causes[j]
  BY <1>1, <1>3
<1> HIDE DEF new
<1>5. g \in FormRecord /\ g.causes = new /\ g.steps = f.steps /\ g.nextId = f.nextId + 1
  <2> DEFINE m == f.nextId + 1
  <2>1. m \in Nat
    BY <1>1
  <2> HIDE DEF m
  <2>2. LET h == [f EXCEPT !.causes = new, !.nextId = m]
        IN  h \in FormRecord /\ h.causes = new /\ h.steps = f.steps /\ h.nextId = m
    BY <1>4, <2>1 DEF GoodForm, FormRecord
  <2> QED
    BY <2>2 DEF m
<1>6. GoodCauses(new, f.nextId + 1)
  <2>1. \A j \in 1..n : /\ f.causes[j].id < f.nextId /\ f.causes[j].id \in Nat
                        /\ \A l \in 1..n : j # l => f.causes[j].id # f.causes[l].id
    <3>1. \A j \in 1..n : f.causes[j] \in Cause
      BY <1>1
    <3>2. \A j \in 1..n : f.causes[j].id \in Nat
      BY <3>1 DEF Cause
    <3> QED
      BY <1>1, <3>2 DEF GoodCauses
  <2>2. \A j \in 1..(n + 1) : j = n + 1 \/ j \in 1..n
    BY <1>1
  <2>3. ASSUME NEW j \in 1..(n + 1)
        PROVE  new[j].id < f.nextId + 1
    <3>1. CASE j = n + 1
      BY <1>1, <1>2, <1>4, <3>1
    <3>2. CASE j \in 1..n
      <4>1. new[j].id = f.causes[j].id /\ f.causes[j].id < f.nextId /\ f.causes[j].id \in Nat
        BY <1>4, <2>1, <3>2
      <4> QED
        BY <1>1, <4>1
    <3> QED
      BY <2>2, <3>1, <3>2
  <2>4. ASSUME NEW j \in 1..(n + 1), NEW l \in 1..(n + 1), j # l
        PROVE  new[j].id # new[l].id
    <3>1. CASE j \in 1..n /\ l \in 1..n
      BY <1>4, <2>1, <2>4, <3>1
    <3>2. CASE j = n + 1 /\ l \in 1..n
      BY <1>1, <1>2, <1>4, <2>1, <3>2
    <3>3. CASE l = n + 1 /\ j \in 1..n
      BY <1>1, <1>2, <1>4, <2>1, <3>3
    <3> QED
      BY <2>2, <2>4, <3>1, <3>2, <3>3
  <2> QED
    BY <1>4, <2>3, <2>4 DEF GoodCauses
<1> HIDE DEF g
<1>7. GoodForm(g)
  <2>1. n + 1 <= MaxCauses
    BY <1>1, BoundsAreNumbers DEF n
  <2> QED
    BY <1>4, <1>5, <1>6, <2>1, FormParts DEF GoodForm
<1> QED
  BY <1>7 DEF g, new, c

\* CauseRemoved: the others keep their identities.
LEMMA CauseRemoved ==
    ASSUME NEW f, GoodForm(f), NEW i \in 1..Len(f.causes)
    PROVE  GoodForm([f EXCEPT !.causes = RemoveAt(f.causes, i)])
<1> DEFINE new == RemoveAt(f.causes, i)
           g == [f EXCEPT !.causes = new]
           n == Len(f.causes)
<1>1. f.causes \in Seq(Cause) /\ GoodCauses(f.causes, f.nextId) /\ n \in Nat
  BY FormParts
<1>2. /\ new \in Seq(Cause) /\ Len(new) = n - 1
      /\ \A j \in 1..(n - 1) : new[j] = IF j < i THEN f.causes[j] ELSE f.causes[j + 1]
  BY <1>1, Removed
<1> HIDE DEF new
<1>3. g \in FormRecord /\ g.causes = new /\ g.steps = f.steps /\ g.nextId = f.nextId
  BY <1>2 DEF GoodForm, FormRecord
<1>4. GoodCauses(new, f.nextId)
  <2> DEFINE from(j) == IF j < i THEN j ELSE j + 1
  <2>1. \A j \in 1..(n - 1) : from(j) \in 1..n /\ new[j] = f.causes[from(j)]
    BY <1>1, <1>2
  <2>2. \A j, l \in 1..(n - 1) : j # l => from(j) # from(l)
    BY <1>1
  <2> HIDE DEF from
  <2>3. \A j \in 1..n : /\ f.causes[j].id < f.nextId
                        /\ \A l \in 1..n : j # l => f.causes[j].id # f.causes[l].id
    BY <1>1 DEF GoodCauses
  <2>4. \A j \in 1..(n - 1) :
           /\ new[j].id < f.nextId
           /\ \A l \in 1..(n - 1) : j # l => new[j].id # new[l].id
    <3>1. ASSUME NEW j \in 1..(n - 1)
          PROVE  new[j].id < f.nextId
      <4>1. from(j) \in 1..n /\ new[j] = f.causes[from(j)]
        BY <2>1
      <4>2. f.causes[from(j)].id < f.nextId
        BY <2>3, <4>1
      <4> QED
        BY <4>1, <4>2
    <3>2. ASSUME NEW j \in 1..(n - 1), NEW l \in 1..(n - 1), j # l
          PROVE  new[j].id # new[l].id
      <4>1. /\ from(j) \in 1..n /\ new[j] = f.causes[from(j)]
            /\ from(l) \in 1..n /\ new[l] = f.causes[from(l)] /\ from(j) # from(l)
        BY <2>1, <2>2, <3>2
      <4> QED
        BY <2>3, <4>1
    <3> QED
      BY <3>1, <3>2
  <2> QED
    BY <1>2, <2>4 DEF GoodCauses
<1> HIDE DEF g
<1>5. n - 1 <= MaxCauses /\ Len(f.steps) <= MaxSteps
  BY <1>1, FormParts, BoundsAreNumbers DEF n
<1>6. GoodForm(g)
  BY <1>2, <1>3, <1>4, <1>5 DEF GoodForm
<1> QED
  BY <1>6 DEF g, new

\* StepsReplaced: any other list of steps of the right length keeps the shape.
LEMMA StepsReplaced ==
    ASSUME NEW f, GoodForm(f), NEW steps \in Seq(Step), Len(steps) <= MaxSteps
    PROVE  GoodForm([f EXCEPT !.steps = steps])
<1> DEFINE g == [f EXCEPT !.steps = steps]
<1>1. g \in FormRecord /\ g.causes = f.causes /\ g.steps = steps /\ g.nextId = f.nextId
  BY DEF GoodForm, FormRecord
<1> HIDE DEF g
<1>2. GoodForm(g)
  BY <1>1, FormParts DEF GoodForm
<1> QED
  BY <1>2 DEF g

\* OneStepReplaced: an edited step is a step.
LEMMA OneStepReplaced ==
    ASSUME NEW f, GoodForm(f), NEW i \in 1..Len(f.steps), NEW s \in Step
    PROVE  GoodForm([f EXCEPT !.steps[i] = s])
<1> DEFINE new == [f.steps EXCEPT ![i] = s]
<1>1. f.steps \in Seq(Step) /\ Len(f.steps) <= MaxSteps
  BY FormParts
<1>2. new \in Seq(Step) /\ Len(new) = Len(f.steps)
  BY <1>1, ExceptSeq
<1>3. [f EXCEPT !.steps[i] = s] = [f EXCEPT !.steps = new]
  BY DEF GoodForm, FormRecord
<1> HIDE DEF new
<1>4. Len(new) <= MaxSteps
  BY <1>1, <1>2
<1> QED
  BY <1>2, <1>3, <1>4, StepsReplaced

\* RowsReplaced: any other list of rows keeps the shape.
LEMMA RowsReplaced ==
    ASSUME NEW f, GoodForm(f), NEW rows \in Seq(Row)
    PROVE  GoodForm([f EXCEPT !.rows = rows])
<1> DEFINE g == [f EXCEPT !.rows = rows]
<1>1. g \in FormRecord /\ g.causes = f.causes /\ g.steps = f.steps /\ g.nextId = f.nextId
  BY DEF GoodForm, FormRecord
<1> HIDE DEF g
<1>2. GoodForm(g)
  BY <1>1, FormParts DEF GoodForm
<1> QED
  BY <1>2 DEF g

\* OneRowReplaced: an edited row is a row.
LEMMA OneRowReplaced ==
    ASSUME NEW f, GoodForm(f), NEW i \in 1..Len(f.rows), NEW row \in Row
    PROVE  GoodForm([f EXCEPT !.rows = [f.rows EXCEPT ![i] = row]])
<1>1. [f.rows EXCEPT ![i] = row] \in Seq(Row)
  BY FormParts, ExceptSeq
<1> QED
  BY <1>1, RowsReplaced

\* GroupsReplaced: any other list of groups keeps the shape.
LEMMA GroupsReplaced ==
    ASSUME NEW f, GoodForm(f), NEW groups \in Seq(Nat \ {0})
    PROVE  GoodForm([f EXCEPT !.groups = groups])
<1> DEFINE g == [f EXCEPT !.groups = groups]
<1>1. g \in FormRecord /\ g.causes = f.causes /\ g.steps = f.steps /\ g.nextId = f.nextId
  BY DEF GoodForm, FormRecord
<1> HIDE DEF g
<1>2. GoodForm(g)
  BY <1>1, FormParts DEF GoodForm
<1> QED
  BY <1>2 DEF g

\* ModeReplaced: the mode of the values may change.
LEMMA ModeReplaced ==
    ASSUME NEW f, GoodForm(f), NEW m \in {"structured", "free_text"}
    PROVE  GoodForm([f EXCEPT !.mode = m])
<1> DEFINE g == [f EXCEPT !.mode = m]
<1>1. g \in FormRecord /\ g.causes = f.causes /\ g.steps = f.steps /\ g.nextId = f.nextId
  BY DEF GoodForm, FormRecord
<1> HIDE DEF g
<1>2. GoodForm(g)
  BY <1>1, FormParts DEF GoodForm
<1> QED
  BY <1>2 DEF g

-----------------------------------------------------------------------------
(* Every operation on the fields keeps their shape.                        *)

\* EditFieldsKeeps: typing in a field, and the box that says it does not apply.
LEMMA EditFieldsKeeps == FieldsInv /\ EditFields => FieldsInv'
<1> SUFFICES ASSUME FieldsInv, EditFields PROVE FieldsInv'
  OBVIOUS
<1>1. GoodForm(form)
  BY DEF FieldsInv
<1>2. PICK name \in Fields : ToggleNone(name) \/ \E t \in FormTexts : UpdateField(name, t)
  BY DEF EditFields
<1>3. CASE ToggleNone(name)
  <2> DEFINE text == IF form.fields[name] = "NONE" THEN "" ELSE "NONE"
  <2>1. text \in Texts \cup {"NONE"}
    BY DEF Texts
  <2>2. ReplaceForm([form EXCEPT !.fields[name] = text])
    BY <1>3 DEF ToggleNone, SetForm
  <2> HIDE DEF text
  <2>3. GoodForm([form EXCEPT !.fields[name] = text])
    BY <1>1, <2>1, FieldsEdited
  <2> QED
    BY <2>2, <2>3, ReplaceKeeps
<1>4. ASSUME NEW t \in FormTexts, UpdateField(name, t)
      PROVE  FieldsInv'
  <2>1. t \in Texts \cup {"NONE"}
    BY FieldsAssumption
  <2>2. ReplaceForm([form EXCEPT !.fields[name] = t])
    BY <1>4 DEF UpdateField, SetForm
  <2>3. GoodForm([form EXCEPT !.fields[name] = t])
    BY <1>1, <2>1, FieldsEdited
  <2> QED
    BY <2>2, <2>3, ReplaceKeeps
<1> QED
  BY <1>2, <1>3, <1>4

\* CauseUpdated: an update of a cause that keeps its identity keeps the shape.
LEMMA CauseUpdated ==
    ASSUME FieldsInv, NEW i \in DOMAIN form.causes, NEW c \in Cause,
           c.id = form.causes[i].id, UpdateCause(i, c)
    PROVE  FieldsInv'
<1>1. GoodForm(form) /\ form.causes \in Seq(Cause)
  BY FormParts DEF FieldsInv
<1>2. i \in 1..Len(form.causes)
  BY <1>1
<1>3. GoodForm([form EXCEPT !.causes[i] = c])
  BY <1>1, <1>2, CauseReplaced
<1>4. ReplaceForm([form EXCEPT !.causes[i] = c])
  BY DEF UpdateCause, SetForm
<1> QED
  BY <1>3, <1>4, ReplaceKeeps

\* EditCausesKeeps: the operations on the list of causes.
LEMMA EditCausesKeeps == FieldsInv /\ EditCauses => FieldsInv'
<1> SUFFICES ASSUME FieldsInv, EditCauses PROVE FieldsInv'
  OBVIOUS
<1>1. GoodForm(form) /\ form.causes \in Seq(Cause)
  BY FormParts DEF FieldsInv
<1>2. CASE AddCause
  <2>1. Len(form.causes) < MaxCauses
    BY <1>2 DEF AddCause
  <2>2. ReplaceForm([form EXCEPT !.causes = Append(form.causes, NewCause(form.nextId)),
                                 !.nextId = form.nextId + 1])
    BY <1>2 DEF AddCause, SetForm
  <2> QED
    BY <1>1, <2>1, <2>2, CauseAdded, ReplaceKeeps
<1>3. ASSUME NEW i \in DOMAIN form.causes,
             \/ \E p \in FormPriorities : SetPriority(i, p)
             \/ \E t \in FormTexts : EditResolution(i, t)
             \/ AcknowledgeCause(i)
             \/ ToggleAdmin(i)
             \/ ToggleObsolete(i)
             \/ RemoveCause(i)
      PROVE  FieldsInv'
  <2> DEFINE c == form.causes[i]
  <2>1. c \in Cause /\ i \in 1..Len(form.causes)
    BY <1>1
  <2>2. ASSUME NEW p \in FormPriorities, SetPriority(i, p)
        PROVE  FieldsInv'
    <3>1. [c EXCEPT !.priority = p] \in Cause /\ [c EXCEPT !.priority = p].id = c.id
      BY <2>1, FieldsAssumption DEF Cause
    <3>2. UpdateCause(i, [c EXCEPT !.priority = p])
      BY <2>2 DEF SetPriority
    <3> QED
      BY <3>1, <3>2, CauseUpdated
  <2>3. ASSUME NEW t \in FormTexts, EditResolution(i, t)
        PROVE  FieldsInv'
    <3> DEFINE d == [c EXCEPT !.text = t, !.acknowledged = FALSE]
    <3>1. t \in Texts
      BY FieldsAssumption
    <3>2. d \in Cause /\ d.id = c.id
      BY <2>1, <3>1 DEF Cause
    <3>3. UpdateCause(i, d)
      BY <2>3 DEF EditResolution
    <3> QED
      BY <3>2, <3>3, CauseUpdated
  <2>4. ASSUME AcknowledgeCause(i)
        PROVE  FieldsInv'
    <3> DEFINE d == [c EXCEPT !.acknowledged = TRUE]
    <3>1. d \in Cause /\ d.id = c.id
      BY <2>1 DEF Cause
    <3>2. UpdateCause(i, d)
      BY <2>4 DEF AcknowledgeCause
    <3> QED
      BY <3>1, <3>2, CauseUpdated
  <2>5. ASSUME ToggleAdmin(i)
        PROVE  FieldsInv'
    <3> DEFINE d == [c EXCEPT !.admin = ~c.admin]
    <3>1. d \in Cause /\ d.id = c.id
      BY <2>1 DEF Cause
    <3>2. UpdateCause(i, d)
      BY <2>5 DEF ToggleAdmin
    <3> QED
      BY <3>1, <3>2, CauseUpdated
  <2>6. ASSUME ToggleObsolete(i)
        PROVE  FieldsInv'
    <3> DEFINE d == [c EXCEPT !.obsolete = ~c.obsolete]
    <3>1. d \in Cause /\ d.id = c.id
      BY <2>1 DEF Cause
    <3>2. UpdateCause(i, d)
      BY <2>6 DEF ToggleObsolete
    <3> QED
      BY <3>1, <3>2, CauseUpdated
  <2>7. ASSUME RemoveCause(i)
        PROVE  FieldsInv'
    <3>1. ReplaceForm([form EXCEPT !.causes = RemoveAt(form.causes, i)])
      BY <2>7 DEF RemoveCause, SetForm
    <3> QED
      BY <1>1, <2>1, <3>1, CauseRemoved, ReplaceKeeps
  <2> QED
    BY <1>3, <2>2, <2>3, <2>4, <2>5, <2>6, <2>7
<1> QED
  BY <1>2, <1>3 DEF EditCauses

\* StepUpdated: an update of a step keeps the shape.
LEMMA StepUpdated ==
    ASSUME FieldsInv, NEW i \in DOMAIN form.steps, NEW s \in Step, UpdateStep(i, s)
    PROVE  FieldsInv'
<1>1. GoodForm(form) /\ form.steps \in Seq(Step)
  BY FormParts DEF FieldsInv
<1>2. i \in 1..Len(form.steps)
  BY <1>1
<1>3. GoodForm([form EXCEPT !.steps[i] = s])
  BY <1>1, <1>2, OneStepReplaced
<1>4. ReplaceForm([form EXCEPT !.steps[i] = s])
  BY DEF UpdateStep, SetForm
<1> QED
  BY <1>3, <1>4, ReplaceKeeps

\* EditStepsKeeps: the operations on the list of steps.
LEMMA EditStepsKeeps == FieldsInv /\ EditSteps => FieldsInv'
<1> SUFFICES ASSUME FieldsInv, EditSteps PROVE FieldsInv'
  OBVIOUS
<1>1. GoodForm(form) /\ form.steps \in Seq(Step) /\ Len(form.steps) <= MaxSteps
  BY FormParts DEF FieldsInv
<1>2. CASE AddStep
  <2>1. NewStep \in Step
    BY DEF NewStep, Step, StepTypes, Texts
  <2>2. Append(form.steps, NewStep) \in Seq(Step)
        /\ Len(Append(form.steps, NewStep)) = Len(form.steps) + 1
    BY <1>1, <2>1
  <2>3. Len(form.steps) < MaxSteps /\ Len(form.steps) \in Nat
    BY <1>1, <1>2 DEF AddStep
  <2>4. Len(Append(form.steps, NewStep)) <= MaxSteps
    BY <2>2, <2>3, BoundsAreNumbers
  <2>5. ReplaceForm([form EXCEPT !.steps = Append(form.steps, NewStep)])
    BY <1>2 DEF AddStep, SetForm
  <2> QED
    BY <1>1, <2>2, <2>4, <2>5, StepsReplaced, ReplaceKeeps
<1>3. ASSUME NEW i \in DOMAIN form.steps,
             \/ \E type \in FormStepTypes : SetStepType(i, type)
             \/ \E t \in FormTexts : EditAction(i, t)
             \/ AcknowledgeStep(i)
             \/ RemoveStep(i)
      PROVE  FieldsInv'
  <2> DEFINE s == form.steps[i]
  <2>1. s \in Step /\ i \in 1..Len(form.steps)
    BY <1>1
  <2>2. ASSUME NEW type \in FormStepTypes, SetStepType(i, type)
        PROVE  FieldsInv'
    <3>1. [s EXCEPT !.type = type] \in Step
      BY <2>1, FieldsAssumption DEF Step
    <3>2. UpdateStep(i, [s EXCEPT !.type = type])
      BY <2>2 DEF SetStepType
    <3> QED
      BY <3>1, <3>2, StepUpdated
  <2>3. ASSUME NEW t \in FormTexts, EditAction(i, t)
        PROVE  FieldsInv'
    <3>1. t \in Texts
      BY FieldsAssumption
    <3>2. [s EXCEPT !.text = t, !.acknowledged = FALSE] \in Step
      BY <2>1, <3>1 DEF Step
    <3>3. UpdateStep(i, [s EXCEPT !.text = t, !.acknowledged = FALSE])
      BY <2>3 DEF EditAction
    <3> QED
      BY <3>2, <3>3, StepUpdated
  <2>4. ASSUME AcknowledgeStep(i)
        PROVE  FieldsInv'
    <3>1. [s EXCEPT !.acknowledged = TRUE] \in Step
      BY <2>1 DEF Step
    <3>2. UpdateStep(i, [s EXCEPT !.acknowledged = TRUE])
      BY <2>4 DEF AcknowledgeStep
    <3> QED
      BY <3>1, <3>2, StepUpdated
  <2>5. ASSUME RemoveStep(i)
        PROVE  FieldsInv'
    <3>1. RemoveAt(form.steps, i) \in Seq(Step) /\ Len(RemoveAt(form.steps, i)) = Len(form.steps) - 1
      BY <1>1, <2>1, Removed
    <3>2. Len(RemoveAt(form.steps, i)) <= MaxSteps
      BY <1>1, <3>1, BoundsAreNumbers
    <3>3. ReplaceForm([form EXCEPT !.steps = RemoveAt(form.steps, i)])
      BY <2>5 DEF RemoveStep, SetForm
    <3> QED
      BY <1>1, <3>1, <3>2, <3>3, StepsReplaced, ReplaceKeeps
  <2> QED
    BY <1>3, <2>2, <2>3, <2>4, <2>5
<1> QED
  BY <1>2, <1>3 DEF EditSteps

\* RealErrorsAreRows: what remains of the rows are rows.
LEMMA RealErrorsAreRows ==
    ASSUME NEW rows \in Seq(Row)
    PROVE  RealErrors(rows) \in Seq(Row)
BY KeepPlaces DEF RealErrors

\* RowUpdated: an update of a row keeps the shape.
LEMMA RowUpdated ==
    ASSUME FieldsInv, NEW i \in DOMAIN form.rows, NEW row \in Row,
           ReplaceForm([form EXCEPT !.rows = [form.rows EXCEPT ![i] = row]])
    PROVE  FieldsInv'
<1>1. GoodForm(form) /\ form.rows \in Seq(Row)
  BY FormParts DEF FieldsInv
<1>2. i \in 1..Len(form.rows)
  BY <1>1
<1> QED
  BY <1>1, <1>2, OneRowReplaced, ReplaceKeeps

\* EditRowsKeeps: the operations on the list of error rows.
LEMMA EditRowsKeeps == FieldsInv /\ EditRows => FieldsInv'
<1> SUFFICES ASSUME FieldsInv, EditRows PROVE FieldsInv'
  OBVIOUS
<1>1. GoodForm(form) /\ form.rows \in Seq(Row) /\ form \in FormRecord
  BY FormParts DEF FieldsInv, GoodForm
<1>2. NewRow \in Row /\ [NewRow EXCEPT !.code = "NONE"] \in Row
  BY DEF NewRow, Row
<1>3. CASE AddRow
  <2>1. Append(RealErrors(form.rows), NewRow) \in Seq(Row)
    BY <1>1, <1>2, RealErrorsAreRows, AppendProperties
  <2>2. ReplaceForm([form EXCEPT !.rows = Append(RealErrors(form.rows), NewRow)])
    BY <1>3 DEF AddRow, SetForm
  <2> QED
    BY <1>1, <2>1, <2>2, RowsReplaced, ReplaceKeeps
<1>4. CASE ToggleNoErrors
  <2> DEFINE rows == IF NoErrors THEN <<NewRow>> ELSE <<[NewRow EXCEPT !.code = "NONE"]>>
  <2>1. rows \in Seq(Row)
    BY <1>2
  <2>2. ReplaceForm([form EXCEPT !.rows = rows])
    BY <1>4 DEF ToggleNoErrors
  <2> HIDE DEF rows
  <2> QED
    BY <1>1, <2>1, <2>2, RowsReplaced, ReplaceKeeps
<1>5. ASSUME NEW i \in DOMAIN form.rows,
             \/ \E code \in Codes : EditCode(i, code)
             \/ \E r \in References : EditReference(i, r)
             \/ ConfirmReference(i)
             \/ RemoveRow(i)
      PROVE  FieldsInv'
  <2> DEFINE row == form.rows[i]
  <2>1. row \in Row /\ i \in 1..Len(form.rows)
    BY <1>1
  <2>2. ASSUME NEW code \in Codes, EditCode(i, code)
        PROVE  FieldsInv'
    <3> DEFINE new == [row EXCEPT !.code = code]
    <3>1. new \in Row
      BY <2>1 DEF Row
    <3>2. ReplaceForm([form EXCEPT !.rows[i].code = code])
      BY <2>2 DEF EditCode, SetForm
    <3>3. [form EXCEPT !.rows[i].code = code] = [form EXCEPT !.rows = [form.rows EXCEPT ![i] = new]]
      BY <1>1, <2>1 DEF FormRecord, Row
    <3> HIDE DEF new
    <3> QED
      BY <3>1, <3>2, <3>3, RowUpdated
  <2>3. ASSUME NEW r \in References, EditReference(i, r)
        PROVE  FieldsInv'
    <3> DEFINE new == [row EXCEPT !.reference = r, !.validated = FALSE]
    <3>1. new \in Row
      BY <2>1 DEF Row
    <3>2. ReplaceForm([form EXCEPT !.rows[i].reference = r, !.rows[i].validated = FALSE])
      BY <2>3 DEF EditReference, SetForm
    <3>3. [form EXCEPT !.rows[i].reference = r, !.rows[i].validated = FALSE]
             = [form EXCEPT !.rows = [form.rows EXCEPT ![i] = new]]
      BY <1>1, <2>1 DEF FormRecord, Row
    <3> HIDE DEF new
    <3> QED
      BY <3>1, <3>2, <3>3, RowUpdated
  <2>4. ASSUME ConfirmReference(i)
        PROVE  FieldsInv'
    <3> DEFINE new == [row EXCEPT !.validated = TRUE]
    <3>1. new \in Row
      BY <2>1 DEF Row
    <3>2. ReplaceForm([form EXCEPT !.rows[i].validated = TRUE])
      BY <2>4 DEF ConfirmReference, SetForm
    <3>3. [form EXCEPT !.rows[i].validated = TRUE]
             = [form EXCEPT !.rows = [form.rows EXCEPT ![i] = new]]
      BY <1>1, <2>1 DEF FormRecord, Row
    <3> HIDE DEF new
    <3> QED
      BY <3>1, <3>2, <3>3, RowUpdated
  <2>5. ASSUME RemoveRow(i)
        PROVE  FieldsInv'
    <3>1. RemoveAt(form.rows, i) \in Seq(Row)
      BY <1>1, <2>1, Removed
    <3>2. ReplaceForm([form EXCEPT !.rows = RemoveAt(form.rows, i)])
      BY <2>5 DEF RemoveRow
    <3> QED
      BY <1>1, <3>1, <3>2, RowsReplaced, ReplaceKeeps
  <2> QED
    BY <1>5, <2>2, <2>3, <2>4, <2>5
<1> QED
  BY <1>3, <1>4, <1>5 DEF EditRows

\* EditValuesKeeps: the operations on the values of a configuration.
LEMMA EditValuesKeeps == FieldsInv /\ EditValues => FieldsInv'
<1> SUFFICES ASSUME FieldsInv, EditValues PROVE FieldsInv'
  OBVIOUS
<1>1. GoodForm(form) /\ form.groups \in Seq(Nat \ {0}) /\ form \in FormRecord
  BY FormParts DEF FieldsInv, GoodForm
<1>2. ASSUME NEW m \in {"structured", "free_text"}, SetMode(m)
      PROVE  FieldsInv'
  <2>1. ReplaceForm([form EXCEPT !.mode = m])
    BY <1>2 DEF SetMode, SetForm
  <2> QED
    BY <1>1, <2>1, ModeReplaced, ReplaceKeeps
<1>3. CASE AddGroup
  <2>1. Append(form.groups, NewGroup) \in Seq(Nat \ {0})
    BY <1>1 DEF NewGroup
  <2>2. ReplaceForm([form EXCEPT !.groups = Append(form.groups, NewGroup)])
    BY <1>3 DEF AddGroup, SetForm
  <2> QED
    BY <1>1, <2>1, <2>2, GroupsReplaced, ReplaceKeeps
<1>4. ASSUME NEW g \in DOMAIN form.groups, RemoveGroup(g)
      PROVE  FieldsInv'
  <2>1. RemoveAt(form.groups, g) \in Seq(Nat \ {0})
    <3>1. g \in 1..Len(form.groups)
      BY <1>1
    <3> QED
      BY <1>1, <3>1, Removed
  <2>2. ReplaceForm([form EXCEPT !.groups = RemoveAt(form.groups, g)])
    BY <1>4 DEF RemoveGroup, SetForm
  <2> QED
    BY <1>1, <2>1, <2>2, GroupsReplaced, ReplaceKeeps
<1>5. ASSUME NEW g \in DOMAIN form.groups, NEW n \in Nat \ {0},
             ReplaceForm([form EXCEPT !.groups[g] = n])
      PROVE  FieldsInv'
  <2> DEFINE new == [form.groups EXCEPT ![g] = n]
  <2>1. g \in 1..Len(form.groups)
    BY <1>1
  <2>2. new \in Seq(Nat \ {0})
    BY <1>1, <2>1, ExceptSeq
  <2>3. [form EXCEPT !.groups[g] = n] = [form EXCEPT !.groups = new]
    BY <1>1 DEF FormRecord
  <2> HIDE DEF new
  <2> QED
    BY <1>1, <1>5, <2>2, <2>3, GroupsReplaced, ReplaceKeeps
<1>6. ASSUME NEW g \in DOMAIN form.groups, AddParameter(g)
      PROVE  FieldsInv'
  <2>1. form.groups[g] + 1 \in Nat \ {0}
    BY <1>1
  <2>2. ReplaceForm([form EXCEPT !.groups[g] = form.groups[g] + 1])
    BY <1>6 DEF AddParameter, SetForm
  <2> QED
    BY <1>5, <2>1, <2>2
<1>7. ASSUME NEW g \in DOMAIN form.groups, RemoveParameter(g)
      PROVE  FieldsInv'
  <2>1. form.groups[g] > 1
    BY <1>7 DEF RemoveParameter
  <2>2. form.groups[g] - 1 \in Nat \ {0}
    BY <1>1, <2>1
  <2>3. ReplaceForm([form EXCEPT !.groups[g] = form.groups[g] - 1])
    BY <1>7 DEF RemoveParameter, SetForm
  <2> QED
    BY <1>5, <2>2, <2>3
<1> QED
  BY <1>2, <1>3, <1>4, <1>6, <1>7 DEF EditValues

\* SectionsAreSections: a section of the form is one of those there can be.
LEMMA SectionsAreSections ==
    ASSUME FieldsInv
    PROVE  /\ Sections \subseteq AllSections
           /\ \A section \in Sections : Owner(section) \in Nat
<1>1. /\ form.causes \in Seq(Cause) /\ Len(form.causes) <= MaxCauses
      /\ form.steps \in Seq(Step) /\ Len(form.steps) <= MaxSteps
      /\ contentType \in ContentTypes
  BY FormParts DEF FieldsInv, EntryTyped
<1> DEFINE fixed == {<<"error_overview">>, <<"proc_overview">>, <<"cfg_overview">>,
                     <<"cfg_values">>}
<1>2. ASSUME NEW section \in fixed
      PROVE  section \in AllSections /\ Owner(section) \in Nat
  BY DEF AllSections, Owner
<1>3. ASSUME NEW i \in DOMAIN form.causes
      PROVE  <<"cause", i>> \in AllSections /\ Owner(<<"cause", i>>) \in Nat
  <2>1. i \in 1..MaxCauses /\ form.causes[i] \in Cause
    BY <1>1, BoundsAreNumbers
  <2>2. form.causes[i].id \in Nat
    BY <2>1 DEF Cause
  <2> QED
    BY <2>1, <2>2 DEF AllSections, Owner
<1>4. ASSUME NEW b \in DOMAIN BatchSteps(Numbered(form.steps))
      PROVE  <<"proc_steps", b>> \in AllSections /\ Owner(<<"proc_steps", b>>) \in Nat
  <2> DEFINE s == Numbered(form.steps)
             batches == BatchSteps(s)
             S == Seq(NumberedStep)
  <2>1. s \in Seq(NumberedStep) /\ Len(s) = Len(form.steps) /\ Len(form.steps) \in Nat
    BY <1>1, NumberedSteps
  <2> HIDE DEF s
  <2>2. batches \in Seq(S) /\ Len(batches) <= Len(s)
    BY <2>1, FewBatches
  <2>3. b \in DOMAIN batches
    BY <1>4 DEF s
  <2> HIDE DEF batches, S
  <2>4. b \in 1..Len(batches) /\ Len(batches) \in Nat
    BY <2>2, <2>3
  <2>5. b \in 1..MaxSteps
    BY <1>1, <2>1, <2>2, <2>4, BoundsAreNumbers
  <2> QED
    BY <2>5 DEF AllSections, Owner
<1>5. CASE contentType = "error_guide"
  <2>1. Sections = {<<"error_overview">>} \cup {<<"cause", i>> : i \in DOMAIN form.causes}
    BY <1>5 DEF Sections, SectionsOf
  <2> HIDE DEF fixed
  <2>2. <<"error_overview">> \in fixed
    BY DEF fixed
  <2> QED
    BY <1>2, <1>3, <2>1, <2>2
<1>6. CASE contentType = "procedure"
  <2>1. Sections = {<<"proc_overview">>} \cup
                   {<<"proc_steps", b>> : b \in DOMAIN BatchSteps(Numbered(form.steps))}
    BY <1>6 DEF Sections, SectionsOf
  <2>2. <<"proc_overview">> \in fixed
    OBVIOUS
  <2> HIDE DEF fixed
  <2> QED
    BY <1>2, <1>4, <2>1, <2>2
<1>7. CASE contentType = "config"
  <2>1. Sections = {<<"cfg_overview">>, <<"cfg_values">>}
    BY <1>7 DEF Sections, SectionsOf
  <2>2. <<"cfg_overview">> \in fixed /\ <<"cfg_values">> \in fixed
    OBVIOUS
  <2> HIDE DEF fixed
  <2> QED
    BY <1>2, <2>1, <2>2
<1> QED
  BY <1>1, <1>5, <1>6, <1>7 DEF ContentTypes

\* ShotsKeep: a step that changes the screenshots only keeps the shape of the form.
LEMMA ShotsKeep ==
    ASSUME FieldsInv, UNCHANGED formVars,
           screenshots' \subseteq Screenshot, shown' \subseteq Screenshot,
           sent' \subseteq Upload, uploads' \in Nat, zones' \in [AllSections -> Zone]
    PROVE  FieldsInv'
<1>1. GoodForm(form)'
  BY DEF formVars, FieldsInv, GoodForm, FormRecord, GoodCauses, Cause, Step, Row
<1>2. EntryTyped'
  BY DEF formVars, FieldsInv, EntryTyped
<1>3. ShotsTyped'
  BY DEF ShotsTyped, Screenshot, Upload, Zone, AllSections
<1> QED
  BY <1>1, <1>2, <1>3 DEF FieldsInv

\* ZoneSet: a zone takes any state of a zone.
LEMMA ZoneSet ==
    ASSUME FieldsInv, NEW section \in AllSections, NEW z \in Zone
    PROVE  [zones EXCEPT ![section] = z] \in [AllSections -> Zone]
BY DEF FieldsInv, ShotsTyped

\* ScreenshotsKeeps: the operations on the zones and the screenshots.
LEMMA ScreenshotsKeeps == FieldsInv /\ Screenshots => FieldsInv'
<1> SUFFICES ASSUME FieldsInv, Screenshots PROVE FieldsInv'
  OBVIOUS
<1>1. /\ screenshots \subseteq Screenshot /\ shown \subseteq Screenshot
      /\ sent \subseteq Upload /\ uploads \in Nat /\ zones \in [AllSections -> Zone]
  BY DEF FieldsInv, ShotsTyped
<1>2. ASSUME NEW section \in Sections, HandleFileSelect(section)
      PROVE  FieldsInv'
  <2>1. section \in AllSections /\ zones[section] \in Zone
    BY <1>1, SectionsAreSections
  <2>2. PICK ok \in BOOLEAN :
           zones' = [zones EXCEPT ![section] =
                        [zones[section] EXCEPT !.phase = IF ok THEN "pending" ELSE "idle",
                                               !.error = ~ok]]
    BY <1>2 DEF HandleFileSelect, SetZone
  <2> DEFINE z == [zones[section] EXCEPT !.phase = IF ok THEN "pending" ELSE "idle",
                                         !.error = ~ok]
  <2>3. z \in Zone
    BY <2>1 DEF Zone
  <2> HIDE DEF z
  <2>4. zones' \in [AllSections -> Zone]
    BY <2>1, <2>2, <2>3, ZoneSet DEF z
  <2> QED
    BY <1>1, <1>2, <2>4, ShotsKeep DEF HandleFileSelect
<1>3. ASSUME NEW section \in Sections, HandleUpload(section)
      PROVE  FieldsInv'
  <2>1. section \in AllSections /\ Owner(section) \in Nat
    BY SectionsAreSections
  <2>2. uploads' \in Nat
    BY <1>1, <1>3 DEF HandleUpload
  <2>3. [id |-> uploads', section |-> section, owner |-> Owner(section)] \in Upload
    BY <2>1, <2>2 DEF Upload
  <2>4. sent' \subseteq Upload
    BY <1>1, <1>3, <2>3 DEF HandleUpload
  <2> DEFINE z == [phase |-> "uploading", upload |-> uploads', preview |-> FALSE,
                   error |-> FALSE]
  <2>5. z \in Zone
    BY <2>2 DEF Zone
  <2>6. zones' = [zones EXCEPT ![section] = z]
    BY <1>3 DEF HandleUpload, SetZone
  <2> HIDE DEF z
  <2>7. zones' \in [AllSections -> Zone]
    BY <2>1, <2>5, <2>6, ZoneSet
  <2> QED
    BY <1>1, <1>3, <2>2, <2>4, <2>7, ShotsKeep DEF HandleUpload
<1>4. ASSUME NEW section \in Sections, HandleCancelPending(section)
      PROVE  FieldsInv'
  <2>1. section \in AllSections /\ IdleZone \in Zone
    BY SectionsAreSections DEF IdleZone, Zone
  <2>2. zones' \in [AllSections -> Zone]
    BY <1>4, <2>1, ZoneSet DEF HandleCancelPending, SetZone
  <2> QED
    BY <1>1, <1>4, <2>2, ShotsKeep DEF HandleCancelPending
<1>5. ASSUME NEW section \in Sections, DismissPreview(section)
      PROVE  FieldsInv'
  <2>1. section \in AllSections /\ zones[section] \in Zone
    BY <1>1, SectionsAreSections
  <2>2. [zones[section] EXCEPT !.preview = FALSE] \in Zone
    BY <2>1 DEF Zone
  <2>3. zones' \in [AllSections -> Zone]
    BY <1>5, <2>1, <2>2, ZoneSet DEF DismissPreview, SetZone
  <2> QED
    BY <1>1, <1>5, <2>3, ShotsKeep DEF DismissPreview
<1>6. ASSUME NEW u \in sent, UploadAccepted(u)
      PROVE  FieldsInv'
  <2>1. u \in Upload
    BY <1>1
  <2>2. u.section \in AllSections
    BY <2>1 DEF Upload
  <2>3. [id |-> u.id, section |-> u.section, owner |-> u.owner, vision |-> "complete"]
           \in Screenshot
    BY <2>1 DEF Upload, Screenshot
  <2>4. screenshots' \subseteq Screenshot
    BY <1>1, <1>6, <2>3 DEF UploadAccepted
  <2>5. shown' \subseteq Screenshot
    BY <1>1, <1>6, <2>4 DEF UploadAccepted
  <2>6. sent' \subseteq Upload
    BY <1>1, <1>6 DEF UploadAccepted
  <2>7. [IdleZone EXCEPT !.preview = TRUE] \in Zone
    BY DEF IdleZone, Zone
  <2>8. zones' \in [AllSections -> Zone]
    BY <1>1, <1>6, <2>2, <2>7, ZoneSet DEF UploadAccepted, Answered
  <2> QED
    BY <1>1, <1>6, <2>4, <2>5, <2>6, <2>8, ShotsKeep DEF UploadAccepted
<1>7. ASSUME NEW u \in sent, UploadRefused(u)
      PROVE  FieldsInv'
  <2>1. u.section \in AllSections
    BY <1>1 DEF Upload
  <2>2. sent' \subseteq Upload
    BY <1>1, <1>7 DEF UploadRefused
  <2>3. [IdleZone EXCEPT !.phase = "pending", !.error = TRUE] \in Zone
    BY DEF IdleZone, Zone
  <2>4. zones' \in [AllSections -> Zone]
    BY <1>1, <1>7, <2>1, <2>3, ZoneSet DEF UploadRefused, Answered
  <2> QED
    BY <1>1, <1>7, <2>2, <2>4, ShotsKeep DEF UploadRefused
<1>8. ASSUME NEW s \in screenshots \cup shown, DeleteScreenshot(s)
      PROVE  FieldsInv'
  <2>1. screenshots' \subseteq Screenshot /\ shown' \subseteq Screenshot
    BY <1>1, <1>8 DEF DeleteScreenshot
  <2> QED
    BY <1>1, <1>8, <2>1, ShotsKeep DEF DeleteScreenshot
<1>9. ASSUME NEW s \in screenshots \cup shown, RetryVision(s)
      PROVE  FieldsInv'
  <2>1. s \in Screenshot
    BY <1>1
  <2>2. [s EXCEPT !.vision = "processing"] \in Screenshot
    BY <2>1 DEF Screenshot
  <2>3. screenshots' \subseteq Screenshot /\ shown' \subseteq Screenshot
    BY <1>1, <1>9, <2>2 DEF RetryVision
  <2> QED
    BY <1>1, <1>9, <2>3, ShotsKeep DEF RetryVision
<1>10. ASSUME NEW s \in screenshots \cup shown, VisionEnds(s)
       PROVE  FieldsInv'
  <2>1. PICK v \in {"complete", "failed"} :
           screenshots' = (screenshots \ {s}) \cup {[s EXCEPT !.vision = v]}
    BY <1>10 DEF VisionEnds
  <2>2. s \in Screenshot
    BY <1>1
  <2>3. [s EXCEPT !.vision = v] \in Screenshot
    BY <2>2 DEF Screenshot
  <2>4. screenshots' \subseteq Screenshot
    BY <1>1, <2>1, <2>3
  <2> QED
    BY <1>1, <1>10, <2>4, ShotsKeep DEF VisionEnds
<1> QED
  BY <1>2, <1>3, <1>4, <1>5, <1>6, <1>7, <1>8, <1>9, <1>10 DEF Screenshots

\* ChecksKeep: a check of a reference changes nothing but the checks.
LEMMA ChecksKeep ==
    ASSUME FieldsInv, NEW i, Debounce(i) \/ Checked(i)
    PROVE  FieldsInv'
<1>1. UNCHANGED formVars /\ UNCHANGED shotVars
  BY DEF Debounce, Checked
<1> QED
  BY <1>1, ShotsKeep DEF FieldsInv, ShotsTyped, shotVars

\* SaveKeeps: the first save gives the entry its id.
LEMMA SaveKeeps == FieldsInv /\ Save => FieldsInv'
<1> SUFFICES ASSUME FieldsInv, Save PROVE FieldsInv'
  OBVIOUS
<1>1. GoodForm(form)'
  BY DEF Save, FieldsInv, GoodForm, FormRecord, GoodCauses, Cause, Step, Row
<1>2. EntryTyped'
  BY DEF Save, FieldsInv, EntryTyped
<1>3. ShotsTyped'
  BY DEF Save, FieldsInv, shotVars, ShotsTyped, Screenshot, Upload, Zone, AllSections
<1> QED
  BY <1>1, <1>2, <1>3 DEF FieldsInv

\* StutterKeeps: a step of something else keeps the shape.
LEMMA StutterKeeps == FieldsInv /\ UNCHANGED vars => FieldsInv'
<1> SUFFICES ASSUME FieldsInv, UNCHANGED vars PROVE FieldsInv'
  OBVIOUS
<1>1. UNCHANGED formVars /\ UNCHANGED shotVars
  BY DEF vars
<1> QED
  BY <1>1, ShotsKeep DEF FieldsInv, ShotsTyped, shotVars

\* FieldsInductive: every step keeps what FieldsInv says.
LEMMA FieldsInductive == FieldsInv /\ [Next]_vars => FieldsInv'
BY EditFieldsKeeps, EditCausesKeeps, EditStepsKeeps, EditRowsKeeps, EditValuesKeeps,
   ScreenshotsKeeps, SaveKeeps, ChecksKeep, StutterKeeps DEF Next

\* ManyIdentities: causes that differ in their identities have as many of them.
LEMMA ManyIdentities ==
    ASSUME NEW causes \in Seq(Cause), NEW nextId, GoodCauses(causes, nextId)
    PROVE  Cardinality({causes[i].id : i \in DOMAIN causes}) = Len(causes)
<1> DEFINE n == Len(causes)
           ids == {causes[i].id : i \in DOMAIN causes}
           idOf == [i \in 1..n |-> causes[i].id]
<1>1. DOMAIN causes = 1..n /\ n \in Nat
  OBVIOUS
<1>2. \A i, j \in 1..n : i # j => causes[i].id # causes[j].id
  BY DEF GoodCauses
<1>3. idOf \in [1..n -> ids] /\ \A i \in 1..n : idOf[i] = causes[i].id
  BY <1>1
<1>4. \A x \in ids : \E i \in 1..n : idOf[i] = x
  BY <1>1, <1>3
<1> HIDE DEF idOf, ids
<1>5. idOf \in Bijection(1..n, ids)
  BY <1>2, <1>3, <1>4 DEF Bijection, Injection, Surjection, IsInjective
<1>6. IsFiniteSet(1..n) /\ Cardinality(1..n) = n
  <2>1. n \in Nat
    BY <1>1
  <2> HIDE DEF n
  <2>2. 1 \in Int /\ n \in Int
    BY <2>1
  <2>3. IsFiniteSet(1..n) /\ Cardinality(1..n) = IF 1 > n THEN 0 ELSE (n - 1) + 1
    BY <2>2, FS_Interval, Zenon
  <2> QED
    BY <2>1, <2>3
<1>7. Cardinality(ids) = Cardinality(1..n)
  BY <1>5, <1>6, FS_Bijection DEF ExistsBijection
<1> QED
  BY <1>6, <1>7 DEF ids, n

\* ShapeKept: the shape is what FieldsTypeOK says.
LEMMA ShapeKept == FieldsInv => FieldsTypeOK
<1> SUFFICES ASSUME FieldsInv PROVE FieldsTypeOK
  OBVIOUS
<1>1. /\ contentType \in ContentTypes /\ readOnly \in BOOLEAN /\ saved \in BOOLEAN
  BY DEF FieldsInv, EntryTyped
<1>2. /\ form.fields \in [Fields -> Texts \cup {"NONE"}]
      /\ form.causes \in Seq(Cause) /\ Len(form.causes) <= MaxCauses
      /\ form.steps \in Seq(Step) /\ form.rows \in Seq(Row) /\ form.groups \in Seq(Nat \ {0})
      /\ GoodCauses(form.causes, form.nextId)
  BY FormParts DEF FieldsInv
<1>3. Cardinality({form.causes[i].id : i \in DOMAIN form.causes}) = Len(form.causes)
  BY <1>2, ManyIdentities
<1>4. /\ shown \subseteq [id : Nat, section : AllSections, owner : Nat,
                         vision : {"complete", "processing", "failed"}]
      /\ \A s \in AllSections : zones[s].phase \in {"idle", "pending", "uploading"}
  <2>1. shown \subseteq Screenshot /\ zones \in [AllSections -> Zone]
    BY DEF FieldsInv, ShotsTyped
  <2>2. \A s \in AllSections : zones[s] \in Zone
    BY <2>1
  <2> QED
    BY <2>1, <2>2 DEF Screenshot, Zone
<1> QED
  BY <1>1, <1>2, <1>3, <1>4 DEF FieldsTypeOK

\* FieldsAlways: the inductive invariant holds always.
LEMMA FieldsAlways == Spec => []FieldsInv
<1> QED
  BY InitKeeps, FieldsInductive, PTL DEF Spec

\* FieldsTypes: however long a form is edited, every part of it keeps its shape and no
\* two causes share an identity, while causes are added, removed and edited and the
\* screenshots of a section come and go (ErrorGuideFormFields.tsx,
\* ProcedureFormFields.tsx, ConfigFormFields.tsx, ScreenshotUploadZone.tsx).
THEOREM FieldsTypes == Spec => []FieldsTypeOK
<1> QED
  BY FieldsAlways, ShapeKept, PTL

-----------------------------------------------------------------------------
(* Branches that start and end.                                            *)

\* Count: how many of the first k numbers are in a set.
LEMMA Count ==
    ASSUME NEW S, NEW k \in Nat
    PROVE  /\ Cardinality({i \in 1..0 : i \in S}) = 0
           /\ Cardinality({i \in 1..k : i \in S}) \in Nat
           /\ Cardinality({i \in 1..(k + 1) : i \in S}) =
                 Cardinality({i \in 1..k : i \in S}) + (IF k + 1 \in S THEN 1 ELSE 0)
<1> DEFINE A == {i \in 1..k : i \in S}
           B == {i \in 1..(k + 1) : i \in S}
<1>1. {i \in 1..0 : i \in S} = {}
  OBVIOUS
<1>2. IsFiniteSet(A) /\ Cardinality(A) \in Nat
  <2>1. IsFiniteSet(1..k)
    BY FS_Interval
  <2>2. A \subseteq 1..k
    OBVIOUS
  <2> HIDE DEF A
  <2>3. IsFiniteSet(A)
    BY <2>1, <2>2, FS_Subset
  <2> QED
    BY <2>3, FS_CardinalityType
<1>3. CASE k + 1 \in S
  <2>1. B = A \cup {k + 1} /\ k + 1 \notin A
    BY <1>3
  <2> HIDE DEF A, B
  <2>2. Cardinality(B) = Cardinality(A) + 1
    BY <1>2, <2>1, FS_AddElement
  <2> QED
    BY <1>1, <1>2, <1>3, <2>2, FS_EmptySet DEF A, B
<1>4. CASE k + 1 \notin S
  <2>1. B = A
    BY <1>4
  <2> QED
    BY <1>1, <1>2, <1>4, <2>1, FS_EmptySet
<1> QED
  BY <1>3, <1>4

\* Counts: the starts and the ends, step by step.
LEMMA Counts ==
    ASSUME form.steps \in Seq(Step)
    PROVE  /\ Starts(0) = 0 /\ Ends(0) = 0
           /\ \A k \in 0..Len(form.steps) : Starts(k) \in Nat /\ Ends(k) \in Nat
           /\ \A k \in 1..Len(form.steps) :
                 /\ Starts(k) = Starts(k - 1)
                                  + (IF form.steps[k].type = "branch_start" THEN 1 ELSE 0)
                 /\ Ends(k) = Ends(k - 1)
                                  + (IF form.steps[k].type = "branch_end" THEN 1 ELSE 0)
<1> DEFINE n == Len(form.steps)
           OfType(t) == {i \in Nat : form.steps[i].type = t}
<1>1. n \in Nat
  OBVIOUS
<1>2. \A k \in Nat : /\ Starts(k) = Cardinality({i \in 1..k : i \in OfType("branch_start")})
                     /\ Ends(k) = Cardinality({i \in 1..k : i \in OfType("branch_end")})
  <2>1. \A t : \A k \in Nat : {i \in 1..k : i \in OfType(t)} = {i \in 1..k : form.steps[i].type = t}
    OBVIOUS
  <2> QED
    BY <2>1 DEF Starts, Ends
<1> HIDE DEF OfType, n
<1>3. Starts(0) = 0 /\ Ends(0) = 0
  BY <1>2, Count
<1>4. \A k \in 0..n : Starts(k) \in Nat /\ Ends(k) \in Nat
  <2>1. \A S : \A k \in Nat : Cardinality({i \in 1..k : i \in S}) \in Nat
    BY Count
  <2>2. \A k \in 0..n : k \in Nat
    BY <1>1
  <2> QED
    BY <1>2, <2>1, <2>2, ZenonT(30)
<1>5. ASSUME NEW k \in 1..n
      PROVE  /\ Starts(k) = Starts(k - 1) + (IF k \in OfType("branch_start") THEN 1 ELSE 0)
             /\ Ends(k) = Ends(k - 1) + (IF k \in OfType("branch_end") THEN 1 ELSE 0)
  <2>1. k - 1 \in Nat /\ k \in Nat /\ (k - 1) + 1 = k
    BY <1>1
  <2>2. \A S : Cardinality({i \in 1..((k - 1) + 1) : i \in S}) =
                 Cardinality({i \in 1..(k - 1) : i \in S}) + (IF (k - 1) + 1 \in S THEN 1 ELSE 0)
    BY <2>1, Count, ZenonT(30)
  <2>3. \A S : Cardinality({i \in 1..k : i \in S}) =
                 Cardinality({i \in 1..(k - 1) : i \in S}) + (IF k \in S THEN 1 ELSE 0)
    BY <2>1, <2>2, Zenon
  <2> QED
    BY <1>2, <2>1, <2>3, ZenonT(30)
<1>6. \A k \in 1..n : /\ k \in OfType("branch_start") <=> form.steps[k].type = "branch_start"
                      /\ k \in OfType("branch_end") <=> form.steps[k].type = "branch_end"
  BY <1>1 DEF OfType
<1> QED
  BY <1>3, <1>4, <1>5, <1>6 DEF n

\* The state of the branch check.
BranchStates == [stack : Seq(Nat), errors : SUBSET Nat]

\* BranchStepIs: what the branch check does with a step.
LEMMA BranchStepIs ==
    ASSUME NEW a \in BranchStates, NEW step \in NumberedStep
    PROVE  LET b == BranchStep(a, step)
           IN  /\ b \in BranchStates
               /\ step.type = "branch_start" =>
                     Len(b.stack) = Len(a.stack) + 1 /\ b.errors = a.errors
               /\ step.type = "branch_end" /\ a.stack = <<>> =>
                     b.stack = a.stack /\ b.errors = a.errors \cup {step.number}
               /\ step.type = "branch_end" /\ a.stack # <<>> =>
                     Len(b.stack) = Len(a.stack) - 1 /\ b.errors = a.errors
               /\ step.type \notin {"branch_start", "branch_end"} => b = a
<1> DEFINE b == BranchStep(a, step)
<1>1. a.stack \in Seq(Nat) /\ a.errors \subseteq Nat /\ step.number \in Nat
      /\ a = [stack |-> a.stack, errors |-> a.errors]
  BY DEF BranchStates, NumberedStep
<1>2. CASE step.type = "branch_start"
  <2> DEFINE pushed == Append(a.stack, step.number)
  <2>1. b = [a EXCEPT !.stack = pushed]
    BY <1>2 DEF BranchStep
  <2>2. pushed \in Seq(Nat) /\ Len(pushed) = Len(a.stack) + 1
    BY <1>1
  <2> HIDE DEF pushed, b
  <2>3. b \in BranchStates /\ b.stack = pushed /\ b.errors = a.errors
    BY <1>1, <2>1, <2>2 DEF BranchStates
  <2> QED
    BY <1>2, <2>2, <2>3 DEF b
<1>3. CASE step.type = "branch_end" /\ a.stack = <<>>
  <2>1. b = [a EXCEPT !.errors = a.errors \cup {step.number}]
    BY <1>3 DEF BranchStep
  <2> HIDE DEF b
  <2>2. b \in BranchStates /\ b.stack = a.stack /\ b.errors = a.errors \cup {step.number}
    BY <1>1, <2>1 DEF BranchStates
  <2> QED
    BY <1>3, <2>2 DEF b
<1>4. CASE step.type = "branch_end" /\ a.stack # <<>>
  <2> DEFINE popped == SubSeq(a.stack, 1, Len(a.stack) - 1)
  <2>1. b = [a EXCEPT !.stack = popped]
    BY <1>4 DEF BranchStep, Front
  <2>2. popped \in Seq(Nat) /\ Len(popped) = Len(a.stack) - 1
    <3> DEFINE st == a.stack
               m == Len(st) - 1
    <3>1. st \in Seq(Nat) /\ st # <<>>
      BY <1>1, <1>4
    <3> HIDE DEF st
    <3>2. m \in Nat /\ \A i \in 1..m : st[i] \in Nat
      BY <3>1
    <3>3. popped = SubSeq(st, 1, m)
      BY DEF st
    <3> HIDE DEF m, popped
    <3>4. popped \in Seq(Nat) /\ Len(popped) = m
      BY <3>2, <3>3
    <3> QED
      BY <3>4 DEF m, st
  <2> HIDE DEF popped, b
  <2>3. b \in BranchStates /\ b.stack = popped /\ b.errors = a.errors
    BY <1>1, <2>1, <2>2 DEF BranchStates
  <2> QED
    BY <1>4, <2>2, <2>3 DEF b
<1>5. CASE step.type \notin {"branch_start", "branch_end"}
  <2>1. b = a
    BY <1>5 DEF BranchStep
  <2> QED
    BY <1>5, <2>1
<1> QED
  BY <1>2, <1>3, <1>4, <1>5

\* acc[i] is the state of the branch check after i steps.
Pairing(acc, steps) ==
    /\ acc \in [0..Len(steps) -> BranchStates]
    /\ acc[0] = NoBranches
    /\ \A i \in 1..Len(steps) : acc[i] = BranchStep(acc[i - 1], Numbered(steps)[i])
    /\ ValidateBranchPairing(steps) = acc[Len(steps)].errors \cup ToSet(acc[Len(steps)].stack)

\* PairingWalk: the flags come from one walk over the steps.
LEMMA PairingWalk ==
    ASSUME NEW steps \in Seq(Step)
    PROVE  \E acc : Pairing(acc, steps)
<1> DEFINE k == Len(steps)
           s == Numbered(steps)
           next == [p \in BranchStates \X (1..k) |-> BranchStep(p[1], s[p[2]])]
           eqn(f) == f = [i \in 0..k |-> IF i = 0 THEN NoBranches
                                         ELSE BranchStep(f[i - 1], s[i])]
           walk == CHOOSE f : eqn(f)
<1>1. k \in Nat
  OBVIOUS
<1>2. NoBranches \in BranchStates
  BY DEF NoBranches, BranchStates
<1>3. \A i \in 1..k : s[i] \in NumberedStep
  <2>1. s \in Seq(NumberedStep) /\ Len(s) = k
    BY NumberedSteps
  <2> HIDE DEF s
  <2> QED
    BY <2>1
<1>4. next \in [BranchStates \X (1..k) -> BranchStates]
  <2> HIDE DEF s
  <2> QED
    BY <1>3, BranchStepIs
<1>5. PICK acc : Walks(acc, k, BranchStates, NoBranches, next)
  <2> HIDE DEF next, k
  <2> QED
    BY <1>1, <1>2, <1>4, Walk
<1>6. /\ acc \in [0..k -> BranchStates] /\ acc[0] = NoBranches
      /\ \A i \in 1..k : acc[i] = next[<<acc[i - 1], i>>]
  BY <1>5 DEF Walks
<1>7. ASSUME NEW i \in 1..k
      PROVE  acc[i] = BranchStep(acc[i - 1], s[i])
  <2> HIDE DEF s
  <2>1. \A a \in BranchStates : next[<<a, i>>] = BranchStep(a, s[i])
    OBVIOUS
  <2>2. acc[i - 1] \in BranchStates
    BY <1>6
  <2> QED
    BY <1>6, <2>1, <2>2
<1>8. eqn(acc)
  <2> HIDE DEF s
  <2>1. \A i \in 0..k : i # 0 => i \in 1..k
    OBVIOUS
  <2>2. \A i \in 0..k : acc[i] = IF i = 0 THEN NoBranches ELSE BranchStep(acc[i - 1], s[i])
    BY <1>6, <1>7, <2>1
  <2>3. acc = [i \in 0..k |-> acc[i]]
    BY <1>6
  <2> QED
    BY <2>2, <2>3
<1>9. eqn(walk)
  BY <1>8, Zenon
<1>10. ValidateBranchPairing(steps) = walk[k].errors \cup ToSet(walk[k].stack)
  BY DEF ValidateBranchPairing
<1> HIDE DEF walk, s
<1>11. walk[0] = NoBranches /\ \A i \in 1..k : walk[i] = BranchStep(walk[i - 1], s[i])
  <2>1. 0 \in 0..k /\ \A i \in 1..k : i \in 0..k /\ i # 0
    OBVIOUS
  <2> QED
    BY <1>9, <2>1
<1> DEFINE U == {i \in 0..k : walk[i] = acc[i]}
<1>12. \A i \in 0..k : i \in U
  <2>1. 0 \in U
    BY <1>6, <1>11
  <2>2. ASSUME NEW i \in 1..k, i - 1 \in U
        PROVE  i \in U
    <3>1. walk[i - 1] = acc[i - 1]
      BY <2>2
    <3> QED
      BY <1>7, <1>11, <3>1
  <2> HIDE DEF U
  <2> QED
    BY <1>1, <2>1, <2>2, Climb
<1>13. walk[k] = acc[k]
  <2>1. k \in 0..k
    OBVIOUS
  <2> QED
    BY <1>12, <2>1
<1>14. Pairing(acc, steps)
  BY <1>6, <1>7, <1>10, <1>13 DEF Pairing, s
<1> QED
  BY <1>14

\* FlaggedWhenUnpaired: the walk of the branch check keeps count: as long as it has
\* found no error, its stack is as long as the branches that are open.
LEMMA FlaggedWhenUnpaired ==
    ASSUME form.steps \in Seq(Step)
    PROVE  FlaggedIffUnpaired
<1> DEFINE n == Len(form.steps)
           s == Numbered(form.steps)
<1>1. PICK acc : Pairing(acc, form.steps)
  BY PairingWalk
<1>2. /\ acc \in [0..n -> BranchStates] /\ acc[0] = NoBranches
      /\ \A i \in 1..n : acc[i] = BranchStep(acc[i - 1], s[i])
      /\ ValidateBranchPairing(form.steps) = acc[n].errors \cup ToSet(acc[n].stack)
  BY <1>1 DEF Pairing
<1>3. n \in Nat
  OBVIOUS
<1>4. \A i \in 1..n : s[i] \in NumberedStep /\ s[i].number = i /\ s[i].type = form.steps[i].type
  <2>1. s \in Seq(NumberedStep) /\ Len(s) = n
        /\ \A i \in 1..n : s[i].number = i /\ s[i].type = form.steps[i].type
    BY NumberedSteps
  <2> HIDE DEF s, n
  <2> QED
    BY <2>1
<1>5. /\ Starts(0) = 0 /\ Ends(0) = 0
      /\ \A k \in 0..n : Starts(k) \in Nat /\ Ends(k) \in Nat
      /\ \A k \in 1..n :
            /\ Starts(k) = Starts(k - 1) + (IF s[k].type = "branch_start" THEN 1 ELSE 0)
            /\ Ends(k) = Ends(k - 1) + (IF s[k].type = "branch_end" THEN 1 ELSE 0)
  BY <1>4, Counts
<1> HIDE DEF s, n
<1> DEFINE Fits(k) == \A j \in 1..k : Starts(j) >= Ends(j)
           U == {k \in 0..n : /\ acc[k].errors = {} <=> Fits(k)
                              /\ acc[k].errors = {} => Len(acc[k].stack) = Starts(k) - Ends(k)}
<1>6. 0 \in U
  <2>1. acc[0].errors = {} /\ Len(acc[0].stack) = 0
    BY <1>2 DEF NoBranches
  <2> QED
    BY <1>3, <1>5, <2>1
<1>7. ASSUME NEW k \in 1..n, k - 1 \in U
      PROVE  k \in U
  <2> DEFINE a == acc[k - 1]
             b == acc[k]
             step == s[k]
             x == Starts(k - 1)
             y == Ends(k - 1)
  <2>1. k - 1 \in 0..n /\ k \in 0..n /\ k \in 1..k
    BY <1>3
  <2>2. a \in BranchStates /\ step \in NumberedStep /\ b = BranchStep(a, step)
    BY <1>2, <1>4, <2>1
  <2>3. /\ x \in Nat /\ y \in Nat
        /\ Starts(k) = x + (IF step.type = "branch_start" THEN 1 ELSE 0)
        /\ Ends(k) = y + (IF step.type = "branch_end" THEN 1 ELSE 0)
    BY <1>5, <2>1
  <2>4. /\ a.errors = {} <=> Fits(k - 1)
        /\ a.errors = {} => Len(a.stack) = x - y
    BY <1>7
  <2>5. Fits(k) <=> Fits(k - 1) /\ Starts(k) >= Ends(k)
    <3>1. \A j : j \in 1..k <=> j \in 1..(k - 1) \/ j = k
      BY <1>3
    <3> QED
      BY <3>1, Zenon
  <2>6. a.stack \in Seq(Nat) /\ a.errors \subseteq Nat /\ step.number \in Nat /\ Len(a.stack) \in Nat
        /\ (a.stack = <<>> <=> Len(a.stack) = 0)
    <3>1. a.stack \in Seq(Nat) /\ a.errors \subseteq Nat /\ step.number \in Nat
      BY <2>2 DEF BranchStates, NumberedStep
    <3>2. \A st \in Seq(Nat) : Len(st) \in Nat /\ (st = <<>> <=> Len(st) = 0)
      OBVIOUS
    <3> QED
      BY <3>1, <3>2
  <2>7. /\ step.type = "branch_start" =>
              Len(b.stack) = Len(a.stack) + 1 /\ b.errors = a.errors
        /\ step.type = "branch_end" /\ a.stack = <<>> =>
              b.stack = a.stack /\ b.errors = a.errors \cup {step.number}
        /\ step.type = "branch_end" /\ a.stack # <<>> =>
              Len(b.stack) = Len(a.stack) - 1 /\ b.errors = a.errors
        /\ step.type \notin {"branch_start", "branch_end"} => b = a
    BY <2>2, BranchStepIs
  <2> DEFINE la == Len(a.stack)
             lb == Len(b.stack)
             p  == Starts(k)
             q  == Ends(k)
             ea == a.errors = {}
             eb == b.errors = {}
  <2> HIDE DEF a, b, step, Fits, x, y, U
  <2>8. SUFFICES (eb <=> Fits(k)) /\ (eb => lb = p - q)
    BY <2>1 DEF U, b
  <2>9. la \in Nat /\ (ea => la = x - y) /\ (ea <=> Fits(k - 1))
    BY <2>4, <2>6
  <2>10. CASE step.type = "branch_start"
    <3>1. p = x + 1 /\ q = y /\ lb = la + 1 /\ (eb <=> ea)
      BY <2>3, <2>7, <2>10
    <3> HIDE DEF la, lb, p, q, ea, eb
    <3>2. ea => p >= q
      BY <2>3, <2>9, <3>1
    <3>3. Fits(k) <=> Fits(k - 1) /\ p >= q
      BY <2>5 DEF p, q
    <3> QED
      BY <2>3, <2>9, <3>1, <3>2, <3>3
  <2>11. CASE step.type = "branch_end" /\ a.stack = <<>>
    <3>1. step.number \in b.errors
      BY <2>7, <2>11
    <3>2. la = 0
      BY <2>6, <2>11
    <3>3. p = x /\ q = y + 1
      BY <2>3, <2>11
    <3>4. p = x /\ q = y + 1 /\ la = 0 /\ ~eb
      BY <3>1, <3>2, <3>3
    <3> HIDE DEF la, lb, p, q, ea, eb
    <3>5. ea => ~ (p >= q)
      BY <2>3, <2>9, <3>4
    <3>6. Fits(k) <=> Fits(k - 1) /\ p >= q
      BY <2>5 DEF p, q
    <3> QED
      BY <2>9, <3>4, <3>5, <3>6
  <2>12. CASE step.type = "branch_end" /\ a.stack # <<>>
    <3>1. p = x /\ q = y + 1 /\ la # 0 /\ lb = la - 1 /\ (eb <=> ea)
      BY <2>3, <2>6, <2>7, <2>12
    <3> HIDE DEF la, lb, p, q, ea, eb
    <3>2. ea => p >= q
      BY <2>3, <2>9, <3>1
    <3>3. Fits(k) <=> Fits(k - 1) /\ p >= q
      BY <2>5 DEF p, q
    <3> QED
      BY <2>3, <2>9, <3>1, <3>2, <3>3
  <2>13. CASE step.type \notin {"branch_start", "branch_end"}
    <3>1. p = x /\ q = y /\ lb = la /\ (eb <=> ea)
      BY <2>3, <2>7, <2>13
    <3> HIDE DEF la, lb, p, q, ea, eb
    <3>2. ea => p >= q
      BY <2>3, <2>9, <3>1
    <3>3. Fits(k) <=> Fits(k - 1) /\ p >= q
      BY <2>5 DEF p, q
    <3> QED
      BY <2>3, <2>9, <3>1, <3>2, <3>3
  <2> QED
    BY <2>10, <2>11, <2>12, <2>13
<1>8. n \in 0..n /\ n \in U
  <2>1. n \in 0..n
    BY <1>3
  <2> HIDE DEF U
  <2> QED
    BY <1>3, <1>6, <1>7, <2>1, Climb
<1> DEFINE end == acc[n]
<1>9. /\ end.errors = {} <=> Fits(n)
      /\ end.errors = {} => Len(end.stack) = Starts(n) - Ends(n)
  BY <1>8
<1>10. end.stack \in Seq(Nat)
  BY <1>2, <1>8 DEF BranchStates
<1>11. ToSet(end.stack) = {} <=> Len(end.stack) = 0
  <2>1. \A st \in Seq(Nat) : DOMAIN st = 1..Len(st) /\ Len(st) \in Nat
    OBVIOUS
  <2> HIDE DEF end
  <2>2. Len(end.stack) \in Nat /\ DOMAIN end.stack = 1..Len(end.stack)
    BY <1>10, <2>1
  <2>3. ToSet(end.stack) = {end.stack[i] : i \in 1..Len(end.stack)}
    BY <2>2 DEF ToSet
  <2> DEFINE m == Len(end.stack)
  <2> HIDE DEF m
  <2>4. CASE m = 0
    <3>1. 1..m = {}
      BY <2>4
    <3> QED
      BY <2>3, <2>4, <3>1 DEF m
  <2>5. CASE m # 0
    <3>1. 1 \in 1..m
      BY <2>2, <2>5 DEF m
    <3>2. end.stack[1] \in ToSet(end.stack)
      BY <2>3, <3>1 DEF m
    <3> QED
      BY <2>5, <3>2 DEF m
  <2> QED
    BY <2>4, <2>5
<1>12. ValidateBranchPairing(form.steps) = {} <=> end.errors = {} /\ ToSet(end.stack) = {}
  BY <1>2
<1>13. Balanced <=> Fits(n) /\ Starts(n) = Ends(n)
  <2>1. DOMAIN form.steps = 1..n
    BY DEF n
  <2> QED
    BY <2>1 DEF Balanced, n
<1>14. Starts(n) \in Nat /\ Ends(n) \in Nat
  BY <1>5, <1>8
<1> HIDE DEF Fits, end
<1> QED
  BY <1>9, <1>11, <1>12, <1>13, <1>14 DEF FlaggedIffUnpaired

\* PairingSafety: the form flags a procedure exactly when a count of its branch starts
\* and ends tells that they do not pair up, whatever its steps are, so that no procedure
\* is blocked by a flag it does not deserve and none slips through (ProcedureFormFields.tsx,
\* validateBranchPairing).
THEOREM PairingSafety == Spec => []FlaggedIffUnpaired
<1>1. FieldsInv => FlaggedIffUnpaired
  BY FormParts, FlaggedWhenUnpaired DEF FieldsInv
<1> QED
  BY <1>1, FieldsAlways, PTL

-----------------------------------------------------------------------------
(* Steps in batches.                                                       *)

\* g holds the steps after lo, up to hi, and nothing else.
Slice(g, s, lo, hi) ==
    /\ g \in Seq(NumberedStep)
    /\ Len(g) = hi - lo
    /\ \A i \in 1..(hi - lo) : g[i] = s[lo + i]

\* g holds the steps after lo, up to hi, in their order, and possibly notes.
Segment(g, s, lo, hi) ==
    /\ g \in Seq(NumberedStep)
    /\ \A i \in 1..Len(g) : g[i].number = 0 \/ (lo < g[i].number /\ g[i].number <= hi)
    /\ \A i, j \in 1..Len(g) : i < j => \/ g[i].number = 0 \/ g[j].number = 0
                                        \/ g[i].number < g[j].number
    /\ \A k \in (lo + 1)..hi : \E i \in 1..Len(g) : g[i] = s[k]

\* The batches hold the first m steps, in their order, and possibly notes.
Covers(batches, s, m) ==
    /\ batches \in Seq(Seq(NumberedStep))
    /\ \A k \in 1..m : \E b \in 1..Len(batches) :
          \E i \in 1..Len(batches[b]) : batches[b][i] = s[k]
    /\ \A b \in 1..Len(batches) : \A i \in 1..Len(batches[b]) : batches[b][i].number <= m
    /\ \A b, c \in 1..Len(batches) : \A i \in 1..Len(batches[b]), j \in 1..Len(batches[c]) :
          b < c \/ (b = c /\ i < j) =>
              \/ batches[b][i].number = 0 \/ batches[c][j].number = 0
              \/ batches[b][i].number < batches[c][j].number

\* SliceIsSegment: a slice is a segment, with or without a note at either end.
LEMMA SliceIsSegment ==
    ASSUME NEW s \in Seq(NumberedStep), \A i \in 1..Len(s) : s[i].number = i,
           NEW lo \in Nat, NEW hi \in Nat, lo <= hi, hi <= Len(s),
           NEW g, Slice(g, s, lo, hi)
    PROVE  /\ Segment(g, s, lo, hi)
           /\ Segment(Append(g, Note), s, lo, hi)
           /\ Segment(<<Note>> \o g, s, lo, hi)
<1> DEFINE d == hi - lo
           last == Append(g, Note)
           front == <<Note>> \o g
<1>1. g \in Seq(NumberedStep) /\ Len(g) = d /\ d \in Nat /\ \A i \in 1..d : g[i] = s[lo + i]
  BY DEF Slice
<1>2. \A i \in 1..d : lo + i \in 1..Len(s)
  OBVIOUS
<1>3. \A i \in 1..d : g[i].number = lo + i
  BY <1>1, <1>2
<1>4. \A k \in (lo + 1)..hi : k - lo \in 1..d /\ lo + (k - lo) = k
  OBVIOUS
<1>5. \A i \in 1..d : lo < lo + i /\ lo + i <= hi
  OBVIOUS
<1>6. Note \in NumberedStep /\ Note.number = 0
  BY NoteIsAStep DEF Note
<1>7. /\ last \in Seq(NumberedStep) /\ Len(last) = d + 1 /\ last[d + 1] = Note
      /\ \A i \in 1..d : last[i] = g[i]
  BY <1>1, <1>6
<1>8. /\ front \in Seq(NumberedStep) /\ Len(front) = d + 1 /\ front[1] = Note
      /\ \A i \in 1..d : front[i + 1] = g[i]
  <2>1. <<Note>> \in Seq(NumberedStep) /\ Len(<<Note>>) = 1 /\ <<Note>>[1] = Note
    BY <1>6
  <2> DEFINE one == <<Note>>
  <2>2. /\ one \o g \in Seq(NumberedStep) /\ Len(one \o g) = Len(one) + Len(g)
        /\ \A i \in 1..(Len(one) + Len(g)) : (one \o g)[i] = IF i <= Len(one) THEN one[i]
                                                         ELSE g[i - Len(one)]
    BY <1>1, <2>1, ConcatProperties, ZenonT(30)
  <2> HIDE DEF one, d
  <2>3. front = one \o g /\ Len(one) = 1 /\ one[1] = Note
    BY <2>1 DEF one
  <2> HIDE DEF front
  <2>4. front \in Seq(NumberedStep) /\ Len(front) = d + 1
    BY <1>1, <2>2, <2>3
  <2>5. front[1] = Note
    BY <1>1, <2>2, <2>3
  <2>6. \A i \in 1..d : i + 1 \in 1..(1 + d) /\ ~ (i + 1 <= 1) /\ (i + 1) - 1 = i
    BY <1>1
  <2>7. ASSUME NEW i \in 1..d
        PROVE  front[i + 1] = g[i]
    <3>1. i + 1 \in 1..(1 + d) /\ ~ (i + 1 <= 1) /\ (i + 1) - 1 = i
      BY <2>6
    <3>2. i + 1 \in 1..(Len(one) + Len(g))
      BY <1>1, <2>3, <3>1
    <3>3. front[i + 1] = IF i + 1 <= Len(one) THEN one[i + 1] ELSE g[(i + 1) - Len(one)]
      BY <2>2, <2>3, <3>2
    <3> QED
      BY <2>3, <3>1, <3>3
  <2> QED
    BY <2>4, <2>5, <2>7
<1> HIDE DEF d, last, front
<1>9. \A i \in 1..(d + 1) : i \in 1..d \/ i = d + 1
  BY <1>1
<1>10. \A i \in 1..(d + 1) : (i - 1 \in 1..d /\ (i - 1) + 1 = i) \/ i = 1
  BY <1>1
<1>11. Segment(g, s, lo, hi)
  <2>1. \A i, j \in 1..d : i < j => g[i].number < g[j].number
    BY <1>3
  <2>2. \A k \in (lo + 1)..hi : \E i \in 1..d : g[i] = s[k]
    BY <1>1, <1>4
  <2> QED
    BY <1>1, <1>3, <1>5, <2>1, <2>2 DEF Segment
<1>12. Segment(last, s, lo, hi)
  <2>1. \A i \in 1..(d + 1) : last[i].number = 0 \/ (lo < last[i].number /\ last[i].number <= hi)
    BY <1>3, <1>5, <1>6, <1>7, <1>9
  <2>2. \A i, j \in 1..(d + 1) : i < j => \/ last[i].number = 0 \/ last[j].number = 0
                                           \/ last[i].number < last[j].number
    <3> SUFFICES ASSUME NEW i \in 1..(d + 1), NEW j \in 1..(d + 1), i < j
                 PROVE  last[j].number = 0 \/ last[i].number < last[j].number
      OBVIOUS
    <3>1. CASE j = d + 1
      BY <1>6, <1>7, <3>1
    <3>2. CASE j \in 1..d
      <4>1. i \in 1..d
        BY <1>1, <3>2
      <4>2. last[i].number = lo + i /\ last[j].number = lo + j
        BY <1>3, <1>7, <3>2, <4>1
      <4> QED
        BY <3>2, <4>1, <4>2
    <3> QED
      BY <1>9, <3>1, <3>2
  <2>3. \A k \in (lo + 1)..hi : \E i \in 1..(d + 1) : last[i] = s[k]
    <3> SUFFICES ASSUME NEW k \in (lo + 1)..hi PROVE \E i \in 1..(d + 1) : last[i] = s[k]
      OBVIOUS
    <3>1. PICK x \in 1..d : lo + x = k
      BY <1>4
    <3>2. x \in 1..(d + 1)
      BY <1>1
    <3>3. last[x] = g[x] /\ g[x] = s[k]
      BY <1>1, <1>7, <3>1
    <3> QED
      BY <3>2, <3>3
  <2> QED
    BY <1>7, <2>1, <2>2, <2>3 DEF Segment
<1>13. Segment(front, s, lo, hi)
  <2>1. \A i \in 1..d : front[i + 1].number = lo + i
    BY <1>3, <1>8
  <2>2. \A i \in 1..(d + 1) : front[i].number = 0 \/ (lo < front[i].number /\ front[i].number <= hi)
    <3> SUFFICES ASSUME NEW i \in 1..(d + 1)
                 PROVE  front[i].number = 0 \/ (lo < front[i].number /\ front[i].number <= hi)
      OBVIOUS
    <3>1. CASE i = 1
      BY <1>6, <1>8, <3>1
    <3>2. CASE i - 1 \in 1..d /\ (i - 1) + 1 = i
      <4>1. front[i].number = lo + (i - 1)
        BY <2>1, <3>2
      <4> QED
        BY <1>5, <3>2, <4>1
    <3> QED
      BY <1>10, <3>1, <3>2
  <2>3. \A i, j \in 1..(d + 1) : i < j => \/ front[i].number = 0 \/ front[j].number = 0
                                           \/ front[i].number < front[j].number
    <3> SUFFICES ASSUME NEW i \in 1..(d + 1), NEW j \in 1..(d + 1), i < j
                 PROVE  front[i].number = 0 \/ front[i].number < front[j].number
      OBVIOUS
    <3>1. CASE i = 1
      BY <1>6, <1>8, <3>1
    <3>2. CASE i - 1 \in 1..d /\ (i - 1) + 1 = i
      <4>1. j - 1 \in 1..d /\ (j - 1) + 1 = j
        BY <1>1, <3>2
      <4>2. front[i].number = lo + (i - 1) /\ front[j].number = lo + (j - 1)
        BY <2>1, <3>2, <4>1
      <4> QED
        BY <3>2, <4>1, <4>2
    <3> QED
      BY <1>10, <3>1, <3>2
  <2>4. \A k \in (lo + 1)..hi : \E i \in 1..(d + 1) : front[i] = s[k]
    <3> SUFFICES ASSUME NEW k \in (lo + 1)..hi PROVE \E i \in 1..(d + 1) : front[i] = s[k]
      OBVIOUS
    <3>1. PICK x \in 1..d : lo + x = k
      BY <1>4
    <3>2. x + 1 \in 1..(d + 1)
      BY <1>1
    <3>3. front[x + 1] = g[x] /\ g[x] = s[k]
      BY <1>1, <1>8, <3>1
    <3> QED
      BY <3>2, <3>3
  <2> QED
    BY <1>8, <2>2, <2>3, <2>4 DEF Segment
<1> QED
  BY <1>11, <1>12, <1>13 DEF last, front

\* SegmentExtends: another segment extends what the batches hold.
LEMMA SegmentExtends ==
    ASSUME NEW s, NEW lo \in Nat, NEW hi \in Nat, lo <= hi,
           NEW batches, Covers(batches, s, lo), NEW g, Segment(g, s, lo, hi)
    PROVE  Covers(Append(batches, g), s, hi)
<1> DEFINE S == Seq(NumberedStep)
           all == Append(batches, g)
           n == Len(batches)
<1>1. /\ batches \in Seq(S) /\ g \in S
  BY DEF Covers, Segment
<1>2. \A b \in 1..n : batches[b] \in S
  BY <1>1
<1>3. \A h \in S : Len(h) \in Nat /\ \A i \in 1..Len(h) : h[i].number \in Nat
  <2>1. \A h \in S : Len(h) \in Nat /\ \A i \in 1..Len(h) : h[i] \in NumberedStep
    OBVIOUS
  <2>2. \A x \in NumberedStep : x.number \in Nat
    BY DEF NumberedStep
  <2> QED
    BY <2>1, <2>2
<1> HIDE DEF S
<1>4. /\ all \in Seq(S) /\ Len(all) = n + 1 /\ all[n + 1] = g /\ n \in Nat
      /\ \A b \in 1..n : all[b] = batches[b]
  BY <1>1
<1> HIDE DEF all, n
<1>5. \A b \in 1..(n + 1) : b = n + 1 \/ b \in 1..n
  BY <1>4
<1>6. \A b \in 1..n : b \in 1..(n + 1) /\ b # n + 1 /\ n + 1 \in 1..(n + 1) /\ ~ (n + 1 < b)
  BY <1>4
<1>7. n + 1 \in 1..(n + 1)
  BY <1>4
<1>8. ASSUME NEW k \in 1..hi
      PROVE  \E b \in 1..(n + 1) : \E i \in 1..Len(all[b]) : all[b][i] = s[k]
  <2>1. CASE k \in 1..lo
    <3>1. PICK b \in 1..n : \E i \in 1..Len(batches[b]) : batches[b][i] = s[k]
      BY <2>1 DEF Covers, n
    <3> QED
      BY <1>4, <1>6, <3>1
  <2>2. CASE k \in (lo + 1)..hi
    <3>1. \E i \in 1..Len(g) : g[i] = s[k]
      BY <2>2 DEF Segment
    <3> QED
      BY <1>4, <1>7, <3>1
  <2> QED
    BY <2>1, <2>2
<1>9. \A b \in 1..n : \A i \in 1..Len(batches[b]) :
         batches[b][i].number \in Nat /\ batches[b][i].number <= lo
  BY <1>2, <1>3 DEF Covers, n
<1>10. \A i \in 1..Len(g) : /\ g[i].number \in Nat /\ g[i].number <= hi
                            /\ g[i].number = 0 \/ lo < g[i].number
  <2>1. \A i \in 1..Len(g) : g[i].number \in Nat
    BY <1>1, <1>3
  <2> QED
    BY <2>1 DEF Segment
<1>11. ASSUME NEW b \in 1..(n + 1), NEW i \in 1..Len(all[b])
       PROVE  all[b][i].number <= hi
  <2>1. CASE b = n + 1
    BY <1>4, <1>10, <2>1
  <2>2. CASE b \in 1..n
    <3>1. all[b] = batches[b]
      BY <1>4, <2>2
    <3>2. batches[b][i].number \in Nat /\ batches[b][i].number <= lo
      BY <1>9, <2>2, <3>1
    <3> QED
      BY <3>1, <3>2
  <2> QED
    BY <1>5, <2>1, <2>2
<1>12. ASSUME NEW b \in 1..(n + 1), NEW c \in 1..(n + 1),
              NEW i \in 1..Len(all[b]), NEW j \in 1..Len(all[c]),
              b < c \/ (b = c /\ i < j)
       PROVE  \/ all[b][i].number = 0 \/ all[c][j].number = 0
              \/ all[b][i].number < all[c][j].number
  <2>1. CASE b \in 1..n /\ c \in 1..n
    <3>1. all[b] = batches[b] /\ all[c] = batches[c]
      BY <1>4, <2>1
    <3> QED
      BY <1>12, <2>1, <3>1 DEF Covers, n
  <2>2. CASE b \in 1..n /\ c = n + 1
    <3>1. all[b] = batches[b] /\ all[c] = g
      BY <1>4, <2>2
    <3>2. batches[b][i].number \in Nat /\ batches[b][i].number <= lo
      BY <1>9, <2>2, <3>1
    <3>3. g[j].number \in Nat /\ (g[j].number = 0 \/ lo < g[j].number)
      BY <1>10, <3>1
    <3> QED
      BY <3>1, <3>2, <3>3
  <2>3. CASE b = n + 1 /\ c = n + 1
    <3>1. all[b] = g /\ all[c] = g /\ i < j
      BY <1>4, <1>12, <2>3
    <3> QED
      BY <3>1 DEF Segment
  <2>4. CASE b = n + 1 /\ c \in 1..n
    <3>1. FALSE
      BY <1>4, <1>12, <2>4
    <3> QED
      BY <3>1
  <2> QED
    BY <1>5, <2>1, <2>2, <2>3, <2>4
<1>13. Covers(all, s, hi)
  BY <1>4, <1>8, <1>11, <1>12 DEF Covers, S
<1> QED
  BY <1>13 DEF all

\* StartsGrow: the count of the starts grows, by one at every start.
LEMMA StartsGrow ==
    ASSUME form.steps \in Seq(Step),
           NEW i \in 1..Len(form.steps), NEW j \in 1..Len(form.steps), i < j,
           form.steps[j].type = "branch_start"
    PROVE  Starts(i) < Starts(j)
<1> DEFINE n == Len(form.steps)
           U == {k \in 0..n : k >= i => Starts(k) >= Starts(i)}
<1>1. n \in Nat
  OBVIOUS
<1>2. /\ \A k \in 0..n : Starts(k) \in Nat
      /\ \A k \in 1..n : Starts(k) = Starts(k - 1) \/ Starts(k) = Starts(k - 1) + 1
      /\ Starts(j) = Starts(j - 1) + 1
  <2>1. /\ \A k \in 0..n : Starts(k) \in Nat
        /\ \A k \in 1..n : Starts(k) = Starts(k - 1)
                             + (IF form.steps[k].type = "branch_start" THEN 1 ELSE 0)
    BY Counts
  <2>2. \A k \in 1..n : k - 1 \in 0..n
    BY <1>1
  <2> HIDE DEF n
  <2>3. \A k \in 1..n : Starts(k - 1) \in Nat
    BY <2>1, <2>2
  <2>4. \A k \in 1..n : Starts(k) = Starts(k - 1) \/ Starts(k) = Starts(k - 1) + 1
    BY <2>1, <2>3
  <2>5. Starts(j) = Starts(j - 1) + 1
    BY <2>1 DEF n
  <2> QED
    BY <2>1, <2>4, <2>5
<1> HIDE DEF n
<1>3. i \in 1..n /\ j \in 1..n
  BY DEF n
<1>4. 0 \in U
  BY <1>1, <1>3
<1>5. ASSUME NEW k \in 1..n, k - 1 \in U
      PROVE  k \in U
  <2>1. k \in 0..n /\ k - 1 \in 0..n
    BY <1>1
  <2>2. Starts(k) \in Nat /\ Starts(k - 1) \in Nat /\ Starts(i) \in Nat
    BY <1>2, <1>3, <2>1
  <2>3. CASE k = i
    BY <2>1, <2>2, <2>3
  <2>4. CASE k # i
    <3>1. k >= i => k - 1 >= i
      BY <1>3, <2>4
    <3>2. k - 1 >= i => Starts(k - 1) >= Starts(i)
      BY <1>5
    <3>3. Starts(k) >= Starts(k - 1)
      BY <1>2, <2>2
    <3> QED
      BY <2>1, <2>2, <3>1, <3>2, <3>3
  <2> QED
    BY <2>3, <2>4
<1>6. \A k \in 0..n : k \in U
  <2> HIDE DEF U
  <2> QED
    BY <1>1, <1>4, <1>5, Climb
<1>7. j - 1 \in 0..n /\ j - 1 >= i
  BY <1>1, <1>3
<1>8. Starts(j - 1) >= Starts(i) /\ Starts(j - 1) \in Nat /\ Starts(i) \in Nat
  BY <1>2, <1>3, <1>6, <1>7
<1> QED
  BY <1>2, <1>8

\* LengthIsNumber: the length of a branch is a number.
LEMMA LengthIsNumber ==
    ASSUME NEW branch \in Seq(NumberedStep)
    PROVE  BranchLength(branch) \in Int
<1> DEFINE vague == {i \in 1..Len(branch) : branch[i].text = "vague"}
           exact == {i \in 1..Len(branch) : branch[i].text = "exact"}
<1>1. Len(branch) \in Nat
  OBVIOUS
<1>2. IsFiniteSet(1..Len(branch))
  BY <1>1, FS_Interval
<1>3. vague \subseteq 1..Len(branch) /\ exact \subseteq 1..Len(branch)
  OBVIOUS
<1>4. TotalLength(branch) = Cardinality(vague) + 2 * Cardinality(exact)
  BY DEF TotalLength
<1> HIDE DEF vague, exact
<1>5. Cardinality(vague) \in Nat /\ Cardinality(exact) \in Nat
  BY <1>2, <1>3, FS_Subset, FS_CardinalityType
<1>6. TotalLength(branch) \in Nat
  BY <1>4, <1>5
<1> QED
  BY <1>1, <1>6 DEF BranchLength

\* The branch from i to j has been placed: as a batch, or split in batches of which one
\* starts like the branch and ends with a note.
Placed(batches, s, i, j) ==
    IF BranchLength(SubSeq(s, i, j)) <= BranchLimit
    THEN \E b \in 1..Len(batches) : batches[b] = SubSeq(s, i, j)
    ELSE \E b \in 1..Len(batches) : /\ Len(batches[b]) >= 1
                                    /\ batches[b][1] = s[i]
                                    /\ batches[b][Len(batches[b])] = Note

\* i starts a branch and j ends it.
Matched(i, j) ==
    /\ i < j
    /\ form.steps[i].type = "branch_start" /\ form.steps[j].type = "branch_end"
    /\ Starts(j) = Starts(i)

\* StaysPlaced: another batch does not displace a branch.
LEMMA StaysPlaced ==
    ASSUME NEW batches \in Seq(Seq(NumberedStep)), NEW g \in Seq(NumberedStep),
           NEW s, NEW i, NEW j, Placed(batches, s, i, j)
    PROVE  Placed(Append(batches, g), s, i, j)
<1> DEFINE S == Seq(NumberedStep)
           all == Append(batches, g)
           n == Len(batches)
<1>1. batches \in Seq(S) /\ g \in S
  OBVIOUS
<1> HIDE DEF S
<1>2. Len(all) = n + 1 /\ n \in Nat /\ \A b \in 1..n : all[b] = batches[b]
  BY <1>1
<1>3. \A b \in 1..n : b \in 1..Len(all)
  BY <1>2
<1> HIDE DEF all
<1>4. Placed(all, s, i, j)
  BY <1>2, <1>3 DEF Placed
<1> QED
  BY <1>4 DEF all

\* WholePlaced: a branch that is short enough is added as it is.
LEMMA WholePlaced ==
    ASSUME NEW batches \in Seq(Seq(NumberedStep)), NEW s \in Seq(NumberedStep),
           NEW lo \in Nat, NEW hi \in Nat, lo + 1 < hi, hi <= Len(s),
           NEW g, Slice(g, s, lo, hi), ~ (BranchLength(g) > BranchLimit)
    PROVE  Placed(Append(batches, g), s, lo + 1, hi)
<1> DEFINE S == Seq(NumberedStep)
           all == Append(batches, g)
           n == Len(batches)
           branch == SubSeq(s, lo + 1, hi)
<1>1. g \in S /\ Len(g) = hi - lo /\ \A i \in 1..(hi - lo) : g[i] = s[lo + i]
  BY DEF Slice
<1>2. branch \in S /\ Len(branch) = hi - lo /\ \A i \in 1..(hi - lo) : branch[i] = s[lo + i]
  OBVIOUS
<1>3. g = branch
  <2> HIDE DEF branch
  <2>1. \A i \in 1..Len(g) : g[i] = branch[i]
    BY <1>1, <1>2
  <2> QED
    BY <1>1, <1>2, <2>1, SeqEqual
<1>4. BranchLength(g) \in Int
  BY <1>1, LengthIsNumber
<1>5. BranchLength(branch) <= BranchLimit
  BY <1>3, <1>4, ContentAssumption
<1>6. batches \in Seq(S)
  OBVIOUS
<1> HIDE DEF S, branch
<1>7. n + 1 \in 1..Len(all) /\ all[n + 1] = g
  BY <1>1, <1>6
<1> HIDE DEF all, n
<1>8. \E b \in 1..Len(all) : all[b] = branch
  BY <1>3, <1>7
<1> QED
  BY <1>5, <1>8 DEF Placed, branch, all

\* SplitPlaced: a branch that is too long is split, and the first half ends with a note.
LEMMA SplitPlaced ==
    ASSUME NEW batches \in Seq(Seq(NumberedStep)), NEW s \in Seq(NumberedStep),
           NEW lo \in Nat, NEW hi \in Nat, lo + 1 < hi, hi <= Len(s),
           NEW g, Slice(g, s, lo, hi), BranchLength(g) > BranchLimit,
           NEW first \in Seq(NumberedStep), NEW second \in Seq(NumberedStep),
           Len(first) >= 1, first[1] = s[lo + 1], first[Len(first)] = Note
    PROVE  Placed(Append(Append(batches, first), second), s, lo + 1, hi)
<1> DEFINE S == Seq(NumberedStep)
           all == Append(batches, first)
           n == Len(batches)
           branch == SubSeq(s, lo + 1, hi)
<1>1. g \in S /\ Len(g) = hi - lo /\ \A i \in 1..(hi - lo) : g[i] = s[lo + i]
  BY DEF Slice
<1>2. branch \in S /\ Len(branch) = hi - lo /\ \A i \in 1..(hi - lo) : branch[i] = s[lo + i]
  OBVIOUS
<1>3. g = branch
  <2> HIDE DEF branch
  <2>1. \A i \in 1..Len(g) : g[i] = branch[i]
    BY <1>1, <1>2
  <2> QED
    BY <1>1, <1>2, <2>1, SeqEqual
<1>4. BranchLength(g) \in Int
  BY <1>1, LengthIsNumber
<1>5. ~ (BranchLength(branch) <= BranchLimit)
  BY <1>3, <1>4, ContentAssumption
<1>6. batches \in Seq(S) /\ first \in S
  OBVIOUS
<1> HIDE DEF S, branch
<1>7. all \in Seq(S) /\ n + 1 \in 1..Len(all) /\ all[n + 1] = first
  BY <1>6
<1> HIDE DEF all, n
<1>8. \E b \in 1..Len(all) : /\ Len(all[b]) >= 1 /\ all[b][1] = s[lo + 1]
                             /\ all[b][Len(all[b])] = Note
  BY <1>7
<1>9. Placed(all, s, lo + 1, hi)
  BY <1>5, <1>8 DEF Placed, branch
<1> QED
  BY <1>7, <1>9, StaysPlaced DEF all, S

\* SliceGrows: a slice and the step after it are a slice.
LEMMA SliceGrows ==
    ASSUME NEW s \in Seq(NumberedStep), NEW lo \in Nat, NEW k \in 1..Len(s), lo <= k - 1,
           NEW g, Slice(g, s, lo, k - 1)
    PROVE  Slice(Append(g, s[k]), s, lo, k)
<1> DEFINE new == Append(g, s[k])
           d == (k - 1) - lo
<1>1. /\ g \in Seq(NumberedStep) /\ Len(g) = d /\ \A i \in 1..d : g[i] = s[lo + i]
      /\ d \in Nat /\ s[k] \in NumberedStep
  BY DEF Slice
<1>2. d + 1 = k - lo /\ lo + (d + 1) = k
  OBVIOUS
<1> HIDE DEF d
<1>3. /\ new \in Seq(NumberedStep) /\ Len(new) = d + 1 /\ new[d + 1] = s[k]
      /\ \A i \in 1..d : new[i] = g[i]
  BY <1>1
<1> HIDE DEF new
<1>4. \A i \in 1..(d + 1) : i \in 1..d \/ i = d + 1
  BY <1>1
<1>5. \A i \in 1..(d + 1) : new[i] = s[lo + i]
  BY <1>1, <1>2, <1>3, <1>4
<1>6. Slice(new, s, lo, k)
  BY <1>2, <1>3, <1>5 DEF Slice
<1> QED
  BY <1>6 DEF new

\* EmptySlice: no steps are a slice.
LEMMA EmptySlice ==
    ASSUME NEW s, NEW k \in Nat
    PROVE  Slice(<<>>, s, k, k)
<1>1. k - k = 0 /\ 1..0 = {}
  OBVIOUS
<1>2. <<>> \in Seq(NumberedStep) /\ Len(<<>>) = 0
  OBVIOUS
<1> QED
  BY <1>1, <1>2 DEF Slice

\* OneStepSlice: one step is a slice.
LEMMA OneStepSlice ==
    ASSUME NEW s \in Seq(NumberedStep), NEW k \in 1..Len(s)
    PROVE  Slice(<<s[k]>>, s, k - 1, k)
<1>1. s[k] \in NumberedStep /\ k - (k - 1) = 1 /\ (k - 1) + 1 = k
  OBVIOUS
<1> DEFINE g == <<s[k]>>
<1>2. g \in Seq(NumberedStep) /\ Len(g) = 1 /\ g[1] = s[k]
  BY <1>1
<1> HIDE DEF g
<1>3. \A i \in 1..1 : i = 1
  OBVIOUS
<1>4. Slice(g, s, k - 1, k)
  BY <1>1, <1>2, <1>3 DEF Slice
<1> QED
  BY <1>4 DEF g

\* SliceFlushed: a slice that is flushed extends what the batches hold.
LEMMA SliceFlushed ==
    ASSUME NEW s \in Seq(NumberedStep), \A i \in 1..Len(s) : s[i].number = i,
           NEW lo \in Nat, NEW hi \in Nat, lo <= hi, hi <= Len(s),
           NEW batches, Covers(batches, s, lo), NEW g, Slice(g, s, lo, hi)
    PROVE  Covers(batches \o NonEmpty(g), s, hi)
<1>1. batches \in Seq(Seq(NumberedStep)) /\ g \in Seq(NumberedStep) /\ Len(g) = hi - lo
  BY DEF Covers, Slice
<1>2. CASE g = <<>>
  <2>1. hi = lo
    <3>1. Len(g) = 0
      BY <1>2
    <3> QED
      BY <1>1, <3>1
  <2> QED
    BY <1>1, <1>2, <2>1, NonEmptyBatch
<1>3. CASE g # <<>>
  <2>1. Covers(Append(batches, g), s, hi)
    BY SliceIsSegment, SegmentExtends
  <2> QED
    BY <1>1, <1>3, <2>1, NonEmptyBatch
<1> QED
  BY <1>2, <1>3

\* FlushKeepsPlaced: a flush does not displace a branch.
LEMMA FlushKeepsPlaced ==
    ASSUME NEW batches \in Seq(Seq(NumberedStep)), NEW g \in Seq(NumberedStep),
           NEW s, NEW i, NEW j, Placed(batches, s, i, j)
    PROVE  Placed(batches \o NonEmpty(g), s, i, j)
<1>1. CASE g = <<>>
  BY <1>1, NonEmptyBatch
<1>2. CASE g # <<>>
  BY <1>2, NonEmptyBatch, StaysPlaced
<1> QED
  BY <1>1, <1>2

\* SplitExtends: the two halves of a branch extend what the batches hold, and place it.
LEMMA SplitExtends ==
    ASSUME NEW s \in Seq(NumberedStep), \A i \in 1..Len(s) : s[i].number = i,
           NEW lo \in Nat, NEW hi \in Nat, lo + 1 < hi, hi <= Len(s),
           NEW batches, Covers(batches, s, lo), NEW g, Slice(g, s, lo, hi),
           BranchLength(g) > BranchLimit
    PROVE  LET first  == Append(SubSeq(g, 1, SplitAt(g)), Note)
               second == <<Note>> \o SubSeq(g, SplitAt(g) + 1, Len(g))
           IN  /\ Covers(Append(Append(batches, first), second), s, hi)
               /\ Placed(Append(Append(batches, first), second), s, lo + 1, hi)
<1> DEFINE h == SplitAt(g)
           head == SubSeq(g, 1, h)
           tail == SubSeq(g, h + 1, Len(g))
           first == Append(head, Note)
           second == <<Note>> \o tail
<1>1. g \in Seq(NumberedStep) /\ Len(g) = hi - lo /\ \A i \in 1..(hi - lo) : g[i] = s[lo + i]
  BY DEF Slice
<1>2. Len(g) >= 2
  BY <1>1
<1>3. h \in 1..(Len(g) - 1)
  BY <1>1, <1>2, SplitInside
<1> HIDE DEF h
<1>4. lo + h \in Nat /\ lo <= lo + h /\ lo + h <= hi /\ lo + h <= Len(s) /\ (lo + h) - lo = h
      /\ h \in Nat /\ hi - (lo + h) = Len(g) - h /\ h >= 1
  BY <1>1, <1>3
<1>5. head \in Seq(NumberedStep) /\ Len(head) = h /\ \A i \in 1..h : head[i] = g[i]
  BY <1>1, <1>3
<1>6. tail \in Seq(NumberedStep) /\ Len(tail) = Len(g) - h
      /\ \A i \in 1..(Len(g) - h) : tail[i] = g[h + i]
  BY <1>1, <1>3
<1> HIDE DEF head, tail
<1>7. Slice(head, s, lo, lo + h)
  <2>1. \A i \in 1..h : i \in 1..(hi - lo)
    BY <1>1, <1>3
  <2>2. \A i \in 1..h : head[i] = s[lo + i]
    BY <1>1, <1>5, <2>1
  <2> QED
    BY <1>4, <1>5, <2>2 DEF Slice
<1>8. Slice(tail, s, lo + h, hi)
  <2>1. \A i \in 1..(Len(g) - h) : h + i \in 1..(hi - lo) /\ lo + (h + i) = (lo + h) + i
    BY <1>1, <1>3
  <2>2. \A i \in 1..(Len(g) - h) : tail[i] = s[(lo + h) + i]
    BY <1>1, <1>6, <2>1
  <2> QED
    BY <1>4, <1>6, <2>2 DEF Slice
<1>9. Segment(first, s, lo, lo + h)
  BY <1>4, <1>7, SliceIsSegment
<1>10. Segment(second, s, lo + h, hi)
  BY <1>4, <1>8, SliceIsSegment
<1>11. /\ first \in Seq(NumberedStep) /\ Len(first) = h + 1
       /\ first[1] = head[1] /\ first[Len(first)] = Note
  BY <1>4, <1>5, NoteIsAStep
<1>12. head[1] = s[lo + 1]
  <2>1. 1 \in 1..h /\ 1 \in 1..(hi - lo)
    BY <1>4
  <2> QED
    BY <1>1, <1>5, <2>1
<1>13. second \in Seq(NumberedStep)
  BY <1>10 DEF Segment
<1> HIDE DEF first, second
<1>14. Covers(Append(batches, first), s, lo + h)
  BY <1>4, <1>9, SegmentExtends
<1>15. Covers(Append(Append(batches, first), second), s, hi)
  BY <1>4, <1>10, <1>14, SegmentExtends
<1>16. Placed(Append(Append(batches, first), second), s, lo + 1, hi)
  <2>1. batches \in Seq(Seq(NumberedStep)) /\ Len(first) >= 1
    BY <1>4, <1>11 DEF Covers
  <2> QED
    BY <1>11, <1>12, <1>13, <2>1, SplitPlaced
<1> QED
  BY <1>15, <1>16 DEF first, second, head, tail, h

\* s is the form's steps with their numbers.
FormSteps(s) ==
    /\ form.steps \in Seq(Step)
    /\ s \in Seq(NumberedStep) /\ Len(s) = Len(form.steps)
    /\ \A i \in 1..Len(s) : s[i].number = i /\ s[i].type = form.steps[i].type

\* After k steps, outside a branch: what is not in the batches is being collected.
Shut(a, s, k) ==
    /\ a.inBranch = FALSE /\ a.branch = <<>> /\ Starts(k) = Ends(k)
    /\ \E m \in 0..k : Covers(a.batches, s, m) /\ Slice(a.current, s, m, k)

\* After k steps, inside a branch: what is not in the batches is in the buffer.
Open(a, s, k) ==
    /\ a.inBranch = TRUE /\ a.current = <<>> /\ Starts(k) = Ends(k) + 1
    /\ \E m \in 0..(k - 1) : /\ Covers(a.batches, s, m) /\ Slice(a.branch, s, m, k)
                             /\ s[m + 1].type = "branch_start" /\ Starts(m + 1) = Starts(k)

\* The branches that ended among the first k steps have been placed.
AllPlaced(a, s, k) ==
    \A i, j \in 1..k : Matched(i, j) => Placed(a.batches, s, i, j)

\* The walk after k steps.
Walked(a, s, k) ==
    a \in Accumulators /\ (Shut(a, s, k) \/ Open(a, s, k)) /\ AllPlaced(a, s, k)

\* CountsAt: the counts before and after step k.
LEMMA CountsAt ==
    ASSUME NEW s, FormSteps(s), NEW k \in 1..Len(s)
    PROVE  /\ k \in Nat /\ k - 1 \in Nat /\ s[k] \in NumberedStep
           /\ Starts(k) \in Nat /\ Ends(k) \in Nat
           /\ Starts(k - 1) \in Nat /\ Ends(k - 1) \in Nat
           /\ Starts(k) = Starts(k - 1) + (IF s[k].type = "branch_start" THEN 1 ELSE 0)
           /\ Ends(k) = Ends(k - 1) + (IF s[k].type = "branch_end" THEN 1 ELSE 0)
<1> DEFINE n == Len(form.steps)
<1>1. form.steps \in Seq(Step) /\ Len(s) = n /\ s[k].type = form.steps[k].type
      /\ s \in Seq(NumberedStep)
  BY DEF FormSteps
<1>2. n \in Nat /\ s[k] \in NumberedStep
  BY <1>1
<1>3. k \in 1..n
  BY <1>1
<1>4. /\ \A x \in 0..n : Starts(x) \in Nat /\ Ends(x) \in Nat
      /\ \A x \in 1..n : /\ Starts(x) = Starts(x - 1)
                               + (IF form.steps[x].type = "branch_start" THEN 1 ELSE 0)
                         /\ Ends(x) = Ends(x - 1)
                               + (IF form.steps[x].type = "branch_end" THEN 1 ELSE 0)
  BY <1>1, Counts
<1> HIDE DEF n
<1>5. k \in 0..n /\ k - 1 \in 0..n /\ k \in Nat /\ k - 1 \in Nat
  BY <1>2, <1>3
<1> QED
  BY <1>1, <1>2, <1>3, <1>4, <1>5

\* NoBranchEnds: a step that ends no branch leaves the matched ones as they were.
LEMMA NoBranchEnds ==
    ASSUME NEW s, FormSteps(s), NEW k \in 1..Len(s), s[k].type # "branch_end"
    PROVE  \A i, j \in 1..k : Matched(i, j) => i \in 1..(k - 1) /\ j \in 1..(k - 1)
<1> SUFFICES ASSUME NEW i \in 1..k, NEW j \in 1..k, Matched(i, j)
             PROVE  i \in 1..(k - 1) /\ j \in 1..(k - 1)
  OBVIOUS
<1>1. j # k
  BY DEF FormSteps, Matched
<1>2. k \in Nat /\ i < j
  BY CountsAt DEF Matched
<1> QED
  BY <1>1, <1>2

\* WalkOpens: the start of a branch, which is in none.
LEMMA WalkOpens ==
    ASSUME Unnested, NEW s, FormSteps(s), NEW k \in 1..Len(s), NEW a, Walked(a, s, k - 1),
           s[k].type = "branch_start"
    PROVE  Walked(NextStep(a, s[k]), s, k)
<1> DEFINE b == NextStep(a, s[k])
<1>1. /\ k \in Nat /\ k - 1 \in Nat /\ s[k] \in NumberedStep
      /\ Starts(k) \in Nat /\ Ends(k) \in Nat /\ Starts(k - 1) \in Nat /\ Ends(k - 1) \in Nat
      /\ Starts(k) = Starts(k - 1) + 1 /\ Ends(k) = Ends(k - 1)
  BY CountsAt
<1>2. Starts(k) <= Ends(k) + 1
  BY DEF Unnested, FormSteps
<1>3. Shut(a, s, k - 1) /\ a \in Accumulators
  <2>1. Starts(k - 1) # Ends(k - 1) + 1
    BY <1>1, <1>2
  <2> QED
    BY <2>1 DEF Walked, Open
<1>4. Becomes(b, a.batches \o NonEmpty(a.current), <<>>, TRUE, <<s[k]>>)
  BY <1>1, <1>3, Opens
<1>5. PICK m \in 0..(k - 1) : Covers(a.batches, s, m) /\ Slice(a.current, s, m, k - 1)
  BY <1>3 DEF Shut
<1>6. s \in Seq(NumberedStep) /\ (\A i \in 1..Len(s) : s[i].number = i) /\ k - 1 <= Len(s)
  BY DEF FormSteps
<1>7. Covers(a.batches \o NonEmpty(a.current), s, k - 1)
  BY <1>1, <1>5, <1>6, SliceFlushed
<1>8. Slice(<<s[k]>>, s, k - 1, k)
  BY <1>6, OneStepSlice
<1>9. Open(b, s, k)
  <2>1. Starts(k) = Ends(k) + 1
    BY <1>1, <1>3 DEF Shut
  <2>2. k - 1 \in 0..(k - 1) /\ (k - 1) + 1 = k
    BY <1>1
  <2>3. /\ b.batches = a.batches \o NonEmpty(a.current) /\ b.current = <<>>
        /\ b.inBranch = TRUE /\ b.branch = <<s[k]>>
    BY <1>4 DEF Becomes
  <2> HIDE DEF b
  <2> QED
    BY <1>7, <1>8, <2>1, <2>2, <2>3 DEF Open
<1>10. AllPlaced(b, s, k)
  <2> SUFFICES ASSUME NEW i \in 1..k, NEW j \in 1..k, Matched(i, j)
               PROVE  Placed(b.batches, s, i, j)
    BY DEF AllPlaced
  <2>1. Placed(a.batches, s, i, j)
    BY NoBranchEnds DEF Walked, AllPlaced
  <2>2. a.batches \in Seq(Seq(NumberedStep)) /\ a.current \in Seq(NumberedStep)
    BY <1>3 DEF Accumulators
  <2> QED
    BY <1>4, <2>1, <2>2, FlushKeepsPlaced DEF Becomes
<1> QED
  BY <1>4, <1>9, <1>10 DEF Walked, Becomes

\* WalkBuffers: a step inside a branch.
LEMMA WalkBuffers ==
    ASSUME NEW s, FormSteps(s), NEW k \in 1..Len(s), NEW a, Walked(a, s, k - 1),
           Open(a, s, k - 1), s[k].type \notin {"branch_start", "branch_end"}
    PROVE  Walked(NextStep(a, s[k]), s, k)
<1> DEFINE b == NextStep(a, s[k])
           branch == Append(a.branch, s[k])
<1>1. /\ k \in Nat /\ k - 1 \in Nat /\ s[k] \in NumberedStep
      /\ Starts(k) \in Nat /\ Ends(k) \in Nat /\ Starts(k - 1) \in Nat /\ Ends(k - 1) \in Nat
      /\ Starts(k) = Starts(k - 1) /\ Ends(k) = Ends(k - 1)
  BY CountsAt
<1>2. a \in Accumulators /\ a.inBranch = TRUE /\ a.current = <<>>
  BY DEF Walked, Open
<1>3. Becomes(b, a.batches, a.current, TRUE, branch)
  BY <1>1, <1>2, Buffers
<1>4. PICK m \in 0..((k - 1) - 1) :
          /\ Covers(a.batches, s, m) /\ Slice(a.branch, s, m, k - 1)
          /\ s[m + 1].type = "branch_start" /\ Starts(m + 1) = Starts(k - 1)
  BY DEF Open
<1>5. m \in Nat /\ m <= k - 1 /\ m \in 0..(k - 1)
  BY <1>1
<1>6. s \in Seq(NumberedStep)
  BY DEF FormSteps
<1>7. Slice(branch, s, m, k)
  BY <1>4, <1>5, <1>6, SliceGrows
<1> HIDE DEF b, branch
<1>8. Open(b, s, k)
  <2>1. Starts(k) = Ends(k) + 1
    BY <1>1 DEF Open
  <2>2. Starts(m + 1) = Starts(k)
    BY <1>1, <1>4
  <2> QED
    BY <1>2, <1>3, <1>4, <1>5, <1>7, <2>1, <2>2 DEF Open, Becomes
<1>9. AllPlaced(b, s, k)
  <2> SUFFICES ASSUME NEW i \in 1..k, NEW j \in 1..k, Matched(i, j)
               PROVE  Placed(b.batches, s, i, j)
    BY DEF AllPlaced
  <2> QED
    BY <1>3, NoBranchEnds DEF Walked, AllPlaced, Becomes
<1>10. Walked(b, s, k)
  BY <1>3, <1>8, <1>9 DEF Walked, Becomes
<1> QED
  BY <1>10 DEF b

\* OneStart: the branch that ends at k started at the only start still open.
LEMMA OneStart ==
    ASSUME NEW s, FormSteps(s), NEW k \in 1..Len(s), NEW x \in 1..Len(s),
           s[x].type = "branch_start", Starts(x) = Starts(k),
           NEW i \in 1..Len(s), Matched(i, k)
    PROVE  i = x
<1>1. form.steps \in Seq(Step) /\ Len(s) = Len(form.steps)
      /\ form.steps[x].type = "branch_start" /\ form.steps[i].type = "branch_start"
      /\ Starts(i) = Starts(x)
  BY DEF FormSteps, Matched
<1>2. Starts(x) \in Nat /\ Starts(i) \in Nat
  BY CountsAt
<1>3. ~ (i < x)
  <2>1. i < x => Starts(i) < Starts(x)
    BY <1>1, StartsGrow
  <2> QED
    BY <1>1, <1>2, <2>1
<1>4. ~ (x < i)
  <2>1. x < i => Starts(x) < Starts(i)
    BY <1>1, StartsGrow
  <2> QED
    BY <1>1, <1>2, <2>1
<1>5. x \in Nat /\ i \in Nat
  BY CountsAt
<1> QED
  BY <1>3, <1>4, <1>5

\* WalkCloses: the end of a branch.
LEMMA WalkCloses ==
    ASSUME NEW s, FormSteps(s), NEW k \in 1..Len(s), NEW a, Walked(a, s, k - 1),
           Open(a, s, k - 1), s[k].type = "branch_end"
    PROVE  Walked(NextStep(a, s[k]), s, k)
<1> DEFINE b == NextStep(a, s[k])
           branch == Append(a.branch, s[k])
           first  == Append(SubSeq(branch, 1, SplitAt(branch)), Note)
           second == <<Note>> \o SubSeq(branch, SplitAt(branch) + 1, Len(branch))
           S == Seq(NumberedStep)
<1> SUFFICES Walked(b, s, k)
  OBVIOUS
<1>1. /\ k \in Nat /\ k - 1 \in Nat /\ s[k] \in NumberedStep
      /\ Starts(k) \in Nat /\ Ends(k) \in Nat /\ Starts(k - 1) \in Nat /\ Ends(k - 1) \in Nat
      /\ Starts(k) = Starts(k - 1) /\ Ends(k) = Ends(k - 1) + 1
  BY CountsAt
<1>2. /\ a \in Accumulators /\ a.inBranch = TRUE /\ a.current = <<>>
      /\ a.batches \in Seq(S) /\ a.branch \in S
  BY DEF Walked, Open, Accumulators
<1>3. PICK m \in 0..((k - 1) - 1) :
          /\ Covers(a.batches, s, m) /\ Slice(a.branch, s, m, k - 1)
          /\ s[m + 1].type = "branch_start" /\ Starts(m + 1) = Starts(k - 1)
  BY DEF Open
<1>4. s \in S /\ Len(s) \in Nat /\ \A i \in 1..Len(s) : s[i].number = i
  BY DEF FormSteps
<1>5. /\ m \in Nat /\ m <= k - 1 /\ m <= k /\ m + 1 < k /\ k <= Len(s)
      /\ m + 1 \in 1..Len(s) /\ k - m >= 2
  BY <1>1, <1>4
<1>6. Slice(branch, s, m, k)
  BY <1>3, <1>4, <1>5, SliceGrows
<1>7. branch \in S /\ Len(branch) >= 1
  BY <1>5, <1>6 DEF Slice
<1>8. \A i \in 1..k : Matched(i, k) => i = m + 1
  <2>1. \A i \in 1..k : i \in 1..Len(s)
    BY <1>5
  <2>2. Starts(m + 1) = Starts(k)
    BY <1>1, <1>3
  <2> QED
    BY <1>3, <1>5, <2>1, <2>2, OneStart
<1>9. ASSUME NEW i \in 1..k, NEW j \in 1..k, Matched(i, j)
      PROVE  (j = k /\ i = m + 1) \/ Placed(a.batches, s, i, j)
  <2>1. CASE j = k
    BY <1>8, <1>9, <2>1
  <2>2. CASE j # k
    <3>1. i \in 1..(k - 1) /\ j \in 1..(k - 1)
      BY <1>1, <1>9, <2>2 DEF Matched
    <3> QED
      BY <1>9, <3>1 DEF Walked, AllPlaced
  <2> QED
    BY <2>1, <2>2
<1> HIDE DEF branch, S
<1>10. BranchLength(branch) > BranchLimit =>
          Becomes(b, a.batches \o SplitBranchGroup(branch), <<>>, FALSE, <<>>)
  BY <1>1, <1>2, Closes DEF branch
<1>11. ~ (BranchLength(branch) > BranchLimit) =>
          Becomes(b, Append(a.batches, branch), <<>>, FALSE, <<>>)
  BY <1>1, <1>2, Closes DEF branch
<1> HIDE DEF b
<1>12. Starts(k) = Ends(k)
  BY <1>1 DEF Open
<1>13. \A batches : Becomes(b, batches, <<>>, FALSE, <<>>) /\ Covers(batches, s, k) => Shut(b, s, k)
  <2>1. k \in 0..k /\ Slice(<<>>, s, k, k)
    BY <1>1, EmptySlice
  <2> QED
    BY <1>12, <2>1 DEF Shut, Becomes
<1>14. CASE BranchLength(branch) > BranchLimit
  <2>1. a.batches \o SplitBranchGroup(branch) = Append(Append(a.batches, first), second)
    BY <1>2, <1>7, SplitBatches DEF S
  <2>2. first \in S /\ second \in S
    BY <1>7, SplitGroups DEF S
  <2>3. /\ Covers(Append(Append(a.batches, first), second), s, k)
        /\ Placed(Append(Append(a.batches, first), second), s, m + 1, k)
    BY <1>1, <1>3, <1>4, <1>5, <1>6, <1>14, SplitExtends DEF S
  <2> HIDE DEF first, second
  <2>4. Becomes(b, Append(Append(a.batches, first), second), <<>>, FALSE, <<>>)
    BY <1>10, <1>14, <2>1
  <2>5. Append(a.batches, first) \in Seq(S)
    BY <1>2, <2>2
  <2>6. AllPlaced(b, s, k)
    <3> SUFFICES ASSUME NEW i \in 1..k, NEW j \in 1..k, Matched(i, j)
                 PROVE  Placed(Append(Append(a.batches, first), second), s, i, j)
      BY <2>4 DEF AllPlaced, Becomes
    <3>1. CASE j = k /\ i = m + 1
      BY <2>3, <3>1
    <3>2. CASE Placed(a.batches, s, i, j)
      <4>1. Placed(Append(a.batches, first), s, i, j)
        BY <1>2, <2>2, <3>2, StaysPlaced DEF S
      <4> QED
        BY <2>2, <2>5, <4>1, StaysPlaced DEF S
    <3> QED
      BY <1>9, <3>1, <3>2
  <2> QED
    BY <1>13, <2>3, <2>4, <2>6 DEF Walked, Becomes
<1>15. CASE ~ (BranchLength(branch) > BranchLimit)
  <2>1. Becomes(b, Append(a.batches, branch), <<>>, FALSE, <<>>)
    BY <1>11, <1>15
  <2>2. Segment(branch, s, m, k)
    BY <1>1, <1>4, <1>5, <1>6, SliceIsSegment DEF S
  <2>3. Covers(Append(a.batches, branch), s, k)
    BY <1>1, <1>3, <1>5, <2>2, SegmentExtends
  <2>4. Placed(Append(a.batches, branch), s, m + 1, k)
    BY <1>1, <1>2, <1>4, <1>5, <1>6, <1>15, WholePlaced DEF S
  <2>5. AllPlaced(b, s, k)
    <3> SUFFICES ASSUME NEW i \in 1..k, NEW j \in 1..k, Matched(i, j)
                 PROVE  Placed(Append(a.batches, branch), s, i, j)
      BY <2>1 DEF AllPlaced, Becomes
    <3>1. CASE j = k /\ i = m + 1
      BY <2>4, <3>1
    <3>2. CASE Placed(a.batches, s, i, j)
      BY <1>2, <1>7, <3>2, StaysPlaced DEF S
    <3> QED
      BY <1>9, <3>1, <3>2
  <2> QED
    BY <1>13, <2>1, <2>3, <2>5 DEF Walked, Becomes
<1> QED
  BY <1>14, <1>15

\* WalkCollects: a step outside any branch, which ends none.
LEMMA WalkCollects ==
    ASSUME Balanced, NEW s, FormSteps(s), NEW k \in 1..Len(s), NEW a, Walked(a, s, k - 1),
           Shut(a, s, k - 1), s[k].type # "branch_start"
    PROVE  Walked(NextStep(a, s[k]), s, k)
<1> DEFINE b == NextStep(a, s[k])
           batch == Append(a.current, s[k])
           S == Seq(NumberedStep)
<1> SUFFICES Walked(b, s, k)
  OBVIOUS
<1>1. /\ k \in Nat /\ k - 1 \in Nat /\ s[k] \in NumberedStep
      /\ Starts(k) \in Nat /\ Ends(k) \in Nat /\ Starts(k - 1) \in Nat /\ Ends(k - 1) \in Nat
      /\ Starts(k) = Starts(k - 1)
      /\ Ends(k) = Ends(k - 1) + (IF s[k].type = "branch_end" THEN 1 ELSE 0)
  BY CountsAt
<1>2. /\ a \in Accumulators /\ a.inBranch = FALSE /\ a.branch = <<>>
      /\ a.batches \in Seq(S) /\ Starts(k - 1) = Ends(k - 1)
  BY DEF Walked, Shut, Accumulators
<1>3. s[k].type # "branch_end"
  <2>1. Starts(k) >= Ends(k)
    BY DEF Balanced, FormSteps
  <2> QED
    BY <1>1, <1>2, <2>1
<1>4. PICK m \in 0..(k - 1) : Covers(a.batches, s, m) /\ Slice(a.current, s, m, k - 1)
  BY DEF Shut
<1>5. s \in S /\ Len(s) \in Nat /\ \A i \in 1..Len(s) : s[i].number = i
  BY DEF FormSteps
<1>6. m \in Nat /\ m <= k - 1 /\ m <= k /\ m \in 0..k /\ k <= Len(s) /\ k \in 0..k
  BY <1>1, <1>5
<1>7. Slice(batch, s, m, k)
  BY <1>4, <1>5, <1>6, SliceGrows
<1>8. batch \in S
  BY <1>7 DEF Slice
<1>9. \A i, j \in 1..k : Matched(i, j) => Placed(a.batches, s, i, j)
  BY <1>3, NoBranchEnds DEF Walked, AllPlaced
<1> HIDE DEF batch, S
<1>10. IF Len(batch) >= StepsPerBatch
       THEN Becomes(b, Append(a.batches, batch), <<>>, FALSE, <<>>)
       ELSE Becomes(b, a.batches, batch, FALSE, <<>>)
  BY <1>1, <1>2, Collects DEF batch
<1> HIDE DEF b
<1>11. Starts(k) = Ends(k)
  BY <1>1, <1>2, <1>3
<1>12. CASE Len(batch) >= StepsPerBatch
  <2>1. Becomes(b, Append(a.batches, batch), <<>>, FALSE, <<>>)
    BY <1>10, <1>12
  <2>2. Segment(batch, s, m, k)
    BY <1>1, <1>5, <1>6, <1>7, SliceIsSegment DEF S
  <2>3. Covers(Append(a.batches, batch), s, k)
    BY <1>1, <1>4, <1>6, <2>2, SegmentExtends
  <2>4. Shut(b, s, k)
    BY <1>1, <1>6, <1>11, <2>1, <2>3, EmptySlice DEF Shut, Becomes
  <2>5. \A i, j \in 1..k : Matched(i, j) => Placed(Append(a.batches, batch), s, i, j)
    BY <1>2, <1>8, <1>9, StaysPlaced DEF S
  <2> QED
    BY <2>1, <2>4, <2>5 DEF Walked, AllPlaced, Becomes
<1>13. CASE ~ (Len(batch) >= StepsPerBatch)
  <2>1. Becomes(b, a.batches, batch, FALSE, <<>>)
    BY <1>10, <1>13
  <2>2. Shut(b, s, k)
    BY <1>4, <1>6, <1>7, <1>11, <2>1 DEF Shut, Becomes
  <2> QED
    BY <1>9, <2>1, <2>2 DEF Walked, AllPlaced, Becomes
<1> QED
  BY <1>12, <1>13

\* WalkStep: every step of the walk.
LEMMA WalkStep ==
    ASSUME Balanced, Unnested, NEW s, FormSteps(s), NEW k \in 1..Len(s),
           NEW a, Walked(a, s, k - 1)
    PROVE  Walked(NextStep(a, s[k]), s, k)
<1>1. CASE s[k].type = "branch_start"
  BY <1>1, WalkOpens
<1>2. CASE Shut(a, s, k - 1) /\ s[k].type # "branch_start"
  BY <1>2, WalkCollects
<1>3. CASE Open(a, s, k - 1) /\ s[k].type = "branch_end"
  BY <1>3, WalkCloses
<1>4. CASE Open(a, s, k - 1) /\ s[k].type \notin {"branch_start", "branch_end"}
  BY <1>4, WalkBuffers
<1> QED
  BY <1>1, <1>2, <1>3, <1>4 DEF Walked

\* All the steps are in the batches, and the branches have been placed.
AllBatched(batches, s) ==
    /\ Covers(batches, s, Len(s))
    /\ \A i, j \in 1..Len(s) : Matched(i, j) => Placed(batches, s, i, j)

\* WalkEnds: the walk ends outside a branch, and its last batch is flushed.
LEMMA WalkEnds ==
    ASSUME Balanced, Unnested, NEW s, FormSteps(s)
    PROVE  AllBatched(BatchSteps(s), s)
<1> DEFINE n == Len(s)
<1>1. s \in Seq(NumberedStep) /\ n \in Nat /\ \A i \in 1..n : s[i].number = i
  BY DEF FormSteps
<1>2. PICK acc : Batching(acc, s)
  BY <1>1, BatchingWalk
<1>3. /\ acc \in [0..n -> Accumulators] /\ acc[0] = NoBatches
      /\ \A i \in 1..n : acc[i] = NextStep(acc[i - 1], s[i])
      /\ BatchSteps(s) = acc[n].batches \o NonEmpty(acc[n].branch) \o NonEmpty(acc[n].current)
  BY <1>2 DEF Batching
<1> DEFINE U == {k \in 0..n : Walked(acc[k], s, k)}
<1>4. 0 \in U
  <2>1. acc[0] \in Accumulators /\ 0 \in 0..n /\ 0 \in 0..0 /\ 1..0 = {}
    BY <1>1, <1>3
  <2>2. /\ acc[0].batches = <<>> /\ acc[0].current = <<>> /\ acc[0].branch = <<>>
        /\ acc[0].inBranch = FALSE
    BY <1>3 DEF NoBatches
  <2>3. Covers(<<>>, s, 0)
    BY <2>1 DEF Covers
  <2>4. Slice(<<>>, s, 0, 0)
    BY EmptySlice
  <2>5. Starts(0) = Ends(0)
    BY Counts DEF FormSteps
  <2>6. Shut(acc[0], s, 0)
    BY <2>1, <2>2, <2>3, <2>4, <2>5 DEF Shut
  <2>7. AllPlaced(acc[0], s, 0)
    BY <2>1 DEF AllPlaced
  <2> QED
    BY <2>1, <2>6, <2>7 DEF Walked
<1>5. ASSUME NEW k \in 1..n, k - 1 \in U
      PROVE  k \in U
  <2>1. Walked(NextStep(acc[k - 1], s[k]), s, k)
    BY <1>5, WalkStep
  <2>2. k \in 0..n
    BY <1>1
  <2> QED
    BY <1>3, <2>1, <2>2
<1>6. n \in U
  <2>1. \A k \in 0..n : k \in U
    <3> HIDE DEF U
    <3> QED
      BY <1>1, <1>4, <1>5, Climb
  <2>2. n \in 0..n
    BY <1>1
  <2> QED
    BY <2>1, <2>2
<1> DEFINE a == acc[n]
<1>7. Walked(a, s, n)
  BY <1>6
<1>8. /\ BatchSteps(s) = a.batches \o NonEmpty(a.branch) \o NonEmpty(a.current)
  BY <1>3
<1> HIDE DEF a, U
<1>9. Shut(a, s, n)
  <2>1. Starts(n) = Ends(n)
    BY DEF Balanced, FormSteps
  <2>2. Starts(n) \in Nat /\ Ends(n) \in Nat
    <3>1. /\ \A k \in 0..Len(form.steps) : Starts(k) \in Nat /\ Ends(k) \in Nat
      BY Counts DEF FormSteps
    <3>2. n \in 0..Len(form.steps)
      BY <1>1 DEF FormSteps
    <3> QED
      BY <3>1, <3>2
  <2>3. ~ Open(a, s, n)
    BY <2>1, <2>2 DEF Open
  <2> QED
    BY <1>7, <2>3 DEF Walked
<1>10. PICK m \in 0..n : Covers(a.batches, s, m) /\ Slice(a.current, s, m, n)
  BY <1>9 DEF Shut
<1>11. a.batches \in Seq(Seq(NumberedStep)) /\ a.current \in Seq(NumberedStep)
  BY <1>7 DEF Walked, Accumulators
<1>12. BatchSteps(s) = a.batches \o NonEmpty(a.current)
  <2>1. a.batches \o NonEmpty(a.branch) = a.batches
    <3>1. <<>> \in Seq(NumberedStep)
      OBVIOUS
    <3> QED
      BY <1>9, <1>11, <3>1, NonEmptyBatch DEF Shut
  <2> QED
    BY <1>8, <2>1
<1>13. Covers(a.batches \o NonEmpty(a.current), s, n)
  BY <1>1, <1>10, SliceFlushed
<1>14. \A i, j \in 1..n : Matched(i, j) => Placed(a.batches \o NonEmpty(a.current), s, i, j)
  BY <1>7, <1>11, FlushKeepsPlaced DEF Walked, AllPlaced
<1> QED
  BY <1>12, <1>13, <1>14 DEF AllBatched

\* FormIsBatched: the batches of the form.
LEMMA FormIsBatched ==
    ASSUME form.steps \in Seq(Step), Balanced, Unnested
    PROVE  FormSteps(Numbered(form.steps)) /\ AllBatched(Batches, Numbered(form.steps))
<1>1. FormSteps(Numbered(form.steps))
  BY NumberedSteps DEF FormSteps
<1> QED
  BY <1>1, WalkEnds DEF Batches

\* StepsAreIndexed: every step is in a batch, and the order of the form is kept.
LEMMA StepsAreIndexed ==
    ASSUME form.steps \in Seq(Step), Balanced, Unnested
    PROVE  StepsIndexed
<1> DEFINE s == Numbered(form.steps)
           bs == Batches
           n == Len(s)
           S == Seq(NumberedStep)
<1>1. FormSteps(s) /\ AllBatched(bs, s)
  BY FormIsBatched
<1> HIDE DEF s, bs
<1>2. Covers(bs, s, n) /\ bs \in Seq(S)
  BY <1>1 DEF AllBatched, Covers
<1>3. DOMAIN form.steps = 1..n
  BY <1>1 DEF FormSteps
<1> HIDE DEF n
<1>4. DOMAIN bs = 1..Len(bs) /\ \A b \in 1..Len(bs) : bs[b] \in S
  <2> HIDE DEF S
  <2> QED
    BY <1>2
<1>5. \A b \in 1..Len(bs) : DOMAIN bs[b] = 1..Len(bs[b])
  BY <1>4
<1>6. ASSUME NEW k \in DOMAIN form.steps
      PROVE  \E b \in DOMAIN bs : s[k] \in ToSet(bs[b])
  <2>1. PICK b \in 1..Len(bs) : \E i \in 1..Len(bs[b]) : bs[b][i] = s[k]
    BY <1>2, <1>3 DEF Covers
  <2>2. s[k] \in ToSet(bs[b])
    BY <1>5, <2>1 DEF ToSet
  <2> QED
    BY <1>4, <2>1, <2>2
<1>7. ASSUME NEW b \in DOMAIN bs, NEW c \in DOMAIN bs,
             NEW i \in DOMAIN bs[b], NEW j \in DOMAIN bs[c],
             b < c \/ (b = c /\ i < j)
      PROVE  0 \in {bs[b][i].number, bs[c][j].number} \/ bs[b][i].number < bs[c][j].number
  <2>1. \/ bs[b][i].number = 0 \/ bs[c][j].number = 0
        \/ bs[b][i].number < bs[c][j].number
    BY <1>2, <1>4, <1>5, <1>7 DEF Covers
  <2> QED
    BY <2>1
<1> QED
  BY <1>6, <1>7 DEF StepsIndexed, s, bs

\* BranchesAreKept: a branch is one batch unless it is too long, and then is none.
LEMMA BranchesAreKept ==
    ASSUME form.steps \in Seq(Step)
    PROVE  BranchKeptWhole
<1> DEFINE s == Numbered(form.steps)
           bs == Batches
           n == Len(s)
           S == Seq(NumberedStep)
<1> SUFFICES ASSUME Balanced, Unnested, NEW i \in DOMAIN form.steps, NEW j \in DOMAIN form.steps,
                    Matched(i, j)
             PROVE  SubSeq(s, i, j) \in ToSet(bs) <=> BranchLength(SubSeq(s, i, j)) <= BranchLimit
  BY DEF BranchKeptWhole, Matched
<1>1. FormSteps(s) /\ AllBatched(bs, s)
  BY FormIsBatched
<1> HIDE DEF s, bs
<1>2. s \in S /\ n = Len(form.steps) /\ i \in 1..n /\ j \in 1..n /\ i < j /\ n \in Nat
      /\ s[i].number = i /\ s[j].number = j
  BY <1>1 DEF FormSteps, Matched
<1>3. Covers(bs, s, n) /\ bs \in Seq(S) /\ Placed(bs, s, i, j)
  BY <1>1, <1>2 DEF AllBatched, Covers
<1> DEFINE branch == SubSeq(s, i, j)
<1>4. /\ branch \in S /\ Len(branch) \in Nat /\ Len(branch) >= 1
      /\ branch[1] = s[i] /\ branch[Len(branch)] = s[j]
  <2> DEFINE d == j - i
  <2>1. branch \in S /\ Len(branch) = d + 1 /\ \A x \in 1..(d + 1) : branch[x] = s[(i + x) - 1]
    <3>1. i \in Int /\ j \in Int /\ i <= j /\ \A x \in i..j : s[x] \in NumberedStep
      BY <1>2
    <3>2. /\ branch \in S
          /\ Len(branch) = IF i <= j THEN (j - i) + 1 ELSE 0
          /\ \A x \in 1..((j - i) + 1) : branch[x] = s[(i + x) - 1]
      BY <3>1, SubSeqProperties, SMTT(30)
    <3> HIDE DEF branch
    <3> QED
      BY <1>2, <3>2
  <2>2. i \in Nat /\ d \in Nat /\ j = i + d
    BY <1>2
  <2> HIDE DEF branch, d
  <2>3. 1 \in 1..(d + 1) /\ d + 1 \in 1..(d + 1) /\ d + 1 \in Nat /\ d + 1 >= 1
    BY <2>2
  <2>4. (i + 1) - 1 = i /\ (i + (d + 1)) - 1 = i + d
    BY <2>2
  <2>5. branch[1] = s[i] /\ branch[d + 1] = s[i + d]
    BY <2>1, <2>3, <2>4
  <2> QED
    BY <2>1, <2>2, <2>3, <2>5
<1> HIDE DEF n
<1>5. DOMAIN bs = 1..Len(bs) /\ \A b \in 1..Len(bs) : bs[b] \in S
  <2> HIDE DEF S
  <2> QED
    BY <1>3
<1>6. ASSUME BranchLength(branch) <= BranchLimit
      PROVE  branch \in ToSet(bs)
  BY <1>3, <1>5, <1>6 DEF Placed, ToSet
<1>7. ASSUME ~ (BranchLength(branch) <= BranchLimit), branch \in ToSet(bs)
      PROVE  FALSE
  <2>1. PICK x \in 1..Len(bs) : bs[x] = branch
    BY <1>5, <1>7 DEF ToSet
  <2>2. PICK b \in 1..Len(bs) : /\ Len(bs[b]) >= 1 /\ bs[b][1] = s[i]
                                /\ bs[b][Len(bs[b])] = Note
    BY <1>3, <1>7 DEF Placed
  <2> HIDE DEF branch
  <2>3. 1 \in 1..Len(bs[x]) /\ 1 \in 1..Len(bs[b]) /\ bs[x][1].number = i /\ bs[b][1].number = i
    BY <1>2, <1>4, <1>5, <2>1, <2>2
  <2>4. i # 0 /\ i \in Nat /\ j # 0 /\ Len(bs) \in Nat
    BY <1>2, <1>3
  <2>5. ~ (x < b) /\ ~ (b < x)
    <3>1. \A p, q \in 1..Len(bs) : p < q /\ 1 \in 1..Len(bs[p]) /\ 1 \in 1..Len(bs[q]) =>
              \/ bs[p][1].number = 0 \/ bs[q][1].number = 0
              \/ bs[p][1].number < bs[q][1].number
      BY <1>3, Zenon DEF Covers
    <3> QED
      BY <2>3, <2>4, <3>1
  <2>6. x = b
    BY <2>4, <2>5
  <2>7. s[j] = Note
    BY <1>4, <2>1, <2>2, <2>6
  <2> QED
    BY <1>2, <2>4, <2>7 DEF Note
<1> QED
  BY <1>6, <1>7

\* BranchSafety: a branch of a procedure that is well formed is one chunk of its own,
\* unless it is too long for one (chunkAssembler.ts, batchSteps).
THEOREM BranchSafety == Spec => []BranchKeptWhole
<1>1. FieldsInv => BranchKeptWhole
  BY FormParts, BranchesAreKept DEF FieldsInv
<1> QED
  BY <1>1, FieldsAlways, PTL

-----------------------------------------------------------------------------
(* Causes in chunks.                                                       *)

\* The causes of a list are told apart by their identities.
Distinct(s) ==
    \A i, j \in 1..Len(s) : i # j => s[i].id # s[j].id

\* SameCause: an identity is one cause's.
LEMMA SameCause ==
    ASSUME NEW s, Distinct(s), NEW i \in 1..Len(s), NEW j \in 1..Len(s), s[i].id = s[j].id
    PROVE  i = j
BY DEF Distinct

\* q holds the causes of s that are in S, once each.
Kept(q, s, S) ==
    /\ q \in Seq(Cause) /\ Distinct(q)
    /\ \A k \in 1..Len(q) : \E i \in 1..Len(s) : q[k] = s[i] /\ s[i] \in S
    /\ \A i \in 1..Len(s) : s[i] \in S => \E k \in 1..Len(q) : q[k] = s[i]

\* q holds the causes of s with the first h priorities, once each and in that order.
UpTo(q, s, h) ==
    /\ q \in Seq(Cause) /\ Distinct(q)
    /\ \A k \in 1..Len(q) : \E i \in 1..Len(s) : q[k] = s[i]
    /\ \A k \in 1..Len(q) : \E p \in 1..h : q[k].priority = Priorities[p]
    /\ \A i \in 1..Len(s) : \A p \in 1..h :
          s[i].priority = Priorities[p] => \E k \in 1..Len(q) : q[k] = s[i]
    /\ \A k, l \in 1..Len(q) : \A p, r \in 1..4 :
          k < l /\ q[k].priority = Priorities[p] /\ q[l].priority = Priorities[r] => p <= r

\* KeepKeeps: what a filter of distinct causes returns.
LEMMA KeepKeeps ==
    ASSUME NEW s \in Seq(Cause), Distinct(s), NEW S
    PROVE  Kept(Keep(s, S), s, S)
<1> DEFINE q == Keep(s, S)
<1>1. q \in Seq(Cause)
  BY KeepPlaces
<1>2. PICK pos : Places(pos, q, s, S, Len(s))
  BY KeepPlaces
<1> HIDE DEF q
<1>3. /\ pos \in [1..Len(q) -> 1..Len(s)] /\ Len(q) \in Nat /\ Len(s) \in Nat
      /\ \A j \in 1..Len(q) : q[j] = s[pos[j]] /\ s[pos[j]] \in S
      /\ \A j, l \in 1..Len(q) : j < l => pos[j] < pos[l]
      /\ \A n \in 1..Len(s) : s[n] \in S => \E j \in 1..Len(q) : pos[j] = n
  BY <1>1, <1>2 DEF Places
<1>4. \A j, l \in 1..Len(q) : j # l => pos[j] # pos[l]
  <2>1. \A j \in 1..Len(q) : pos[j] \in Nat
    BY <1>3
  <2>2. \A j, l \in 1..Len(q) : j # l => j < l \/ l < j
    BY <1>3
  <2> QED
    BY <1>3, <2>1, <2>2
<1>5. Distinct(q)
  <2> SUFFICES ASSUME NEW i \in 1..Len(q), NEW j \in 1..Len(q), i # j
               PROVE  q[i].id # q[j].id
    BY DEF Distinct
  <2>1. pos[i] \in 1..Len(s) /\ pos[j] \in 1..Len(s) /\ pos[i] # pos[j]
    BY <1>3, <1>4
  <2>2. s[pos[i]].id # s[pos[j]].id
    BY <2>1 DEF Distinct
  <2> QED
    BY <1>3, <2>2
<1>6. \A k \in 1..Len(q) : \E i \in 1..Len(s) : q[k] = s[i] /\ s[i] \in S
  <2> SUFFICES ASSUME NEW k \in 1..Len(q)
               PROVE  \E i \in 1..Len(s) : q[k] = s[i] /\ s[i] \in S
    OBVIOUS
  <2>1. pos[k] \in 1..Len(s) /\ q[k] = s[pos[k]] /\ s[pos[k]] \in S
    BY <1>3
  <2> QED
    BY <2>1
<1>7. \A i \in 1..Len(s) : s[i] \in S => \E k \in 1..Len(q) : q[k] = s[i]
  <2> SUFFICES ASSUME NEW i \in 1..Len(s), s[i] \in S
               PROVE  \E k \in 1..Len(q) : q[k] = s[i]
    OBVIOUS
  <2>1. PICK k \in 1..Len(q) : pos[k] = i
    BY <1>3
  <2>2. q[k] = s[i]
    BY <1>3, <2>1
  <2> QED
    BY <2>2
<1>8. Kept(q, s, S)
  BY <1>1, <1>5, <1>6, <1>7 DEF Kept
<1> QED
  BY <1>8 DEF q

\* PrioritiesDiffer: the four priorities are told apart.
LEMMA PrioritiesDiffer ==
    /\ DOMAIN Priorities = 1..4
    /\ \A p, r \in 1..4 : Priorities[p] = Priorities[r] => p = r
    /\ \A c \in Cause : \E p \in 1..4 : c.priority = Priorities[p]
<1>1. DOMAIN Priorities = 1..4 /\ Len(Priorities) = 4
  BY DEF Priorities
<1>2. /\ Priorities[1] = "check_first" /\ Priorities[2] = "common"
      /\ Priorities[3] = "less_common" /\ Priorities[4] = "rare"
  BY DEF Priorities
<1>3. \A p \in 1..4 : p = 1 \/ p = 2 \/ p = 3 \/ p = 4
  OBVIOUS
<1>4. \A p, r \in 1..4 : Priorities[p] = Priorities[r] => p = r
  BY <1>2, <1>3
<1>5. \A c \in Cause : c.priority \in ToSet(Priorities)
  BY DEF Cause
<1>6. \A x \in ToSet(Priorities) : \E p \in 1..4 : x = Priorities[p]
  BY <1>1 DEF ToSet
<1> QED
  BY <1>1, <1>4, <1>5, <1>6

\* UpToNext: the causes with the next priority follow.
LEMMA UpToNext ==
    ASSUME NEW s \in Seq(Cause), Distinct(s), NEW h \in 0..3, NEW q, UpTo(q, s, h),
           NEW S, \A i \in 1..Len(s) : s[i] \in S <=> s[i].priority = Priorities[h + 1]
    PROVE  UpTo(q \o Keep(s, S), s, h + 1)
<1> DEFINE e == Keep(s, S)
           all == q \o e
           m == Len(q)
           n == Len(e)
<1>1. Kept(e, s, S)
  BY KeepKeeps
<1> HIDE DEF e
<1>2. q \in Seq(Cause) /\ e \in Seq(Cause)
  BY <1>1 DEF Kept, UpTo
<1>3. /\ all \in Seq(Cause) /\ Len(all) = m + n
      /\ \A k \in 1..(m + n) : all[k] = IF k <= m THEN q[k] ELSE e[k - m]
  BY <1>2, ConcatProperties
<1>4. m \in Nat /\ n \in Nat /\ Len(s) \in Nat
  BY <1>2
<1> HIDE DEF all, m, n
<1>5. \A k \in 1..(m + n) : \/ k \in 1..m /\ k <= m
                            \/ k - m \in 1..n /\ ~ (k <= m)
  BY <1>4
<1>6. \A k \in 1..m : k \in 1..(m + n) /\ k <= m
  BY <1>4
<1>7. \A k \in 1..n : k + m \in 1..(m + n) /\ ~ (k + m <= m) /\ (k + m) - m = k
  BY <1>4
<1>8. \A k \in 1..m : all[k] = q[k] /\ k \in 1..(m + n)
  BY <1>3, <1>6
<1>9. \A k \in 1..n : all[k + m] = e[k] /\ k + m \in 1..(m + n)
  BY <1>3, <1>7
<1>10. /\ \A k \in 1..m : \E p \in 1..h : q[k].priority = Priorities[p]
       /\ \A k \in 1..n : e[k].priority = Priorities[h + 1]
  <2>1. \A k \in 1..n : \E i \in 1..Len(s) : e[k] = s[i] /\ s[i] \in S
    BY <1>1 DEF Kept, n
  <2> QED
    BY <2>1 DEF UpTo, m
<1>11. \A p \in 1..h : p \in 1..4 /\ p <= h + 1 /\ p # h + 1 /\ p \in 1..(h + 1) /\ h + 1 \in 1..4
  OBVIOUS
<1>12. h + 1 \in 1..(h + 1) /\ h + 1 \in 1..4
  OBVIOUS
<1>13. \A k \in 1..m, l \in 1..n : q[k].id # e[l].id
  <2> SUFFICES ASSUME NEW k \in 1..m, NEW l \in 1..n, q[k].id = e[l].id
               PROVE  FALSE
    OBVIOUS
  <2>1. PICK i \in 1..Len(s) : q[k] = s[i]
    BY DEF UpTo, m
  <2>2. PICK j \in 1..Len(s) : e[l] = s[j]
    BY <1>1 DEF Kept, n
  <2>3. i = j
    BY <2>1, <2>2 DEF Distinct
  <2>4. q[k] = e[l]
    BY <2>1, <2>2, <2>3
  <2> QED
    BY <1>10, <1>11, <1>12, <2>4, PrioritiesDiffer
<1>14. Distinct(all)
  <2> SUFFICES ASSUME NEW k \in 1..(m + n), NEW l \in 1..(m + n), k # l
               PROVE  all[k].id # all[l].id
    BY <1>3 DEF Distinct
  <2>1. CASE k <= m /\ l <= m
    <3>1. k \in 1..m /\ l \in 1..m /\ all[k] = q[k] /\ all[l] = q[l]
      BY <1>3, <1>5, <2>1
    <3>2. Distinct(q) /\ m = Len(q)
      BY DEF UpTo, m
    <3> QED
      BY <3>1, <3>2 DEF Distinct
  <2>2. CASE k <= m /\ ~ (l <= m)
    BY <1>3, <1>5, <1>13, <2>2
  <2>3. CASE ~ (k <= m) /\ l <= m
    BY <1>3, <1>5, <1>13, <2>3
  <2>4. CASE ~ (k <= m) /\ ~ (l <= m)
    <3>1. k - m \in 1..n /\ l - m \in 1..n
      BY <1>5, <2>4
    <3>2. k - m # l - m
      BY <1>4
    <3>3. e[k - m].id # e[l - m].id
      BY <1>1, <3>1, <3>2 DEF Kept, Distinct, n
    <3> QED
      BY <1>3, <2>4, <3>3
  <2> QED
    BY <2>1, <2>2, <2>3, <2>4
<1>15. \A k \in 1..(m + n) : \E i \in 1..Len(s) : all[k] = s[i]
  <2> SUFFICES ASSUME NEW k \in 1..(m + n)
               PROVE  \E i \in 1..Len(s) : all[k] = s[i]
    OBVIOUS
  <2>1. CASE k <= m
    <3>1. k \in 1..m /\ all[k] = q[k]
      BY <1>3, <1>5, <2>1
    <3>2. \A x \in 1..m : \E i \in 1..Len(s) : q[x] = s[i]
      BY DEF UpTo, m
    <3> QED
      BY <3>1, <3>2, Zenon
  <2>2. CASE ~ (k <= m)
    <3>1. k - m \in 1..n /\ all[k] = e[k - m]
      BY <1>3, <1>5, <2>2
    <3>2. \E i \in 1..Len(s) : e[k - m] = s[i]
      BY <1>1, <3>1 DEF Kept, n
    <3> QED
      BY <3>1, <3>2
  <2> QED
    BY <2>1, <2>2
<1>16. \A k \in 1..(m + n) : \E p \in 1..(h + 1) : all[k].priority = Priorities[p]
  <2> SUFFICES ASSUME NEW k \in 1..(m + n)
               PROVE  \E p \in 1..(h + 1) : all[k].priority = Priorities[p]
    OBVIOUS
  <2>1. CASE k <= m
    BY <1>3, <1>5, <1>10, <1>11, <2>1
  <2>2. CASE ~ (k <= m)
    BY <1>3, <1>5, <1>10, <1>12, <2>2
  <2> QED
    BY <2>1, <2>2
<1>17. ASSUME NEW i \in 1..Len(s), NEW p \in 1..(h + 1), s[i].priority = Priorities[p]
       PROVE  \E k \in 1..(m + n) : all[k] = s[i]
  <2>1. CASE p = h + 1
    <3>1. PICK k \in 1..n : e[k] = s[i]
      BY <1>1, <1>17, <2>1 DEF Kept, n
    <3> QED
      BY <1>9, <3>1
  <2>2. CASE p \in 1..h
    <3>1. PICK k \in 1..m : q[k] = s[i]
      BY <1>17, <2>2 DEF UpTo, m
    <3> QED
      BY <1>8, <3>1
  <2>3. p = h + 1 \/ p \in 1..h
    OBVIOUS
  <2> QED
    BY <2>1, <2>2, <2>3
<1>18. ASSUME NEW k \in 1..(m + n), NEW l \in 1..(m + n), NEW p \in 1..4, NEW r \in 1..4,
              k < l, all[k].priority = Priorities[p], all[l].priority = Priorities[r]
       PROVE  p <= r
  <2>1. CASE k <= m /\ l <= m
    <3>1. k \in 1..m /\ l \in 1..m /\ all[k] = q[k] /\ all[l] = q[l]
      BY <1>3, <1>5, <2>1
    <3>2. \A x, y \in 1..m : \A u, v \in 1..4 :
             x < y /\ q[x].priority = Priorities[u] /\ q[y].priority = Priorities[v] => u <= v
      BY Zenon DEF UpTo, m
    <3> QED
      BY <1>18, <3>1, <3>2, Zenon
  <2>2. CASE k <= m /\ ~ (l <= m)
    <3>1. r = h + 1
      <4>1. l - m \in 1..n /\ all[l] = e[l - m]
        BY <1>3, <1>4, <1>5, <1>18, <2>2
      <4>2. Priorities[r] = Priorities[h + 1]
        BY <1>10, <1>18, <4>1
      <4> QED
        BY <1>12, <4>2, PrioritiesDiffer
    <3>2. PICK x \in 1..h : q[k].priority = Priorities[x]
      BY <1>5, <1>10, <2>2
    <3>3. p = x
      BY <1>3, <1>11, <1>18, <2>2, <3>2, PrioritiesDiffer
    <3> QED
      BY <1>11, <3>1, <3>3
  <2>3. CASE ~ (k <= m) /\ l <= m
    BY <1>4, <1>18, <2>3
  <2>4. CASE ~ (k <= m) /\ ~ (l <= m)
    <3>1. k - m \in 1..n /\ all[k] = e[k - m] /\ l - m \in 1..n /\ all[l] = e[l - m]
      BY <1>3, <1>5, <2>4
    <3>2. Priorities[p] = Priorities[h + 1] /\ Priorities[r] = Priorities[h + 1]
      BY <1>10, <1>18, <3>1
    <3>3. p = h + 1 /\ r = h + 1
      BY <1>12, <3>2, PrioritiesDiffer
    <3> QED
      BY <3>3
  <2> QED
    BY <2>1, <2>2, <2>3, <2>4
<1>19. UpTo(all, s, h + 1)
  BY <1>3, <1>14, <1>15, <1>16, <1>17, <1>18 DEF UpTo
<1> QED
  BY <1>19 DEF all, e

\* SortedByPriority: the sort keeps every cause, once, and orders the priorities.
LEMMA SortedByPriority ==
    ASSUME NEW s \in Seq(Cause), Distinct(s)
    PROVE  UpTo(ByPriority(s), s, 4)
<1> DEFINE Having(p) == {c \in ToSet(s) : c.priority = Priorities[p]}
           q1 == Keep(s, Having(1))
           q2 == q1 \o Keep(s, Having(2))
           q3 == q2 \o Keep(s, Having(3))
           q4 == q3 \o Keep(s, Having(4))
<1>1. \A p : \A i \in 1..Len(s) : s[i] \in Having(p) <=> s[i].priority = Priorities[p]
  <2>1. \A i \in 1..Len(s) : s[i] \in ToSet(s)
    BY DEF ToSet
  <2> QED
    BY <2>1
<1>2. q1 = <<>> \o Keep(s, Having(1))
  <2>1. Keep(s, Having(1)) \in Seq(Cause)
    BY KeepPlaces
  <2> HIDE DEF Having
  <2> QED
    BY <2>1
<1>3. ByPriority(s) = q4
  BY DEF ByPriority
<1> HIDE DEF Having
<1>4. UpTo(<<>>, s, 0)
  <2>1. <<>> \in Seq(Cause) /\ Len(<<>>) = 0 /\ 1..0 = {}
    OBVIOUS
  <2> QED
    BY <2>1 DEF UpTo, Distinct
<1>5. UpTo(q1, s, 1)
  <2>1. 0 \in 0..3 /\ 0 + 1 = 1
    OBVIOUS
  <2>2. \A i \in 1..Len(s) : s[i] \in Having(1) <=> s[i].priority = Priorities[0 + 1]
    BY <1>1, <2>1
  <2>3. UpTo(<<>> \o Keep(s, Having(1)), s, 0 + 1)
    BY <1>4, <2>1, <2>2, UpToNext
  <2> QED
    BY <1>2, <2>1, <2>3
<1> HIDE DEF q1
<1>6. UpTo(q2, s, 2)
  <2>1. 1 \in 0..3 /\ 1 + 1 = 2
    OBVIOUS
  <2>2. \A i \in 1..Len(s) : s[i] \in Having(2) <=> s[i].priority = Priorities[1 + 1]
    BY <1>1, <2>1
  <2>3. UpTo(q1 \o Keep(s, Having(2)), s, 1 + 1)
    BY <1>5, <2>1, <2>2, UpToNext
  <2> QED
    BY <2>1, <2>3
<1> HIDE DEF q2
<1>7. UpTo(q3, s, 3)
  <2>1. 2 \in 0..3 /\ 2 + 1 = 3
    OBVIOUS
  <2>2. \A i \in 1..Len(s) : s[i] \in Having(3) <=> s[i].priority = Priorities[2 + 1]
    BY <1>1, <2>1
  <2>3. UpTo(q2 \o Keep(s, Having(3)), s, 2 + 1)
    BY <1>6, <2>1, <2>2, UpToNext
  <2> QED
    BY <2>1, <2>3
<1> HIDE DEF q3
<1>8. UpTo(q4, s, 4)
  <2>1. 3 \in 0..3 /\ 3 + 1 = 4
    OBVIOUS
  <2>2. \A i \in 1..Len(s) : s[i] \in Having(4) <=> s[i].priority = Priorities[3 + 1]
    BY <1>1, <2>1
  <2>3. UpTo(q3 \o Keep(s, Having(4)), s, 3 + 1)
    BY <1>7, <2>1, <2>2, UpToNext
  <2> QED
    BY <2>1, <2>3
<1> QED
  BY <1>3, <1>8

\* The causes of a guide that get a chunk, in the order of their chunks.
Sorted == ByPriority(ActiveCauses(form.causes))

\* SortedCauses: which causes these are.
LEMMA SortedCauses ==
    ASSUME NEW nextId, form.causes \in Seq(Cause), GoodCauses(form.causes, nextId)
    PROVE  /\ Sorted \in Seq(Cause) /\ Distinct(Sorted) /\ Distinct(form.causes)
           /\ \A k \in 1..Len(Sorted) : \E i \in 1..Len(form.causes) :
                 Sorted[k] = form.causes[i] /\ ~ form.causes[i].obsolete
           /\ \A i \in 1..Len(form.causes) : ~ form.causes[i].obsolete =>
                 \E k \in 1..Len(Sorted) : Sorted[k] = form.causes[i]
           /\ \A k, l \in 1..Len(Sorted) : \A p, r \in 1..4 :
                 k < l /\ Sorted[k].priority = Priorities[p] /\ Sorted[l].priority = Priorities[r]
                    => p <= r
<1> DEFINE causes == form.causes
           current == {c \in ToSet(causes) : ~ c.obsolete}
           act == Keep(causes, current)
<1>1. Distinct(causes)
  BY DEF GoodCauses, Distinct
<1>2. Kept(act, causes, current)
  BY <1>1, KeepKeeps
<1>3. \A i \in 1..Len(causes) : causes[i] \in current <=> ~ causes[i].obsolete
  <2>1. \A i \in 1..Len(causes) : causes[i] \in ToSet(causes)
    BY DEF ToSet
  <2> QED
    BY <2>1
<1>4. Sorted = ByPriority(act)
  BY DEF Sorted, ActiveCauses
<1> HIDE DEF act, current
<1>5. act \in Seq(Cause) /\ Distinct(act)
  BY <1>2 DEF Kept
<1>6. UpTo(Sorted, act, 4)
  BY <1>4, <1>5, SortedByPriority
<1>7. ASSUME NEW k \in 1..Len(Sorted)
      PROVE  \E i \in 1..Len(causes) : Sorted[k] = causes[i] /\ ~ causes[i].obsolete
  <2>1. PICK x \in 1..Len(act) : Sorted[k] = act[x]
    BY <1>6 DEF UpTo
  <2>2. PICK i \in 1..Len(causes) : act[x] = causes[i] /\ causes[i] \in current
    BY <1>2 DEF Kept
  <2> QED
    BY <1>3, <2>1, <2>2
<1>8. ASSUME NEW i \in 1..Len(causes), ~ causes[i].obsolete
      PROVE  \E k \in 1..Len(Sorted) : Sorted[k] = causes[i]
  <2>1. PICK x \in 1..Len(act) : act[x] = causes[i]
    BY <1>2, <1>3, <1>8 DEF Kept
  <2>2. act[x] \in Cause
    BY <1>5
  <2>3. PICK p \in 1..4 : act[x].priority = Priorities[p]
    BY <2>2, PrioritiesDiffer
  <2> QED
    BY <1>6, <2>1, <2>3 DEF UpTo
<1> QED
  BY <1>1, <1>6, <1>7, <1>8 DEF UpTo

\* The chunks of a guide: the overview, then one for each of these causes.
GuideChunks ==
    /\ DOMAIN Chunks = 1..(Len(Sorted) + 1)
    /\ Chunks[1].section[1] # "cause"
    /\ \A k \in 1..Len(Sorted) : /\ Chunks[k + 1].section[1] = "cause"
                                 /\ Chunks[k + 1].holds = <<Sorted[k].id>>

\* GuideAssembled: the assembly of a guide.
LEMMA GuideAssembled ==
    ASSUME contentType = "error_guide", Sorted \in Seq(Cause)
    PROVE  GuideChunks
<1> DEFINE n == Len(Sorted)
           chunk(i) == [section |-> <<"cause", i>>, holds |-> <<Sorted[i].id>>,
                        parts |-> IF Sorted[i].admin THEN {"admin_note"} ELSE {}]
           overview == ErrorGuideOverview(form)
           own == [i \in 1..n |-> chunk(i)]
           T == {overview} \cup {chunk(i) : i \in 1..n}
           one == <<overview>>
<1>1. n \in Nat
  OBVIOUS
<1>2. Chunks = one \o own
  BY DEF Chunks, AssembleChunks, AssembleErrorGuide, Sorted
<1>3. overview.section[1] # "cause"
  BY DEF ErrorGuideOverview
<1>4. \A i \in 1..n : chunk(i).section[1] = "cause" /\ chunk(i).holds = <<Sorted[i].id>>
  OBVIOUS
<1> HIDE DEF chunk, overview
<1>5. own \in Seq(T) /\ Len(own) = n /\ \A i \in 1..n : own[i] = chunk(i)
  <2> HIDE DEF n
  <2>1. \A i \in 1..n : chunk(i) \in T
    OBVIOUS
  <2> HIDE DEF T
  <2> QED
    BY <1>1, <2>1
<1>6. one \in Seq(T) /\ Len(one) = 1 /\ one[1] = overview
  OBVIOUS
<1> HIDE DEF own, one, T, n
<1>7. /\ one \o own \in Seq(T) /\ Len(one \o own) = 1 + n
      /\ \A k \in 1..(1 + n) : (one \o own)[k] = IF k <= 1 THEN one[k] ELSE own[k - 1]
  <2>1. /\ one \o own \in Seq(T) /\ Len(one \o own) = Len(one) + Len(own)
        /\ \A k \in 1..(Len(one) + Len(own)) :
              (one \o own)[k] = IF k <= Len(one) THEN one[k] ELSE own[k - Len(one)]
    BY <1>5, <1>6, ConcatProperties
  <2>2. Len(one) = 1 /\ Len(own) = n
    BY <1>5, <1>6
  <2> QED
    BY <2>1, <2>2
<1>8. Chunks \in Seq(T) /\ Len(Chunks) = n + 1
      /\ \A k \in 1..(n + 1) : Chunks[k] = IF k <= 1 THEN one[k] ELSE own[k - 1]
  BY <1>1, <1>2, <1>7
<1>9. DOMAIN Chunks = 1..(n + 1)
  BY <1>8
<1>10. 1 \in 1..(n + 1) /\ \A k \in 1..n : k + 1 \in 1..(n + 1) /\ ~ (k + 1 <= 1) /\ (k + 1) - 1 = k
  BY <1>1
<1>11. Chunks[1] = overview /\ \A k \in 1..n : Chunks[k + 1] = chunk(k)
  BY <1>5, <1>6, <1>8, <1>10
<1> QED
  BY <1>3, <1>4, <1>9, <1>11 DEF GuideChunks, n

\* CausesAreIndexed: one chunk for each cause that is not obsolete, by priority.
LEMMA CausesAreIndexed ==
    ASSUME NEW nextId, contentType = "error_guide",
           form.causes \in Seq(Cause), GoodCauses(form.causes, nextId)
    PROVE  CausesIndexed
<1> DEFINE causes == form.causes
           n == Len(Sorted)
           own == {k \in DOMAIN Chunks : Chunks[k].section[1] = "cause"}
           Ranks(k, p) == \E i \in DOMAIN causes : /\ causes[i].id = Chunks[k].holds[1]
                                                   /\ causes[i].priority = Priorities[p]
           PriorityOf(k) == CHOOSE p \in DOMAIN Priorities : Ranks(k, p)
<1>1. /\ Sorted \in Seq(Cause) /\ Distinct(Sorted) /\ Distinct(causes)
      /\ \A k \in 1..n : \E i \in 1..Len(causes) :
            Sorted[k] = causes[i] /\ ~ causes[i].obsolete
      /\ \A i \in 1..Len(causes) : ~ causes[i].obsolete =>
            \E k \in 1..n : Sorted[k] = causes[i]
      /\ \A k, l \in 1..n : \A p, r \in 1..4 :
            k < l /\ Sorted[k].priority = Priorities[p] /\ Sorted[l].priority = Priorities[r]
               => p <= r
  BY SortedCauses
<1>2. GuideChunks
  BY <1>1, GuideAssembled
<1>3. n \in Nat /\ DOMAIN causes = 1..Len(causes)
  BY <1>1
<1> HIDE DEF n
<1>4. /\ DOMAIN Chunks = 1..(n + 1) /\ Chunks[1].section[1] # "cause"
      /\ \A k \in 1..n : /\ Chunks[k + 1].section[1] = "cause"
                         /\ Chunks[k + 1].holds = <<Sorted[k].id>>
  BY <1>2 DEF GuideChunks, n
<1>5. \A k \in own : k - 1 \in 1..n /\ (k - 1) + 1 = k
  <2> SUFFICES ASSUME NEW k \in own PROVE k - 1 \in 1..n /\ (k - 1) + 1 = k
    OBVIOUS
  <2>1. k \in 1..(n + 1) /\ k # 1
    BY <1>4
  <2> QED
    BY <1>3, <2>1
<1>6. \A k \in 1..n : k + 1 \in own
  <2>1. \A k \in 1..n : k + 1 \in 1..(n + 1)
    BY <1>3
  <2> QED
    BY <1>4, <2>1
<1> HIDE DEF own
<1>7. \A k \in own : /\ ToSet(Chunks[k].holds) = {Sorted[k - 1].id}
                     /\ Chunks[k].holds[1] = Sorted[k - 1].id
  <2> SUFFICES ASSUME NEW k \in own
               PROVE  /\ ToSet(Chunks[k].holds) = {Sorted[k - 1].id}
                      /\ Chunks[k].holds[1] = Sorted[k - 1].id
    OBVIOUS
  <2>1. Chunks[k].holds = <<Sorted[k - 1].id>>
    BY <1>4, <1>5
  <2> DEFINE x == Sorted[k - 1].id
  <2> HIDE DEF x
  <2>2. ToSet(<<x>>) = {x} /\ <<x>>[1] = x
    BY DEF ToSet
  <2> QED
    BY <2>1, <2>2 DEF x
<1>8. ASSUME NEW i \in DOMAIN causes
      PROVE  Cardinality({k \in own : causes[i].id \in ToSet(Chunks[k].holds)})
                = IF causes[i].obsolete THEN 0 ELSE 1
  <2> DEFINE mine == {k \in own : causes[i].id \in ToSet(Chunks[k].holds)}
  <2>1. mine = {k \in own : causes[i].id = Sorted[k - 1].id}
    BY <1>7
  <2>2. CASE causes[i].obsolete
    <3>1. ASSUME NEW k \in mine
          PROVE  FALSE
      <4>1. k \in own /\ causes[i].id = Sorted[k - 1].id
        BY <2>1
      <4>2. PICK j \in 1..Len(causes) : Sorted[k - 1] = causes[j] /\ ~ causes[j].obsolete
        BY <1>1, <1>5, <4>1
      <4>3. i = j
        <5>1. causes[i].id = causes[j].id
          BY <4>1, <4>2
        <5> QED
          BY <1>1, <1>3, <4>2, <5>1, SameCause
      <4> QED
        BY <2>2, <4>2, <4>3
    <3>2. mine = {}
      BY <3>1
    <3> QED
      BY <2>2, <3>2, FS_EmptySet
  <2>3. CASE ~ causes[i].obsolete
    <3>1. PICK x \in 1..n : Sorted[x] = causes[i]
      BY <1>1, <1>3, <2>3
    <3>2. x + 1 \in own /\ (x + 1) - 1 = x
      BY <1>3, <1>6
    <3>3. x + 1 \in mine
      BY <2>1, <3>1, <3>2
    <3>4. ASSUME NEW k \in mine
          PROVE  k = x + 1
      <4>1. k \in own /\ causes[i].id = Sorted[k - 1].id
        BY <2>1
      <4>2. k - 1 \in 1..n /\ (k - 1) + 1 = k
        BY <1>5, <4>1
      <4>3. k - 1 = x
        <5>1. Sorted[k - 1].id = Sorted[x].id
          BY <3>1, <4>1
        <5> QED
          BY <1>1, <4>2, <5>1, SameCause DEF n
      <4> QED
        BY <4>2, <4>3
    <3> HIDE DEF mine
    <3>5. mine = {x + 1}
      BY <3>3, <3>4
    <3>6. Cardinality(mine) = 1
      BY <3>5, FS_Singleton
    <3> QED
      BY <2>3, <3>6 DEF mine
  <2> QED
    BY <2>2, <2>3
<1>9. ASSUME NEW k \in own
      PROVE  /\ PriorityOf(k) \in 1..4
             /\ Sorted[k - 1].priority = Priorities[PriorityOf(k)]
  <2>1. k - 1 \in 1..n
    BY <1>5
  <2>2. PICK j \in 1..Len(causes) : Sorted[k - 1] = causes[j]
    BY <1>1, <2>1
  <2>3. causes[j] \in Cause
    OBVIOUS
  <2>4. PICK p \in 1..4 : causes[j].priority = Priorities[p]
    BY <2>3, PrioritiesDiffer
  <2>5. Ranks(k, p) /\ p \in DOMAIN Priorities
    BY <1>3, <1>7, <2>2, <2>4, PrioritiesDiffer
  <2> HIDE DEF Ranks
  <2>6. PriorityOf(k) \in DOMAIN Priorities /\ Ranks(k, PriorityOf(k))
    BY <2>5, Zenon
  <2> HIDE DEF PriorityOf
  <2>7. PICK i \in DOMAIN causes : /\ causes[i].id = Chunks[k].holds[1]
                                   /\ causes[i].priority = Priorities[PriorityOf(k)]
    BY <2>6 DEF Ranks
  <2>8. causes[i].id = causes[j].id
    BY <1>7, <2>2, <2>7
  <2>9. i = j
    BY <1>1, <1>3, <2>8, SameCause
  <2> QED
    BY <2>2, <2>6, <2>7, <2>9, PrioritiesDiffer
<1> HIDE DEF PriorityOf
<1>10. ASSUME NEW j \in own, NEW k \in own, j < k
       PROVE  PriorityOf(j) <= PriorityOf(k)
  <2>1. j - 1 \in 1..n /\ k - 1 \in 1..n /\ j - 1 < k - 1
    BY <1>3, <1>5, <1>10
  <2> QED
    BY <1>1, <1>9, <2>1
<1> QED
  BY <1>8, <1>10 DEF CausesIndexed, own, PriorityOf, Ranks

\* PartsSafety: every step of a procedure that is well formed is in the preview, in the
\* order of the form and once, and every current cause of a guide has one chunk, by
\* priority, an obsolete one none (chunkAssembler.ts).
THEOREM PartsSafety == Spec => []PartsIndexedOnce
<1>1. FieldsInv => PartsIndexedOnce
  BY FormParts, StepsAreIndexed, CausesAreIndexed DEF FieldsInv, PartsIndexedOnce
<1> QED
  BY <1>1, FieldsAlways, PTL

=============================================================================

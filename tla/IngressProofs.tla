--------------------------- MODULE IngressProofs ---------------------------
(***************************************************************************)
(* Proofs about Ingress, for any followers, execution seats, queue limits, *)
(* number of requests and length of answers.                               *)
(*                                                                         *)
(*   TypeCorrect       the types of Ingress                                *)
(*   RanksAgree        a follower's tick starts where the leader's did     *)
(*                     (LockStep)                                          *)
(*   StreamsAreExact   a stream was handed the tokens up to its offset     *)
(*                     (ExactStreams)                                      *)
(*                                                                         *)
(* Chained is the strengthening of LockStep.  A follower is several        *)
(* batches behind, so the property must hold of every batch on its way, in *)
(* the state in which the follower will come to it (Start), and of the     *)
(* commands that are not yet a batch, in the state in which it will have   *)
(* obeyed them all (Arrival).  The leader submits at once and cancels when *)
(* it ticks; a follower does both in the order of the commands.  That both *)
(* reach the same lists is what SubmitCancelled and CancelledTwice say,    *)
(* and that the follower refuses nothing, CanSubmitFewer.                  *)
(*                                                                         *)
(* Handed is the strengthening of ExactStreams: the offset never exceeds   *)
(* what the request has produced, and a request with a result has left the *)
(* scheduler.                                                              *)
(*                                                                         *)
(* The first parts are lemmas about loops, lists and the scheduler that    *)
(* the ingress sees.                                                       *)
(***************************************************************************)
EXTENDS Ingress, FiniteSetTheorems, SequenceTheorems, WellFoundedInduction, TLAPS

-----------------------------------------------------------------------------
\* Numbers and lists.

LEMMA LeastExists ==
  ASSUME NEW T \in SUBSET Nat, T # {}
  PROVE  \E x \in T : \A y \in T : x <= y
<1> DEFINE R == OpToRel(<, Nat)
<1>1. IsWellFoundedOn(R, Nat)
  BY NatLessThanWellFounded, Zenon
<1>2. \A x, y \in Nat : x < y => <<x, y>> \in R
  BY DEF OpToRel
<1> HIDE DEF R
<1>3. PICK x \in T : \A y \in T : ~ (<<y, x>> \in R)
  BY <1>1, WFMin, Zenon
<1>4. \A y \in T : x \in Nat /\ y \in Nat /\ ~ (y < x)
  BY <1>2, <1>3, Zenon
<1> QED BY <1>3, <1>4

LEMMA AppendRange ==
  ASSUME NEW T, NEW s \in Seq(T), NEW x \in T
  PROVE  /\ Append(s, x) \in Seq(T) /\ Len(Append(s, x)) = Len(s) + 1
         /\ \A i \in 1 .. Len(s) : Append(s, x)[i] = s[i]
         /\ Append(s, x)[Len(s) + 1] = x
         /\ Range(Append(s, x)) = Range(s) \cup {x}
<1> DEFINE t == Append(s, x)
<1>1. /\ t \in Seq(T) /\ Len(t) = Len(s) + 1
      /\ \A i \in 1 .. Len(s) : t[i] = s[i]
      /\ t[Len(s) + 1] = x
  BY AppendProperties
<1> HIDE DEF t
<1>2. Len(s) \in Nat /\ DOMAIN s = 1 .. Len(s) /\ DOMAIN t = 1 .. Len(s) + 1
  BY <1>1, LenProperties
<1>3. DOMAIN t = DOMAIN s \cup {Len(s) + 1} /\ \A i \in DOMAIN s : t[i] = s[i]
  BY <1>1, <1>2
<1>4. Range(t) = Range(s) \cup {x}
  BY <1>1, <1>3 DEF Range
<1> QED BY <1>1, <1>4 DEF t

-----------------------------------------------------------------------------
\* Loops.

\* What holds before a loop and is kept by each of its n turns holds after each.
LEMMA UpTo ==
  ASSUME NEW n \in Nat, NEW G, 0 \in G, \A i \in 1 .. n : i - 1 \in G => i \in G
  PROVE  \A i \in 0 .. n : i \in G
<1> DEFINE bad == {i \in 0 .. n : i \notin G}
<1>1. SUFFICES ASSUME bad # {} PROVE FALSE
  OBVIOUS
<1>2. bad \in SUBSET Nat
  OBVIOUS
<1>3. PICK i \in bad : \A j \in bad : i <= j
  <2> HIDE DEF bad
  <2> QED BY <1>1, <1>2, LeastExists
<1>4. i \in 1 .. n /\ i - 1 \in 0 .. n /\ i \notin G
  BY <1>3
<1>5. i - 1 \notin bad
  BY <1>3, <1>4
<1> QED BY <1>4, <1>5

\* f is the state of a loop after each of its n turns.
Turns(f, A, a, n, step) ==
  /\ f \in [0 .. n -> A]
  /\ f[0] = a
  /\ \A i \in 1 .. n : f[i] = step[<<f[i - 1], i>>]

LEMMA LoopRuns ==
  ASSUME NEW A, NEW a \in A, NEW n \in Nat, NEW step \in [A \X (1 .. n) -> A]
  PROVE  \E f : Turns(f, A, a, n, step)
<1> DEFINE G == {m \in 0 .. n : \E f : Turns(f, A, a, m, step)}
<1>1. 0 \in G
  <2>1. Turns([i \in 0 .. 0 |-> a], A, a, 0, step)
    BY DEF Turns
  <2> QED BY <2>1
<1>2. ASSUME NEW m \in 1 .. n, m - 1 \in G
      PROVE  m \in G
  <2>1. PICK f : Turns(f, A, a, m - 1, step)
    BY <1>2
  <2>2. /\ f \in [0 .. m - 1 -> A] /\ f[0] = a
        /\ \A i \in 1 .. m - 1 : f[i] = step[<<f[i - 1], i>>]
    BY <2>1 DEF Turns
  <2> DEFINE last == step[<<f[m - 1], m>>]
             g == [i \in 0 .. m |-> IF i = m THEN last ELSE f[i]]
  <2>3. m - 1 \in 0 .. m - 1 /\ 0 \in 0 .. m - 1
    OBVIOUS
  <2>4. last \in A
    BY <2>2, <2>3
  <2> HIDE DEF last
  <2>5. g \in [0 .. m -> A] /\ g[m] = last /\ \A i \in 0 .. m - 1 : g[i] = f[i]
    <3>1. \A i \in 0 .. m : i # m => i \in 0 .. m - 1
      OBVIOUS
    <3> QED BY <2>2, <2>4, <3>1
  <2> HIDE DEF g
  <2>6. g[0] = a /\ g[m] = step[<<g[m - 1], m>>]
    BY <2>2, <2>3, <2>5, Zenon DEF last
  <2>7. ASSUME NEW i \in 1 .. m
        PROVE  g[i] = step[<<g[i - 1], i>>]
    <3>1. CASE i = m
      BY <2>6, <3>1
    <3>2. CASE i # m
      <4>1. i \in 1 .. m - 1 /\ i \in 0 .. m - 1 /\ i - 1 \in 0 .. m - 1
        BY <3>2
      <4> QED BY <2>2, <2>5, <4>1
    <3> QED BY <3>1, <3>2
  <2>8. Turns(g, A, a, m, step)
    BY <2>5, <2>6, <2>7 DEF Turns
  <2>9. m \in 0 .. n
    OBVIOUS
  <2> QED BY <2>8, <2>9
<1>3. n \in 0 .. n
  OBVIOUS
<1> HIDE DEF G
<1>4. n \in G
  BY <1>1, <1>2, <1>3, UpTo
<1> QED BY <1>4 DEF G

-----------------------------------------------------------------------------
\* Lists.

\* r is what is left of each prefix of the list without the members of K.
Rests(r, T, list, K) ==
  /\ r \in [0 .. Len(list) -> Seq(T)]
  /\ r[0] = <<>>
  /\ \A i \in 1 .. Len(list) :
       r[i] = IF list[i] \in K THEN r[i - 1] ELSE Append(r[i - 1], list[i])

LEMMA DropRuns ==
  ASSUME NEW T, NEW list \in Seq(T), NEW K
  PROVE  \E r : Rests(r, T, list, K) /\ Dropped(list, K) = r[Len(list)]
<1> DEFINE n == Len(list)
           Loop(f) == f = [i \in 0 .. n |->
                             IF i = 0 THEN <<>>
                             ELSE IF list[i] \in K THEN f[i - 1]
                                  ELSE Append(f[i - 1], list[i])]
           rest == CHOOSE f : Loop(f)
<1>1. Dropped(list, K) = rest[n]
  BY DEF Dropped
<1>2. n \in Nat /\ \A i \in 1 .. n : list[i] \in T
  OBVIOUS
<1>3. n = Len(list)
  OBVIOUS
<1> HIDE DEF n
<1>4. n \in 0 .. n /\ 0 \in 0 .. n
  BY <1>2
<1> DEFINE step == [x \in Seq(T) \X (1 .. n) |->
                      IF list[x[2]] \in K THEN x[1] ELSE Append(x[1], list[x[2]])]
<1>5. step \in [Seq(T) \X (1 .. n) -> Seq(T)]
  BY <1>2
<1>6. \A x \in Seq(T) : \A i \in 1 .. n :
        step[<<x, i>>] = IF list[i] \in K THEN x ELSE Append(x, list[i])
  OBVIOUS
<1> HIDE DEF step
<1>7. <<>> \in Seq(T)
  OBVIOUS
<1>8. PICK f : Turns(f, Seq(T), <<>>, n, step)
  BY <1>2, <1>5, <1>7, LoopRuns, Zenon
<1>9. f \in [0 .. n -> Seq(T)] /\ f[0] = <<>>
      /\ \A i \in 1 .. n : f[i] = step[<<f[i - 1], i>>]
  BY <1>8 DEF Turns
<1>10. \A i \in 1 .. n : f[i] = IF list[i] \in K THEN f[i - 1] ELSE Append(f[i - 1], list[i])
  <2>1. \A i \in 1 .. n : f[i - 1] \in Seq(T)
    BY <1>2, <1>9
  <2> QED BY <1>6, <1>9, <2>1, Zenon
<1>11. Loop(f)
  <2>1. \A i \in 0 .. n : f[i] = IF i = 0 THEN <<>>
                                 ELSE IF list[i] \in K THEN f[i - 1]
                                      ELSE Append(f[i - 1], list[i])
    <3>1. \A i \in 0 .. n : i # 0 => i \in 1 .. n
      BY <1>2
    <3> QED BY <1>9, <1>10, <3>1, Zenon
  <2> QED BY <1>9, <2>1
<1>12. Loop(rest)
  BY <1>11, Zenon
<1> HIDE DEF rest
<1>13. /\ DOMAIN rest = 0 .. n /\ rest = [i \in 0 .. n |-> rest[i]] /\ rest[0] = <<>>
       /\ \A i \in 1 .. n :
            rest[i] = IF list[i] \in K THEN rest[i - 1] ELSE Append(rest[i - 1], list[i])
  <2>1. rest = [i \in 0 .. n |-> IF i = 0 THEN <<>>
                                  ELSE IF list[i] \in K THEN rest[i - 1]
                                       ELSE Append(rest[i - 1], list[i])]
    BY <1>12, Zenon
  <2>2. \A i \in 1 .. n : i \in 0 .. n /\ i # 0
    BY <1>2
  <2> HIDE DEF Loop
  <2> QED BY <1>4, <2>1, <2>2, Zenon
<1> HIDE DEF Loop
<1>14. \A i \in 0 .. n : i \in {j \in 0 .. n : rest[j] \in Seq(T)}
  <2> DEFINE G == {j \in 0 .. n : rest[j] \in Seq(T)}
  <2>1. 0 \in G
    BY <1>4, <1>7, <1>13
  <2>2. ASSUME NEW i \in 1 .. n, i - 1 \in G
        PROVE  i \in G
    <3>1. rest[i - 1] \in Seq(T) /\ list[i] \in T /\ i \in 0 .. n
      BY <1>2, <2>2
    <3>2. Append(rest[i - 1], list[i]) \in Seq(T)
      BY <3>1
    <3> QED BY <1>13, <3>1, <3>2
  <2> HIDE DEF G
  <2>3. \A i \in 0 .. n : i \in G
    BY <1>2, <2>1, <2>2, UpTo, Zenon
  <2> QED BY <2>3 DEF G
<1>15. rest \in [0 .. n -> Seq(T)]
  BY <1>13, <1>14
<1>16. Rests(rest, T, list, K)
  BY <1>3, <1>13, <1>15, Zenon DEF Rests
<1> QED BY <1>1, <1>3, <1>16, Zenon

LEMMA DropNothing ==
  ASSUME NEW K
  PROVE  Dropped(<<>>, K) = <<>>
<1>1. <<>> \in Seq({}) /\ Len(<<>>) = 0
  OBVIOUS
<1>2. PICK r : Rests(r, {}, <<>>, K) /\ Dropped(<<>>, K) = r[Len(<<>>)]
  BY <1>1, DropRuns
<1> QED BY <1>1, <1>2 DEF Rests

\* What is left of a list and one more member.
LEMMA DropAppend ==
  ASSUME NEW T, NEW list \in Seq(T), NEW x \in T, NEW K
  PROVE  Dropped(Append(list, x), K) =
           IF x \in K THEN Dropped(list, K) ELSE Append(Dropped(list, K), x)
<1> DEFINE long == Append(list, x)
           n    == Len(list)
<1>1. /\ long \in Seq(T) /\ Len(long) = n + 1 /\ n \in Nat
      /\ long[n + 1] = x /\ \A i \in 1 .. n : long[i] = list[i]
  OBVIOUS
<1>2. PICK r : Rests(r, T, list, K) /\ Dropped(list, K) = r[Len(list)]
  BY DropRuns
<1> HIDE DEF long
<1>3. PICK q : Rests(q, T, long, K) /\ Dropped(long, K) = q[Len(long)]
  BY <1>1, DropRuns
<1>4. /\ r[0] = <<>> /\ q[0] = <<>>
      /\ \A i \in 1 .. n :
           r[i] = IF list[i] \in K THEN r[i - 1] ELSE Append(r[i - 1], list[i])
      /\ \A i \in 1 .. n + 1 :
           q[i] = IF long[i] \in K THEN q[i - 1] ELSE Append(q[i - 1], long[i])
  BY <1>1, <1>2, <1>3 DEF Rests
<1>5. \A i \in 0 .. n : i \in {j \in 0 .. n : q[j] = r[j]}
  <2> DEFINE G == {j \in 0 .. n : q[j] = r[j]}
  <2>1. 0 \in G
    BY <1>1, <1>4
  <2>2. ASSUME NEW i \in 1 .. n, i - 1 \in G
        PROVE  i \in G
    <3>1. q[i - 1] = r[i - 1] /\ long[i] = list[i] /\ i \in 1 .. n + 1 /\ i \in 0 .. n
      BY <1>1, <2>2
    <3> QED BY <1>4, <3>1
  <2> HIDE DEF G
  <2>3. \A i \in 0 .. n : i \in G
    BY <1>1, <2>1, <2>2, UpTo, Zenon
  <2> QED BY <2>3 DEF G
<1>6. n \in 0 .. n /\ n + 1 \in 1 .. n + 1 /\ (n + 1) - 1 = n
  BY <1>1
<1>7. q[n] = r[n]
  BY <1>5, <1>6
<1>8. q[n + 1] = IF long[n + 1] \in K THEN q[n] ELSE Append(q[n], long[n + 1])
  BY <1>4, <1>6
<1>9. Dropped(long, K) = IF x \in K THEN Dropped(list, K) ELSE Append(Dropped(list, K), x)
  BY <1>1, <1>2, <1>3, <1>7, <1>8, Zenon
<1> QED BY <1>9 DEF long

LEMMA DropType ==
  ASSUME NEW T, NEW list \in Seq(T), NEW K
  PROVE  Dropped(list, K) \in Seq(T)
<1>1. PICK r : Rests(r, T, list, K) /\ Dropped(list, K) = r[Len(list)]
  BY DropRuns
<1>2. Len(list) \in 0 .. Len(list)
  OBVIOUS
<1> QED BY <1>1, <1>2 DEF Rests

\* Dropping twice drops both.
LEMMA DropTwice ==
  ASSUME NEW T, NEW list \in Seq(T), NEW J, NEW K
  PROVE  Dropped(Dropped(list, J), K) = Dropped(list, J \cup K)
<1> DEFINE n == Len(list)
<1>1. n \in Nat /\ n \in 0 .. n /\ \A i \in 1 .. n : list[i] \in T
  OBVIOUS
<1>2. PICK r : Rests(r, T, list, J) /\ Dropped(list, J) = r[Len(list)]
  BY DropRuns
<1>3. PICK q : Rests(q, T, list, J \cup K) /\ Dropped(list, J \cup K) = q[Len(list)]
  BY DropRuns
<1>4. /\ r \in [0 .. n -> Seq(T)] /\ r[0] = <<>> /\ q[0] = <<>>
      /\ \A i \in 1 .. n :
           r[i] = IF list[i] \in J THEN r[i - 1] ELSE Append(r[i - 1], list[i])
      /\ \A i \in 1 .. n :
           q[i] = IF list[i] \in J \cup K THEN q[i - 1] ELSE Append(q[i - 1], list[i])
  BY <1>2, <1>3 DEF Rests
<1>5. n = Len(list)
  OBVIOUS
<1> HIDE DEF n
<1>6. \A i \in 0 .. n : i \in {j \in 0 .. n : Dropped(r[j], K) = q[j]}
  <2> DEFINE G == {j \in 0 .. n : Dropped(r[j], K) = q[j]}
  <2>1. 0 \in G
    <3>1. 0 \in 0 .. n
      BY <1>1
    <3> QED BY <1>4, <3>1, DropNothing, Zenon
  <2>2. ASSUME NEW i \in 1 .. n, i - 1 \in G
        PROVE  i \in G
    <3>1. Dropped(r[i - 1], K) = q[i - 1] /\ i \in 0 .. n /\ i - 1 \in 0 .. n
      BY <1>1, <2>2
    <3>2. r[i - 1] \in Seq(T) /\ list[i] \in T
      BY <1>1, <1>4, <3>1
    <3>3. CASE list[i] \in J
      <4>1. r[i] = r[i - 1] /\ q[i] = q[i - 1]
        BY <1>4, <3>3
      <4> QED BY <3>1, <4>1
    <3>4. CASE list[i] \notin J
      <4>1. r[i] = Append(r[i - 1], list[i])
        BY <1>4, <3>4
      <4>2. q[i] = IF list[i] \in K THEN q[i - 1] ELSE Append(q[i - 1], list[i])
        BY <1>4, <3>4
      <4>3. Dropped(Append(r[i - 1], list[i]), K) =
              IF list[i] \in K THEN Dropped(r[i - 1], K)
              ELSE Append(Dropped(r[i - 1], K), list[i])
        <5> DEFINE t == r[i - 1]
                   x == list[i]
        <5>1. t \in Seq(T) /\ x \in T
          BY <3>2
        <5> HIDE DEF t, x
        <5>2. Dropped(Append(t, x), K) =
                IF x \in K THEN Dropped(t, K) ELSE Append(Dropped(t, K), x)
          BY <5>1, DropAppend
        <5> QED BY <5>2 DEF t, x
      <4>4. Dropped(Append(r[i - 1], list[i]), K) = q[i]
        BY <3>1, <4>2, <4>3
      <4>5. Dropped(r[i], K) = q[i]
        BY <4>1, <4>4, Zenon
      <4> QED BY <3>1, <4>5
    <3> QED BY <3>3, <3>4
  <2> HIDE DEF G
  <2>3. \A i \in 0 .. n : i \in G
    BY <1>1, <2>1, <2>2, UpTo, Zenon
  <2> QED BY <2>3 DEF G
<1>7. Dropped(r[n], K) = q[n]
  BY <1>1, <1>6
<1> QED BY <1>2, <1>3, <1>5, <1>7, Zenon

\* The members that are left, and no more of them than there were.
LEMMA DropMembers ==
  ASSUME NEW T, NEW list \in Seq(T), NEW K
  PROVE  /\ Range(Dropped(list, K)) = Range(list) \ K
         /\ Len(Dropped(list, K)) <= Len(list)
<1> DEFINE n == Len(list)
<1>1. n \in Nat /\ n \in 0 .. n /\ n = Len(list) /\ \A i \in 1 .. n : list[i] \in T
  OBVIOUS
<1>2. PICK r : Rests(r, T, list, K) /\ Dropped(list, K) = r[Len(list)]
  BY DropRuns
<1>3. /\ r \in [0 .. n -> Seq(T)] /\ r[0] = <<>>
      /\ \A i \in 1 .. n :
           r[i] = IF list[i] \in K THEN r[i - 1] ELSE Append(r[i - 1], list[i])
  BY <1>2 DEF Rests
<1>r. Range(list) = {list[j] : j \in 1 .. n}
  BY DEF Range
<1> HIDE DEF n
<1> DEFINE G == {i \in 0 .. n : /\ Range(r[i]) = {list[j] : j \in 1 .. i} \ K
                                /\ Len(r[i]) <= i}
<1>4. 0 \in G
  <2>1. 0 \in 0 .. n /\ Range(<<>>) = {} /\ Len(<<>>) <= 0
    BY <1>1 DEF Range
  <2>2. {list[j] : j \in 1 .. 0} = {}
    OBVIOUS
  <2> QED BY <1>3, <2>1, <2>2
<1>5. ASSUME NEW i \in 1 .. n, i - 1 \in G
      PROVE  i \in G
  <2>1. /\ Range(r[i - 1]) = {list[j] : j \in 1 .. i - 1} \ K
        /\ Len(r[i - 1]) <= i - 1 /\ i \in 0 .. n /\ i - 1 \in 0 .. n
    BY <1>1, <1>5
  <2>2. r[i - 1] \in Seq(T) /\ list[i] \in T
    BY <1>1, <1>3, <2>1
  <2>3. {list[j] : j \in 1 .. i} = {list[j] : j \in 1 .. i - 1} \cup {list[i]}
    <3>1. 1 .. i = 1 .. i - 1 \cup {i}
      BY <1>1
    <3> QED BY <3>1
  <2>4. CASE list[i] \in K
    <3>1. r[i] = r[i - 1] /\ Len(r[i - 1]) \in Nat
      BY <1>3, <2>2, <2>4
    <3>2. Len(r[i]) <= i
      BY <1>1, <2>1, <3>1
    <3>3. Range(r[i]) = {list[j] : j \in 1 .. i} \ K
      BY <2>1, <2>3, <2>4, <3>1
    <3> QED BY <2>1, <3>2, <3>3
  <2>5. CASE list[i] \notin K
    <3>1. r[i] = Append(r[i - 1], list[i])
      BY <1>3, <2>5
    <3>2. Len(r[i]) <= i
      BY <1>1, <2>1, <2>2, <3>1
    <3>3. Range(r[i]) = Range(r[i - 1]) \cup {list[i]}
      <4> DEFINE t == r[i - 1]
                 x == list[i]
      <4>1. t \in Seq(T) /\ x \in T
        BY <2>2
      <4> HIDE DEF t, x
      <4>2. Range(Append(t, x)) = Range(t) \cup {x}
        BY <4>1, AppendRange
      <4> QED BY <3>1, <4>2 DEF t, x
    <3>4. Range(r[i]) = {list[j] : j \in 1 .. i} \ K
      BY <2>1, <2>3, <2>5, <3>3, Zenon
    <3> QED BY <2>1, <3>2, <3>4
  <2> QED BY <2>4, <2>5
<1> HIDE DEF G
<1>6. \A i \in 0 .. n : i \in G
  BY <1>1, <1>4, <1>5, UpTo, Zenon
<1>7. /\ Range(r[n]) = {list[j] : j \in 1 .. n} \ K
      /\ Len(r[n]) <= n
  BY <1>1, <1>6 DEF G
<1> QED BY <1>1, <1>2, <1>r, <1>7, Zenon

\* Nothing to drop.
LEMMA DropNone ==
  ASSUME NEW T, NEW list \in Seq(T)
  PROVE  Dropped(list, {}) = list
<1> DEFINE n == Len(list)
           Prefix(i) == [j \in 1 .. i |-> list[j]]
<1>1. n \in Nat /\ n \in 0 .. n /\ n = Len(list) /\ \A i \in 1 .. n : list[i] \in T
  OBVIOUS
<1>2. PICK r : Rests(r, T, list, {}) /\ Dropped(list, {}) = r[Len(list)]
  BY DropRuns
<1>3. r[0] = <<>> /\ \A i \in 1 .. n : r[i] = Append(r[i - 1], list[i])
  BY <1>2 DEF Rests
<1>4. Prefix(n) = list
  BY <1>1
<1> HIDE DEF n
<1> DEFINE G == {i \in 0 .. n : r[i] = Prefix(i)}
<1>5. 0 \in G
  <2>1. Prefix(0) = <<>>
    OBVIOUS
  <2> QED BY <1>1, <1>3, <2>1
<1>6. ASSUME NEW i \in 1 .. n, i - 1 \in G
      PROVE  i \in G
  <2>1. r[i] = Append(Prefix(i - 1), list[i]) /\ i \in 0 .. n /\ i \in Nat /\ i - 1 \in Nat
    BY <1>1, <1>3, <1>6
  <2>2. \A j \in 1 .. i - 1 : list[j] \in T
    BY <1>1
  <2>3. /\ Prefix(i - 1) \in Seq(T) /\ Len(Prefix(i - 1)) = i - 1
    BY <2>1, <2>2
  <2>4. Append(Prefix(i - 1), list[i]) = Prefix(i)
    BY <2>1, <2>3
  <2> QED BY <2>1, <2>4
<1> HIDE DEF G
<1>7. \A i \in 0 .. n : i \in G
  BY <1>1, <1>5, <1>6, UpTo, Zenon
<1>8. r[n] = Prefix(n)
  BY <1>1, <1>7 DEF G
<1> QED BY <1>1, <1>2, <1>4, <1>8, Zenon

-----------------------------------------------------------------------------
\* Schedulers.

Flag == BOOLEAN

Lists == [waiting : Seq(Key), active : Seq(Key), produced : [Key -> Nat], open : Flag]

SchedulerState == {s \in Lists : Len(s.active) <= ExecutionSeats}

\* A record with some of its fields replaced.
FieldsReplaced(s, w, a, p, o) ==
  /\ s = [waiting |-> s.waiting, active |-> s.active, produced |-> s.produced,
          open |-> s.open]
  /\ [s EXCEPT !.waiting = w] =
       [waiting |-> w, active |-> s.active, produced |-> s.produced, open |-> s.open]
  /\ [s EXCEPT !.produced = p] =
       [waiting |-> s.waiting, active |-> s.active, produced |-> p, open |-> s.open]
  /\ [s EXCEPT !.waiting = w, !.active = a] =
       [waiting |-> w, active |-> a, produced |-> s.produced, open |-> s.open]
  /\ [s EXCEPT !.active = a, !.waiting = w] =
       [waiting |-> w, active |-> a, produced |-> s.produced, open |-> s.open]
  /\ [s EXCEPT !.waiting = w, !.active = a, !.open = o] =
       [waiting |-> w, active |-> a, produced |-> s.produced, open |-> o]

LEMMA Replaced ==
  ASSUME NEW A, NEW B, NEW C, NEW D,
         NEW s \in [waiting : A, active : B, produced : C, open : D],
         NEW w \in A, NEW a \in B, NEW p \in C, NEW o \in D
  PROVE  FieldsReplaced(s, w, a, p, o)
<1>1. s = [waiting |-> s.waiting, active |-> s.active, produced |-> s.produced,
           open |-> s.open]
  OBVIOUS
<1> DEFINE u == [s EXCEPT !.waiting = w]
           v == [s EXCEPT !.active = a]
           t == [u EXCEPT !.active = a]
<1>2. u = [waiting |-> w, active |-> s.active, produced |-> s.produced, open |-> s.open]
  OBVIOUS
<1>3. v = [waiting |-> s.waiting, active |-> a, produced |-> s.produced, open |-> s.open]
  OBVIOUS
<1>4. [s EXCEPT !.produced = p] =
        [waiting |-> s.waiting, active |-> s.active, produced |-> p, open |-> s.open]
  OBVIOUS
<1>5. /\ [s EXCEPT !.waiting = w, !.active = a] = t
      /\ [s EXCEPT !.active = a, !.waiting = w] = [v EXCEPT !.waiting = w]
      /\ [s EXCEPT !.waiting = w, !.active = a, !.open = o] = [t EXCEPT !.open = o]
  OBVIOUS
<1>6. t = [waiting |-> w, active |-> a, produced |-> s.produced, open |-> s.open]
  <2> HIDE DEF u
  <2> QED BY <1>2
<1> HIDE DEF u, v, t
<1>7. [v EXCEPT !.waiting = w] =
        [waiting |-> w, active |-> a, produced |-> s.produced, open |-> s.open]
  BY <1>3
<1>8. [t EXCEPT !.open = o] =
        [waiting |-> w, active |-> a, produced |-> s.produced, open |-> o]
  BY <1>6
<1> QED BY <1>1, <1>2, <1>4, <1>5, <1>6, <1>7, <1>8, Zenon DEF u, FieldsReplaced

LEMMA ListsReplaced ==
  ASSUME NEW s \in Lists, NEW w \in Seq(Key), NEW a \in Seq(Key), NEW p \in [Key -> Nat],
         NEW o \in Flag
  PROVE  FieldsReplaced(s, w, a, p, o)
<1>1. s \in [waiting : Seq(Key), active : Seq(Key), produced : [Key -> Nat], open : Flag]
  BY DEF Lists
<1> QED BY <1>1, Replaced, Zenon

LEMMA SchedulerFields ==
  ASSUME NEW s \in SchedulerState
  PROVE  /\ s.waiting \in Seq(Key) /\ s.active \in Seq(Key)
         /\ s.produced \in [Key -> Nat] /\ s.open \in Flag
         /\ Len(s.active) \in Nat /\ Len(s.active) <= ExecutionSeats
         /\ s \in Lists
<1>1. s \in Lists /\ Len(s.active) <= ExecutionSeats
  BY DEF SchedulerState
<1> QED BY <1>1 DEF Lists

LEMMA SchedulerIs ==
  ASSUME NEW w \in Seq(Key), NEW a \in Seq(Key), NEW p \in [Key -> Nat], NEW o \in Flag,
         Len(a) <= ExecutionSeats
  PROVE  [waiting |-> w, active |-> a, produced |-> p, open |-> o] \in SchedulerState
<1> DEFINE r == [waiting |-> w, active |-> a, produced |-> p, open |-> o]
<1>1. r \in Lists
  BY DEF Lists
<1>2. r.active = a
  OBVIOUS
<1> QED BY <1>1, <1>2 DEF SchedulerState

LEMMA RangeKeys ==
  ASSUME NEW T, NEW list \in Seq(T)
  PROVE  Range(list) \subseteq T
  BY DEF Range

LEMMA KeysAreKeys ==
  ASSUME NEW s \in SchedulerState
  PROVE  Keys(s) \subseteq Key
  BY SchedulerFields, RangeKeys DEF Keys

LEMMA EmptyState == EmptyScheduler \in SchedulerState /\ Keys(EmptyScheduler) = {}
<1>1. <<>> \in Seq(Key) /\ Len(<<>>) <= ExecutionSeats /\ Range(<<>>) = {}
  BY IngressAssumption DEF Range
<1>2. [k \in Key |-> 0] \in [Key -> Nat]
  OBVIOUS
<1>3. TRUE \in Flag
  BY DEF Flag
<1>4. [waiting |-> <<>>, active |-> <<>>, produced |-> [k \in Key |-> 0], open |-> TRUE]
        \in SchedulerState
  BY <1>1, <1>2, <1>3, SchedulerIs, Zenon
<1> QED BY <1>1, <1>4 DEF EmptyScheduler, Keys

LEMMA SubmittedIs ==
  ASSUME NEW s \in SchedulerState, NEW k \in Key
  PROVE  Submitted(s, k) = [waiting |-> Append(s.waiting, k), active |-> s.active,
                            produced |-> s.produced, open |-> s.open]
<1>1. /\ s \in Lists /\ s.active \in Seq(Key) /\ s.produced \in [Key -> Nat]
      /\ s.open \in Flag /\ Append(s.waiting, k) \in Seq(Key)
  BY SchedulerFields, AppendRange
<1> QED BY <1>1, ListsReplaced DEF Submitted, FieldsReplaced

LEMMA SubmittedKeeps ==
  ASSUME NEW s \in SchedulerState, NEW k \in Key
  PROVE  /\ Submitted(s, k) \in SchedulerState
         /\ Keys(Submitted(s, k)) = Keys(s) \cup {k}
         /\ Submitted(s, k).produced = s.produced
<1>1. Append(s.waiting, k) \in Seq(Key) /\ Range(Append(s.waiting, k)) = Range(s.waiting) \cup {k}
  BY SchedulerFields, AppendRange
<1>2. Submitted(s, k) \in SchedulerState
  <2>1. /\ s.active \in Seq(Key) /\ s.produced \in [Key -> Nat] /\ s.open \in Flag
        /\ Len(s.active) <= ExecutionSeats
    BY SchedulerFields
  <2>2. [waiting |-> Append(s.waiting, k), active |-> s.active, produced |-> s.produced,
         open |-> s.open] \in SchedulerState
    BY <1>1, <2>1, SchedulerIs, Zenon
  <2> QED BY <2>2, SubmittedIs
<1> DEFINE t == Submitted(s, k)
<1>3. t = [waiting |-> Append(s.waiting, k), active |-> s.active, produced |-> s.produced,
           open |-> s.open]
  BY SubmittedIs
<1> HIDE DEF t
<1>4. Keys(t) = Keys(s) \cup {k} /\ t.produced = s.produced
  BY <1>1, <1>3 DEF Keys
<1> QED BY <1>2, <1>4 DEF t

LEMMA CancelledIs ==
  ASSUME NEW s \in SchedulerState, NEW K
  PROVE  Cancelled(s, K) = [waiting |-> Dropped(s.waiting, K), active |-> Dropped(s.active, K),
                            produced |-> s.produced, open |-> s.open]
<1>1. /\ s \in Lists /\ s.produced \in [Key -> Nat] /\ s.open \in Flag
      /\ Dropped(s.waiting, K) \in Seq(Key) /\ Dropped(s.active, K) \in Seq(Key)
  BY SchedulerFields, DropType
<1> QED BY <1>1, ListsReplaced DEF Cancelled, FieldsReplaced

LEMMA CancelledKeeps ==
  ASSUME NEW s \in SchedulerState, NEW K
  PROVE  /\ Cancelled(s, K) \in SchedulerState
         /\ Keys(Cancelled(s, K)) = Keys(s) \ K
         /\ Cancelled(s, K).produced = s.produced
<1>1. /\ Dropped(s.waiting, K) \in Seq(Key) /\ Dropped(s.active, K) \in Seq(Key)
      /\ Range(Dropped(s.waiting, K)) = Range(s.waiting) \ K
      /\ Range(Dropped(s.active, K)) = Range(s.active) \ K
      /\ Len(Dropped(s.active, K)) <= Len(s.active)
  BY SchedulerFields, DropType, DropMembers
<1>2. Len(Dropped(s.active, K)) <= ExecutionSeats
  <2>1. Len(Dropped(s.active, K)) \in Nat /\ ExecutionSeats \in Nat
    BY <1>1, IngressAssumption
  <2> QED BY <1>1, <2>1, SchedulerFields
<1>3. Cancelled(s, K) \in SchedulerState
  BY <1>1, <1>2, SchedulerFields, SchedulerIs, CancelledIs
<1> QED BY <1>1, <1>3, CancelledIs DEF Keys

LEMMA CancelledTwice ==
  ASSUME NEW s \in SchedulerState, NEW J, NEW K
  PROVE  Cancelled(Cancelled(s, J), K) = Cancelled(s, J \cup K)
<1> DEFINE t == Cancelled(s, J)
<1>1. t \in SchedulerState /\ t = [waiting |-> Dropped(s.waiting, J),
         active |-> Dropped(s.active, J), produced |-> s.produced, open |-> s.open]
  BY CancelledKeeps, CancelledIs
<1> HIDE DEF t
<1>2. Cancelled(t, K) = [waiting |-> Dropped(t.waiting, K), active |-> Dropped(t.active, K),
                         produced |-> t.produced, open |-> t.open]
  BY <1>1, CancelledIs
<1>3. /\ t.waiting = Dropped(s.waiting, J) /\ t.active = Dropped(s.active, J)
      /\ t.produced = s.produced /\ t.open = s.open
  BY <1>1
<1>4. /\ Dropped(Dropped(s.waiting, J), K) = Dropped(s.waiting, J \cup K)
      /\ Dropped(Dropped(s.active, J), K) = Dropped(s.active, J \cup K)
  BY SchedulerFields, DropTwice
<1>5. Cancelled(t, K) = Cancelled(s, J \cup K)
  BY <1>2, <1>3, <1>4, CancelledIs
<1> QED BY <1>5 DEF t

LEMMA CancelledNone ==
  ASSUME NEW s \in SchedulerState
  PROVE  Cancelled(s, {}) = s
<1>1. Dropped(s.waiting, {}) = s.waiting /\ Dropped(s.active, {}) = s.active
  BY SchedulerFields, DropNone
<1>2. s \in Lists /\ s.waiting \in Seq(Key) /\ s.active \in Seq(Key)
      /\ s.produced \in [Key -> Nat] /\ s.open \in Flag
  BY SchedulerFields
<1>3. s = [waiting |-> s.waiting, active |-> s.active, produced |-> s.produced,
           open |-> s.open]
  BY <1>2, ListsReplaced, Zenon DEF FieldsReplaced
<1> QED BY <1>1, <1>3, CancelledIs, Zenon

\* A key may be dropped before or after another one is submitted.
LEMMA SubmitCancelled ==
  ASSUME NEW s \in SchedulerState, NEW k \in Key, NEW K, k \notin K
  PROVE  Submitted(Cancelled(s, K), k) = Cancelled(Submitted(s, k), K)
<1> DEFINE t == Cancelled(s, K)
           u == Submitted(s, k)
<1>1. t \in SchedulerState /\ t = [waiting |-> Dropped(s.waiting, K),
         active |-> Dropped(s.active, K), produced |-> s.produced, open |-> s.open]
  BY CancelledKeeps, CancelledIs
<1>2. u \in SchedulerState /\ u = [waiting |-> Append(s.waiting, k), active |-> s.active,
                                   produced |-> s.produced, open |-> s.open]
  BY SubmittedIs, SubmittedKeeps
<1> HIDE DEF t, u
<1>3. Submitted(t, k) = [waiting |-> Append(Dropped(s.waiting, K), k),
         active |-> Dropped(s.active, K), produced |-> s.produced, open |-> s.open]
  BY <1>1 DEF Submitted
<1>4. Cancelled(u, K) = [waiting |-> Dropped(Append(s.waiting, k), K),
         active |-> Dropped(s.active, K), produced |-> s.produced, open |-> s.open]
  BY <1>2, CancelledIs
<1>5. Dropped(Append(s.waiting, k), K) = Append(Dropped(s.waiting, K), k)
  BY SchedulerFields, DropAppend
<1>6. Submitted(t, k) = Cancelled(u, K)
  BY <1>3, <1>4, <1>5
<1> QED BY <1>6 DEF t, u

LEMMA ConcatRange ==
  ASSUME NEW T, NEW a \in Seq(T), NEW b \in Seq(T)
  PROVE  /\ a \o b \in Seq(T) /\ Len(a \o b) = Len(a) + Len(b)
         /\ Range(a \o b) \subseteq Range(a) \cup Range(b)
<1>1. /\ a \o b \in Seq(T) /\ Len(a \o b) = Len(a) + Len(b)
      /\ \A i \in 1 .. Len(a) + Len(b) :
           (a \o b)[i] = IF i <= Len(a) THEN a[i] ELSE b[i - Len(a)]
  BY ConcatProperties
<1>2. ASSUME NEW i \in 1 .. Len(a) + Len(b)
      PROVE  (a \o b)[i] \in Range(a) \cup Range(b)
  <2>1. Len(a) \in Nat /\ Len(b) \in Nat /\ DOMAIN a = 1 .. Len(a) /\ DOMAIN b = 1 .. Len(b)
    BY LenProperties
  <2>2. CASE i <= Len(a)
    <3>1. i \in DOMAIN a /\ (a \o b)[i] = a[i]
      BY <1>1, <2>1, <2>2
    <3> QED BY <3>1 DEF Range
  <2>3. CASE ~(i <= Len(a))
    <3>1. i - Len(a) \in DOMAIN b /\ (a \o b)[i] = b[i - Len(a)]
      BY <1>1, <2>1, <2>3
    <3> QED BY <3>1 DEF Range
  <2> QED BY <2>2, <2>3
<1>3. DOMAIN (a \o b) = 1 .. Len(a) + Len(b)
  BY <1>1, LenProperties
<1>4. Range(a \o b) \subseteq Range(a) \cup Range(b)
  BY <1>2, <1>3 DEF Range
<1> QED BY <1>1, <1>4

LEMMA PartRange ==
  ASSUME NEW T, NEW s \in Seq(T), NEW i \in 1 .. Len(s) + 1, NEW j \in i - 1 .. Len(s)
  PROVE  /\ SubSeq(s, i, j) \in Seq(T) /\ Len(SubSeq(s, i, j)) = (j - i) + 1
         /\ Range(SubSeq(s, i, j)) \subseteq Range(s)
<1>1. Len(s) \in Nat /\ DOMAIN s = 1 .. Len(s) /\ \A n \in 1 .. Len(s) : s[n] \in T
  BY LenProperties, ElementOfSeq
<1>2. \A n \in i .. j : n \in 1 .. Len(s) /\ s[n] \in T
  BY <1>1
<1> DEFINE part == SubSeq(s, i, j)
<1>3. i \in Int /\ j \in Int /\ (i <= j => (j - i) + 1 \in Nat) /\ (~(i <= j) => (j - i) + 1 = 0)
  BY <1>1
<1>4. /\ part \in Seq(T) /\ Len(part) = IF i <= j THEN (j - i) + 1 ELSE 0
      /\ \A n \in 1 .. (j - i) + 1 : part[n] = s[(i + n) - 1]
  BY <1>2, <1>3, SubSeqProperties
<1> HIDE DEF part
<1>5. Len(part) = (j - i) + 1 /\ DOMAIN part = 1 .. (j - i) + 1
  BY <1>3, <1>4, LenProperties
<1>6. \A n \in 1 .. (j - i) + 1 : (i + n) - 1 \in DOMAIN s
  BY <1>1
<1>7. Range(part) \subseteq Range(s)
  BY <1>4, <1>5, <1>6 DEF Range
<1> QED BY <1>4, <1>5, <1>7 DEF part

LEMMA AdmittedKeeps ==
  ASSUME NEW s \in SchedulerState
  PROVE  /\ Admitted(s) \in SchedulerState
         /\ Keys(Admitted(s)) \subseteq Keys(s)
         /\ Admitted(s).produced = s.produced
<1>1. /\ s.waiting \in Seq(Key) /\ s.active \in Seq(Key)
      /\ Len(s.waiting) \in Nat /\ Len(s.active) \in Nat
      /\ ExecutionSeats \in Nat /\ Len(s.active) <= ExecutionSeats
  BY SchedulerFields, IngressAssumption
<1> DEFINE free == ExecutionSeats - Len(s.active)
           n == IF Len(s.waiting) < free THEN Len(s.waiting) ELSE free
           in == SubSeq(s.waiting, 1, n)
           out == SubSeq(s.waiting, n + 1, Len(s.waiting))
<1>2. Admitted(s) = [s EXCEPT !.active = s.active \o in, !.waiting = out]
  BY DEF Admitted
<1>3. n \in 0 .. Len(s.waiting) /\ Len(s.active) + n <= ExecutionSeats
  <2>1. \A w, a, e \in Nat : a <= e =>
          LET m == IF w < e - a THEN w ELSE e - a
          IN  m \in 0 .. w /\ a + m <= e
    OBVIOUS
  <2> QED BY <1>1, <2>1
<1> HIDE DEF n
<1>4. /\ 1 \in 1 .. Len(s.waiting) + 1 /\ n \in 1 - 1 .. Len(s.waiting)
      /\ n + 1 \in 1 .. Len(s.waiting) + 1
      /\ Len(s.waiting) \in (n + 1) - 1 .. Len(s.waiting)
      /\ (n - 1) + 1 = n
  BY <1>1, <1>3
<1>5. in \in Seq(Key) /\ Len(in) = n /\ Range(in) \subseteq Range(s.waiting)
  BY <1>1, <1>4, PartRange
<1>6. out \in Seq(Key) /\ Range(out) \subseteq Range(s.waiting)
  BY <1>1, <1>4, PartRange
<1> HIDE DEF in, out
<1>7. /\ s.active \o in \in Seq(Key) /\ Len(s.active \o in) = Len(s.active) + n
      /\ Range(s.active \o in) \subseteq Range(s.active) \cup Range(in)
  BY <1>1, <1>5, ConcatRange
<1> DEFINE a == s.active \o in
<1>8. a \in Seq(Key) /\ Len(a) <= ExecutionSeats
  BY <1>1, <1>3, <1>5, <1>7
<1>9. Range(a) \subseteq Range(s.active) \cup Range(s.waiting)
  BY <1>5, <1>7
<1>10. Admitted(s) = [s EXCEPT !.active = a, !.waiting = out]
  BY <1>2
<1> HIDE DEF a
<1>11. Admitted(s) = [waiting |-> out, active |-> a, produced |-> s.produced, open |-> s.open]
  BY <1>6, <1>8, <1>10, SchedulerFields, ListsReplaced, Zenon DEF FieldsReplaced
<1>12. Admitted(s) \in SchedulerState
  BY <1>6, <1>8, <1>11, SchedulerFields, SchedulerIs
<1> QED BY <1>6, <1>9, <1>11, <1>12 DEF Keys

LEMMA ProducedKeeps ==
  ASSUME NEW s \in SchedulerState, NEW wave \in SUBSET Key
  PROVE  /\ Produced(s, wave) \in SchedulerState
         /\ Keys(Produced(s, wave)) \subseteq Keys(s)
         /\ \A k \in Key : Produced(s, wave).produced[k] =
                             IF k \in wave THEN s.produced[k] + 1 ELSE s.produced[k]
<1> DEFINE t == Admitted(s)
           p == [k \in Key |-> IF k \in wave THEN s.produced[k] + 1 ELSE s.produced[k]]
<1>1. t \in SchedulerState /\ Keys(t) \subseteq Keys(s) /\ t.produced = s.produced
  BY AdmittedKeeps
<1>2. p \in [Key -> Nat]
  BY SchedulerFields
<1>3. Produced(s, wave) = [t EXCEPT !.produced =
                             [k \in Key |-> IF k \in wave THEN t.produced[k] + 1
                                                          ELSE t.produced[k]]]
  BY DEF Produced
<1> HIDE DEF t
<1>r. Produced(s, wave) = [t EXCEPT !.produced = p]
  BY <1>1, <1>3
<1>4. Produced(s, wave) = [waiting |-> t.waiting, active |-> t.active, produced |-> p,
                           open |-> t.open]
  <2> HIDE DEF p
  <2>1. t \in Lists /\ t.waiting \in Seq(Key) /\ t.active \in Seq(Key) /\ t.open \in Flag
    BY <1>1, SchedulerFields
  <2> QED BY <1>2, <1>r, <2>1, ListsReplaced, Zenon DEF FieldsReplaced
<1>5. Produced(s, wave) \in SchedulerState
  <2> HIDE DEF p
  <2>1. /\ t.waiting \in Seq(Key) /\ t.active \in Seq(Key) /\ t.open \in Flag
        /\ Len(t.active) <= ExecutionSeats
    BY <1>1, SchedulerFields
  <2> QED BY <1>2, <1>4, <2>1, SchedulerIs, Zenon
<1>6. Keys(Produced(s, wave)) = Keys(t)
  BY <1>4 DEF Keys
<1>7. Produced(s, wave).produced = p
  BY <1>4
<1> QED BY <1>1, <1>5, <1>6, <1>7

LEMMA TickedKeeps ==
  ASSUME NEW s \in SchedulerState, NEW wave \in SUBSET Key
  PROVE  /\ Ticked(s, wave) \in SchedulerState
         /\ Keys(Ticked(s, wave)) \subseteq Keys(s) \ Finished(Produced(s, wave))
         /\ Ticked(s, wave).produced = Produced(s, wave).produced
<1> DEFINE t == Produced(s, wave)
           F == Finished(t)
<1>1. t \in SchedulerState /\ Keys(t) \subseteq Keys(s)
  BY ProducedKeeps
<1>2. Ticked(s, wave) = Cancelled(t, F)
  BY DEF Ticked
<1> HIDE DEF t, F
<1>3. /\ Cancelled(t, F) \in SchedulerState /\ Keys(Cancelled(t, F)) = Keys(t) \ F
      /\ Cancelled(t, F).produced = t.produced
  BY <1>1, CancelledKeeps
<1>4. Keys(Ticked(s, wave)) \subseteq Keys(s) \ F /\ Ticked(s, wave).produced = t.produced
  BY <1>1, <1>2, <1>3
<1>5. Ticked(s, wave) \in SchedulerState
  BY <1>2, <1>3
<1> QED BY <1>4, <1>5 DEF t, F

LEMMA ClosedKeeps ==
  ASSUME NEW s \in SchedulerState
  PROVE  /\ Closed(s) \in SchedulerState /\ Keys(Closed(s)) = {}
         /\ Closed(s).produced = s.produced
<1>1. Closed(s) = [waiting |-> <<>>, active |-> <<>>, produced |-> s.produced, open |-> FALSE]
  <2> DEFINE o == FALSE
             e == <<>>
  <2>1. s \in Lists /\ e \in Seq(Key) /\ o \in Flag /\ s.produced \in [Key -> Nat]
    BY SchedulerFields DEF Flag
  <2>2. Closed(s) = [s EXCEPT !.waiting = e, !.active = e, !.open = o]
    BY DEF Closed
  <2> HIDE DEF o, e
  <2>3. [s EXCEPT !.waiting = e, !.active = e, !.open = o] =
          [waiting |-> e, active |-> e, produced |-> s.produced, open |-> o]
    <3>1. FieldsReplaced(s, e, e, s.produced, o)
      BY <2>1, ListsReplaced
    <3> QED BY <3>1 DEF FieldsReplaced
  <2> QED BY <2>2, <2>3 DEF o, e
<1>2. <<>> \in Seq(Key) /\ Len(<<>>) <= ExecutionSeats /\ Range(<<>>) = {}
  BY IngressAssumption DEF Range
<1>3. FALSE \in Flag
  BY DEF Flag
<1>4. [waiting |-> <<>>, active |-> <<>>, produced |-> s.produced, open |-> FALSE]
        \in SchedulerState
  BY <1>2, <1>3, SchedulerFields, SchedulerIs, Zenon
<1> QED BY <1>1, <1>2, <1>4 DEF Keys

\* A key that a scheduler takes is taken by one with fewer keys as well.
LEMMA CanSubmitFewer ==
  ASSUME NEW s \in SchedulerState, NEW t \in SchedulerState, NEW k \in Key,
         Keys(t) \subseteq Keys(s), CanSubmit(s, k)
  PROVE  CanSubmit(t, k)
<1>1. Keys(s) \in SUBSET Key /\ Keys(t) \in SUBSET Keys(s)
  BY KeysAreKeys
<1>2. IsFiniteSet(Key)
  BY IngressAssumption, FS_Interval DEF Key
<1>3. IsFiniteSet(Keys(s))
  BY <1>1, <1>2, FS_Subset
<1>4. Cardinality(Keys(t)) <= Cardinality(Keys(s)) /\ IsFiniteSet(Keys(t))
  BY <1>1, <1>3, FS_Subset
<1>5. Cardinality(Keys(t)) \in Nat /\ Cardinality(Keys(s)) \in Nat /\ MaxPending \in Nat
  BY <1>3, <1>4, FS_CardinalityType, IngressAssumption
<1> QED BY <1>1, <1>4, <1>5 DEF CanSubmit

-----------------------------------------------------------------------------
\* Commands.

Command == [kind : {"submit", "cancel"}, key : Key]

LEMMA ObeyedKeeps ==
  ASSUME NEW s \in SchedulerState, NEW c \in Command
  PROVE  Obeyed(s, c) \in SchedulerState
<1>1. c.key \in Key
  BY DEF Command
<1> QED BY <1>1, SubmittedKeeps, CancelledKeeps DEF Obeyed

LEMMA ReplaysRun ==
  ASSUME NEW s \in SchedulerState, NEW cmds \in Seq(Command)
  PROVE  /\ Replays(s, cmds) \in [0 .. Len(cmds) -> SchedulerState]
         /\ Replays(s, cmds)[0] = s
         /\ \A i \in 1 .. Len(cmds) :
              Replays(s, cmds)[i] = Obeyed(Replays(s, cmds)[i - 1], cmds[i])
         /\ Replayed(s, cmds) \in SchedulerState
<1> DEFINE n == Len(cmds)
           Loop(f) == f = [i \in 0 .. n |-> IF i = 0 THEN s ELSE Obeyed(f[i - 1], cmds[i])]
           after == CHOOSE f : Loop(f)
<1>1. Replays(s, cmds) = after
  BY DEF Replays
<1>2. n \in Nat /\ n = Len(cmds) /\ \A i \in 1 .. n : cmds[i] \in Command
  BY LenProperties, ElementOfSeq
<1> HIDE DEF n
<1>3. n \in 0 .. n /\ 0 \in 0 .. n
  BY <1>2
<1> DEFINE step == [x \in SchedulerState \X (1 .. n) |-> Obeyed(x[1], cmds[x[2]])]
<1>4. step \in [SchedulerState \X (1 .. n) -> SchedulerState]
  BY <1>2, ObeyedKeeps
<1>5. \A x \in SchedulerState : \A i \in 1 .. n : step[<<x, i>>] = Obeyed(x, cmds[i])
  OBVIOUS
<1> HIDE DEF step
<1>6. PICK f : Turns(f, SchedulerState, s, n, step)
  BY <1>2, <1>4, LoopRuns, Zenon
<1>7. f \in [0 .. n -> SchedulerState] /\ f[0] = s
      /\ \A i \in 1 .. n : f[i] = step[<<f[i - 1], i>>]
  BY <1>6 DEF Turns
<1>8. \A i \in 1 .. n : f[i] = Obeyed(f[i - 1], cmds[i])
  <2>1. \A i \in 1 .. n : f[i - 1] \in SchedulerState
    BY <1>2, <1>7
  <2> QED BY <1>5, <1>7, <2>1, Zenon
<1>9. Loop(f)
  <2>1. \A i \in 0 .. n : f[i] = IF i = 0 THEN s ELSE Obeyed(f[i - 1], cmds[i])
    BY <1>2, <1>7, <1>8
  <2> QED BY <1>7, <2>1
<1>10. Loop(after)
  BY <1>9, Zenon
<1> HIDE DEF after
<1>11. /\ DOMAIN after = 0 .. n /\ after = [i \in 0 .. n |-> after[i]] /\ after[0] = s
       /\ \A i \in 1 .. n : after[i] = Obeyed(after[i - 1], cmds[i])
  <2>1. after = [i \in 0 .. n |-> IF i = 0 THEN s ELSE Obeyed(after[i - 1], cmds[i])]
    BY <1>10, Zenon
  <2>2. \A i \in 1 .. n : i \in 0 .. n /\ i # 0
    BY <1>2
  <2> HIDE DEF Loop
  <2> QED BY <1>3, <2>1, <2>2, Zenon
<1> HIDE DEF Loop
<1>12. \A i \in 0 .. n : i \in {j \in 0 .. n : after[j] \in SchedulerState}
  <2> DEFINE G == {j \in 0 .. n : after[j] \in SchedulerState}
  <2>1. 0 \in G
    BY <1>3, <1>11
  <2>2. ASSUME NEW i \in 1 .. n, i - 1 \in G
        PROVE  i \in G
    <3>1. after[i - 1] \in SchedulerState /\ cmds[i] \in Command /\ i \in 0 .. n
      BY <1>2, <2>2
    <3>2. after[i] \in SchedulerState
      BY <1>11, <3>1, ObeyedKeeps
    <3> QED BY <3>1, <3>2
  <2> HIDE DEF G
  <2>3. \A i \in 0 .. n : i \in G
    BY <1>2, <2>1, <2>2, UpTo, Zenon
  <2> QED BY <2>3 DEF G
<1>13. after \in [0 .. n -> SchedulerState]
  BY <1>11, <1>12
<1>14. after[n] \in SchedulerState
  BY <1>3, <1>13
<1> QED BY <1>1, <1>2, <1>11, <1>13, <1>14 DEF Replayed

LEMMA ReplaysAppend ==
  ASSUME NEW s \in SchedulerState, NEW cmds \in Seq(Command), NEW c \in Command
  PROVE  /\ \A i \in 0 .. Len(cmds) :
              Replays(s, Append(cmds, c))[i] = Replays(s, cmds)[i]
         /\ Replayed(s, Append(cmds, c)) = Obeyed(Replayed(s, cmds), c)
<1> DEFINE long == Append(cmds, c)
           n == Len(cmds)
           r == Replays(s, cmds)
           q == Replays(s, long)
<1>1. /\ long \in Seq(Command) /\ Len(long) = n + 1 /\ n \in Nat /\ n = Len(cmds)
      /\ long[n + 1] = c /\ \A i \in 1 .. n : long[i] = cmds[i]
  BY AppendRange
<1> HIDE DEF n
<1>2. r[0] = s /\ \A i \in 1 .. n : r[i] = Obeyed(r[i - 1], cmds[i])
  BY <1>1, ReplaysRun
<1> HIDE DEF long
<1>3. q[0] = s /\ \A i \in 1 .. n + 1 : q[i] = Obeyed(q[i - 1], long[i])
  BY <1>1, ReplaysRun
<1>4. Replayed(s, cmds) = r[n] /\ Replayed(s, long) = q[n + 1]
  BY <1>1 DEF Replayed
<1> HIDE DEF r, q
<1> DEFINE G == {j \in 0 .. n : q[j] = r[j]}
<1>5. 0 \in G
  BY <1>1, <1>2, <1>3
<1>6. ASSUME NEW i \in 1 .. n, i - 1 \in G
      PROVE  i \in G
  <2>1. q[i - 1] = r[i - 1] /\ long[i] = cmds[i] /\ i \in 1 .. n + 1 /\ i \in 0 .. n
    BY <1>1, <1>6
  <2> QED BY <1>2, <1>3, <2>1
<1> HIDE DEF G
<1>7. \A i \in 0 .. n : i \in G
  BY <1>1, <1>5, <1>6, UpTo, Zenon
<1>8. \A i \in 0 .. n : q[i] = r[i]
  BY <1>7 DEF G
<1>9. n \in 0 .. n /\ n + 1 \in 1 .. n + 1 /\ (n + 1) - 1 = n
  BY <1>1
<1>10. q[n + 1] = Obeyed(r[n], c)
  BY <1>1, <1>3, <1>8, <1>9
<1> QED BY <1>1, <1>4, <1>8, <1>10 DEF q, r, long

\* A rank in state s takes the decisions of a leader that ticks from `before`.
InStep(s, cmds, before) ==
  /\ Replayed(s, cmds) = before
  /\ \A i \in DOMAIN cmds :
       cmds[i].kind = "submit" => CanSubmit(Replays(s, cmds)[i - 1], cmds[i].key)

LEMMA InStepNothing ==
  ASSUME NEW s \in SchedulerState
  PROVE  InStep(s, <<>>, s)
<1>1. <<>> \in Seq(Command) /\ Len(<<>>) = 0 /\ DOMAIN <<>> = {}
  OBVIOUS
<1>2. Replays(s, <<>>)[0] = s
  BY <1>1, ReplaysRun
<1> QED BY <1>1, <1>2 DEF InStep, Replayed

LEMMA InStepAppend ==
  ASSUME NEW s \in SchedulerState, NEW cmds \in Seq(Command), NEW c \in Command,
         NEW before, InStep(s, cmds, before),
         c.kind = "submit" => CanSubmit(before, c.key)
  PROVE  InStep(s, Append(cmds, c), Obeyed(before, c))
<1> DEFINE long == Append(cmds, c)
           n == Len(cmds)
<1>1. /\ Len(long) = n + 1 /\ n \in Nat /\ DOMAIN long = 1 .. n + 1 /\ DOMAIN cmds = 1 .. n
      /\ long[n + 1] = c /\ \A i \in 1 .. n : long[i] = cmds[i]
  BY AppendRange, LenProperties
<1>2. /\ \A i \in 0 .. n : Replays(s, long)[i] = Replays(s, cmds)[i]
      /\ Replayed(s, long) = Obeyed(Replayed(s, cmds), c)
  BY ReplaysAppend
<1>3. /\ Replayed(s, cmds) = before /\ Replays(s, cmds)[n] = before
      /\ \A i \in 1 .. n : cmds[i].kind = "submit"
                             => CanSubmit(Replays(s, cmds)[i - 1], cmds[i].key)
  BY <1>1 DEF InStep, Replayed
<1> HIDE DEF long, n
<1>4. ASSUME NEW i \in 1 .. n + 1, long[i].kind = "submit"
      PROVE  CanSubmit(Replays(s, long)[i - 1], long[i].key)
  <2>1. CASE i \in 1 .. n
    <3>1. i - 1 \in 0 .. n /\ long[i] = cmds[i]
      BY <1>1, <2>1
    <3>2. Replays(s, long)[i - 1] = Replays(s, cmds)[i - 1]
      BY <1>2, <3>1
    <3> QED BY <1>3, <1>4, <2>1, <3>1, <3>2
  <2>2. CASE i = n + 1
    <3>1. i - 1 = n /\ n \in 0 .. n /\ long[i] = c
      BY <1>1, <2>2
    <3>2. Replays(s, long)[i - 1] = before
      BY <1>2, <1>3, <3>1
    <3> QED BY <1>4, <3>1, <3>2
  <2> QED BY <1>1, <2>1, <2>2
<1>5. InStep(s, long, Obeyed(before, c))
  BY <1>1, <1>2, <1>3, <1>4 DEF InStep
<1> QED BY <1>5 DEF long

LEMMA CancelledKeysAppend ==
  ASSUME NEW cmds \in Seq(Command), NEW c \in Command
  PROVE  CancelledKeys(Append(cmds, c)) =
           IF c.kind = "cancel" THEN CancelledKeys(cmds) \cup {c.key} ELSE CancelledKeys(cmds)
<1>1. Range(Append(cmds, c)) = Range(cmds) \cup {c}
  BY AppendRange
<1> QED BY <1>1 DEF CancelledKeys

LEMMA NoCommands == CancelledKeys(<<>>) = {}
  BY DEF CancelledKeys, Range

-----------------------------------------------------------------------------
\* What a follower still has to do: it is in state s and its batches are q.

TurnMessage ==
  [kind : {"turn"}, commands : Seq(Command), wave : SUBSET Key, before : SchedulerState]

Message == TurnMessage \cup {Stop}

\* The state in which the follower comes to its i-th batch.
Start(q, s, i) == IF i = 1 THEN s ELSE Ticked(q[i - 1].before, q[i - 1].wave)

InLine(q, s) ==
  \A i \in 1 .. Len(q) :
    q[i].kind = "turn" => InStep(Start(q, s, i), q[i].commands, q[i].before)

\* Nothing is sent after a stop.
StopsLast(q) == \A i \in 1 .. Len(q) : q[i].kind = "stop" => i = Len(q)

LEMMA MessageKinds ==
  /\ Stop \in Message /\ Stop.kind = "stop"
  /\ \A m \in Message : m.kind \in {"turn", "stop"} /\ (m.kind = "turn" => m \in TurnMessage)
BY DEF Message, TurnMessage, Stop

LEMMA TurnIs ==
  ASSUME NEW cmds \in Seq(Command), NEW wave \in SUBSET Key, NEW before \in SchedulerState
  PROVE  /\ Turn(cmds, wave, before) \in TurnMessage
         /\ Turn(cmds, wave, before) \in Message
         /\ Turn(cmds, wave, before).kind = "turn"
         /\ Turn(cmds, wave, before).commands = cmds
         /\ Turn(cmds, wave, before).wave = wave
         /\ Turn(cmds, wave, before).before = before
BY DEF Turn, TurnMessage, Message

LEMMA TurnFields ==
  ASSUME NEW m \in TurnMessage
  PROVE  /\ m.commands \in Seq(Command) /\ m.wave \in SUBSET Key /\ m.before \in SchedulerState
         /\ m.kind = "turn"
BY DEF TurnMessage

LEMMA StartAppend ==
  ASSUME NEW q \in Seq(Message), NEW s, NEW m \in Message
  PROVE  \A i \in 1 .. Len(q) + 1 : Start(Append(q, m), s, i) = Start(q, s, i)
<1> DEFINE p == Append(q, m)
<1>1. \A i \in 1 .. Len(q) : p[i] = q[i]
  BY AppendRange
<1>2. Len(q) \in Nat
  BY LenProperties
<1> HIDE DEF p
<1>3. ASSUME NEW i \in 1 .. Len(q) + 1, i # 1
      PROVE  p[i - 1] = q[i - 1]
  <2>1. i - 1 \in 1 .. Len(q)
    BY <1>2, <1>3
  <2> QED BY <1>1, <2>1
<1>4. \A i \in 1 .. Len(q) + 1 : Start(p, s, i) = Start(q, s, i)
  BY <1>3 DEF Start
<1> QED BY <1>4 DEF p

LEMMA LineAppend ==
  ASSUME NEW q \in Seq(Message), NEW s, NEW m \in Message, InLine(q, s),
         m.kind = "turn" => InStep(Start(q, s, Len(q) + 1), m.commands, m.before)
  PROVE  /\ InLine(Append(q, m), s)
         /\ Start(Append(q, m), s, Len(q) + 2) = Ticked(m.before, m.wave)
<1> DEFINE p == Append(q, m)
           n == Len(q)
<1>1. /\ \A i \in 1 .. n : p[i] = q[i]
      /\ p[n + 1] = m /\ Len(p) = n + 1 /\ n \in Nat
  BY AppendRange, LenProperties
<1>2. \A i \in 1 .. n + 1 : Start(p, s, i) = Start(q, s, i)
  BY StartAppend
<1>3. /\ \A i \in 1 .. n : q[i].kind = "turn" => InStep(Start(q, s, i), q[i].commands, q[i].before)
      /\ m.kind = "turn" => InStep(Start(q, s, n + 1), m.commands, m.before)
  BY DEF InLine
<1> HIDE DEF p, n
<1>4. ASSUME NEW i \in 1 .. n + 1, p[i].kind = "turn"
      PROVE  InStep(Start(p, s, i), p[i].commands, p[i].before)
  <2>1. CASE i \in 1 .. n
    BY <1>1, <1>2, <1>3, <1>4, <2>1
  <2>2. CASE i = n + 1
    BY <1>1, <1>2, <1>3, <1>4, <2>2
  <2> QED BY <1>1, <2>1, <2>2
<1>5. InLine(p, s)
  BY <1>1, <1>4 DEF InLine
<1>6. Start(p, s, n + 2) = Ticked(m.before, m.wave)
  <2>1. n + 2 # 1 /\ (n + 2) - 1 = n + 1
    BY <1>1
  <2> QED BY <1>1, <2>1 DEF Start
<1> QED BY <1>5, <1>6 DEF p, n

LEMMA StopsAppend ==
  ASSUME NEW q \in Seq(Message), NEW m \in Message, \A i \in 1 .. Len(q) : q[i].kind # "stop"
  PROVE  StopsLast(Append(q, m))
<1> DEFINE p == Append(q, m)
<1>1. \A i \in 1 .. Len(q) : p[i] = q[i]
  BY AppendRange
<1>2. Len(p) = Len(q) + 1 /\ Len(q) \in Nat
  BY AppendRange, LenProperties
<1> HIDE DEF p
<1>3. \A i \in 1 .. Len(p) : i \in 1 .. Len(q) \/ i = Len(p)
  BY <1>2
<1>4. StopsLast(p)
  BY <1>1, <1>3 DEF StopsLast
<1> QED BY <1>4 DEF p

LEMMA LineTail ==
  ASSUME NEW q \in Seq(Message), NEW s \in SchedulerState, q # <<>>, InLine(q, s),
         q[1].kind = "turn"
  PROVE  LET t == Ticked(Replayed(s, q[1].commands), q[1].wave)
         IN  /\ InLine(Tail(q), t)
             /\ Start(Tail(q), t, Len(Tail(q)) + 1) = Start(q, s, Len(q) + 1)
<1> DEFINE t == Ticked(Replayed(s, q[1].commands), q[1].wave)
           p == Tail(q)
           n == Len(q)
<1>1. /\ n \in Nat /\ n >= 1 /\ Len(p) = n - 1
      /\ \A i \in 1 .. n - 1 : p[i] = q[i + 1]
  BY HeadTailProperties, LenProperties, EmptySeq
<1>2. \A i \in 1 .. n : q[i].kind = "turn" => InStep(Start(q, s, i), q[i].commands, q[i].before)
  BY DEF InLine
<1> HIDE DEF n, p
<1>3. t = Ticked(q[1].before, q[1].wave)
  <2>1. 1 \in 1 .. n
    BY <1>1
  <2>2. InStep(Start(q, s, 1), q[1].commands, q[1].before)
    BY <1>2, <2>1
  <2>3. Replayed(s, q[1].commands) = q[1].before
    BY <2>2 DEF InStep, Start
  <2> QED BY <2>3
<1> HIDE DEF t
<1>4. \A i \in 1 .. n : Start(p, t, i) = Start(q, s, i + 1)
  <2> SUFFICES ASSUME NEW i \in 1 .. n
               PROVE  Start(p, t, i) = Start(q, s, i + 1)
    OBVIOUS
  <2>0. i + 1 # 1 /\ (i + 1) - 1 = i
    BY <1>1
  <2>1. CASE i = 1
    BY <1>3, <2>0, <2>1 DEF Start
  <2>2. CASE i # 1
    <3>1. i - 1 \in 1 .. n - 1 /\ (i - 1) + 1 = i
      BY <1>1, <2>2
    <3>2. p[i - 1] = q[i]
      BY <1>1, <3>1
    <3> QED BY <2>0, <2>2, <3>2 DEF Start
  <2> QED BY <2>1, <2>2
<1>5. ASSUME NEW i \in 1 .. Len(p), p[i].kind = "turn"
      PROVE  InStep(Start(p, t, i), p[i].commands, p[i].before)
  <2>1. i \in 1 .. n - 1 /\ i + 1 \in 1 .. n /\ i \in 1 .. n
    BY <1>1
  <2>2. p[i] = q[i + 1] /\ Start(p, t, i) = Start(q, s, i + 1)
    BY <1>1, <1>4, <2>1
  <2> QED BY <1>2, <1>5, <2>1, <2>2
<1>6. InLine(p, t)
  BY <1>5 DEF InLine
<1>7. Start(p, t, Len(p) + 1) = Start(q, s, n + 1)
  <2>1. Len(p) + 1 = n /\ n \in 1 .. n
    BY <1>1
  <2> QED BY <1>4, <2>1
<1> QED BY <1>6, <1>7 DEF t, p, n

LEMMA StopsTail ==
  ASSUME NEW q \in Seq(Message), q # <<>>, StopsLast(q)
  PROVE  /\ Tail(q) \in Seq(Message) /\ StopsLast(Tail(q))
         /\ q[1] \in Message /\ Head(q) = q[1]
         /\ q[1].kind = "stop" => Tail(q) = <<>>
         /\ \A i \in 1 .. Len(Tail(q)) :
              Tail(q)[i].kind = "stop" => \E j \in 1 .. Len(q) : q[j].kind = "stop"
<1> DEFINE p == Tail(q)
           n == Len(q)
<1>1. /\ n \in Nat /\ n >= 1 /\ Len(p) = n - 1 /\ p \in Seq(Message)
      /\ \A i \in 1 .. n - 1 : p[i] = q[i + 1]
      /\ Head(q) = q[1] /\ q[1] \in Message
  BY HeadTailProperties, LenProperties, EmptySeq, ElementOfSeq
<1>2. \A i \in 1 .. n : q[i].kind = "stop" => i = n
  BY DEF StopsLast
<1> HIDE DEF n, p
<1>3. \A i \in 1 .. Len(p) : i \in 1 .. n - 1 /\ i + 1 \in 1 .. n /\ (i + 1 = n => i = Len(p))
  BY <1>1
<1>4. StopsLast(p)
  BY <1>1, <1>2, <1>3 DEF StopsLast
<1>5. q[1].kind = "stop" => p = <<>>
  <2> SUFFICES ASSUME q[1].kind = "stop" PROVE p = <<>>
    OBVIOUS
  <2>1. 1 \in 1 .. n
    BY <1>1
  <2>2. 1 = n
    BY <1>2, <2>1
  <2>3. Len(p) = 0
    BY <1>1, <2>2
  <2> QED BY <1>1, <2>3, EmptySeq
<1>6. \A i \in 1 .. Len(p) : p[i].kind = "stop" => \E j \in 1 .. n : q[j].kind = "stop"
  BY <1>1, <1>3
<1> QED BY <1>1, <1>4, <1>5, <1>6 DEF p, n

-----------------------------------------------------------------------------
\* The inductive invariant.

PumpState == {"waiting", "sleeping", "failed", "stopped"}

TaskState == {"absent", "awaiting", "returned", "failed", "cancelled"}

FutureState == {"none", "pending", "cancelled", "overtaken", "result", "exception"}

ClientState ==
  {"absent", "watching", "sending", "polling", "answered", "differs", "refused", "gone"}

Client == [state : ClientState, pending : Seq(Nat), output : Seq(Nat), changed : Flag]

RanksTyped ==
  /\ scheduler \in SchedulerState
  /\ commands \in Seq(Command)
  /\ pump \in PumpState
  /\ started \in 0 .. MaxRequests
  /\ rank \in [Follower -> SchedulerState]
  /\ inbox \in [Follower -> Seq(Message)]

ClientsTyped ==
  /\ wakeup \in BOOLEAN
  /\ task \in [Key -> TaskState]
  /\ future \in [Key -> FutureState]
  /\ offset \in [Key -> Nat]
  /\ client \in [Key -> Client]

TypeOK == RanksTyped /\ ClientsTyped

\* Schedulers and commands hold keys that were started, and only these have
\* gone anywhere.
KeysStarted ==
  /\ \A c \in Range(commands) : c.key \in 1 .. started
  /\ Keys(scheduler) \subseteq 1 .. started
  /\ \A k \in Key : k \notin 1 .. started =>
       /\ task[k] = "absent" /\ future[k] = "none"
       /\ offset[k] = 0 /\ scheduler.produced[k] = 0

\* Where a follower will be when it has obeyed everything that was broadcast.
Arrival(f) == Start(inbox[f], rank[f], Len(inbox[f]) + 1)

\* Each batch is one that its follower obeys in step, in the state in which it
\* comes to it, and while the pump runs so are the commands of this turn.
Chained ==
  \A f \in Follower :
    /\ InLine(inbox[f], rank[f])
    /\ StopsLast(inbox[f])
    /\ pump # "stopped" => \A i \in 1 .. Len(inbox[f]) : inbox[f][i].kind # "stop"
    /\ pump \in {"waiting", "sleeping"} => InStep(Arrival(f), commands, Before)

\* A stream has been handed what its offset says, never more than its request
\* has produced, and a request with a result is over.
Handed ==
  \A k \in Key :
    /\ offset[k] <= scheduler.produced[k]
    /\ client[k].state \in {"watching", "sending"} =>
         /\ k \in Streamed
         /\ client[k].output \o client[k].pending = [i \in 1 .. offset[k] |-> i]
    /\ future[k] = "result" =>
         /\ k \notin Keys(scheduler)
         /\ scheduler.produced[k] = AnswerLength
         /\ k \in Streamed => offset[k] = AnswerLength

IInv == TypeOK /\ KeysStarted /\ Chained /\ Handed

-----------------------------------------------------------------------------
\* Clients.

ClientReplaced(c, st, pe, ou, ch) ==
  /\ c = [state |-> c.state, pending |-> c.pending, output |-> c.output,
          changed |-> c.changed]
  /\ [c EXCEPT !.state = st] =
       [state |-> st, pending |-> c.pending, output |-> c.output, changed |-> c.changed]
  /\ [c EXCEPT !.changed = ch] =
       [state |-> c.state, pending |-> c.pending, output |-> c.output, changed |-> ch]
  /\ [c EXCEPT !.state = st, !.changed = ch] =
       [state |-> st, pending |-> c.pending, output |-> c.output, changed |-> ch]
  /\ [c EXCEPT !.pending = pe, !.changed = ch] =
       [state |-> c.state, pending |-> pe, output |-> c.output, changed |-> ch]
  /\ [c EXCEPT !.changed = ch, !.pending = pe, !.output = ou, !.state = st] =
       [state |-> st, pending |-> pe, output |-> ou, changed |-> ch]

LEMMA RecordReplaced ==
  ASSUME NEW A, NEW B, NEW C, NEW D,
         NEW c \in [state : A, pending : B, output : C, changed : D],
         NEW st \in A, NEW pe \in B, NEW ou \in C, NEW ch \in D
  PROVE  ClientReplaced(c, st, pe, ou, ch)
<1>1. c = [state |-> c.state, pending |-> c.pending, output |-> c.output,
           changed |-> c.changed]
  OBVIOUS
<1> DEFINE s1 == [c EXCEPT !.state = st]
           c1 == [c EXCEPT !.changed = ch]
           p1 == [c EXCEPT !.pending = pe]
           p2 == [c1 EXCEPT !.pending = pe]
           o2 == [p2 EXCEPT !.output = ou]
<1>2. s1 = [state |-> st, pending |-> c.pending, output |-> c.output, changed |-> c.changed]
  OBVIOUS
<1>3. c1 = [state |-> c.state, pending |-> c.pending, output |-> c.output, changed |-> ch]
  OBVIOUS
<1>4. p1 = [state |-> c.state, pending |-> pe, output |-> c.output, changed |-> c.changed]
  OBVIOUS
<1>5. /\ [c EXCEPT !.state = st, !.changed = ch] = [s1 EXCEPT !.changed = ch]
      /\ [c EXCEPT !.pending = pe, !.changed = ch] = [p1 EXCEPT !.changed = ch]
      /\ [c EXCEPT !.changed = ch, !.pending = pe, !.output = ou, !.state = st] =
           [o2 EXCEPT !.state = st]
  OBVIOUS
<1>6. p2 = [state |-> c.state, pending |-> pe, output |-> c.output, changed |-> ch]
  <2> HIDE DEF c1
  <2> QED BY <1>3
<1>7. o2 = [state |-> c.state, pending |-> pe, output |-> ou, changed |-> ch]
  <2> HIDE DEF p2
  <2> QED BY <1>6
<1> HIDE DEF s1, c1, p1, p2, o2
<1>8. [s1 EXCEPT !.changed = ch] =
        [state |-> st, pending |-> c.pending, output |-> c.output, changed |-> ch]
  BY <1>2
<1>9. [p1 EXCEPT !.changed = ch] =
        [state |-> c.state, pending |-> pe, output |-> c.output, changed |-> ch]
  BY <1>4
<1>10. [o2 EXCEPT !.state = st] =
        [state |-> st, pending |-> pe, output |-> ou, changed |-> ch]
  BY <1>7
<1> QED BY <1>1, <1>2, <1>3, <1>5, <1>8, <1>9, <1>10, Zenon DEF s1, c1, ClientReplaced

LEMMA ClientFields ==
  ASSUME NEW c \in Client
  PROVE  /\ c.state \in ClientState /\ c.pending \in Seq(Nat) /\ c.output \in Seq(Nat)
         /\ c.changed \in Flag
BY DEF Client

LEMMA ClientIs ==
  ASSUME NEW st \in ClientState, NEW pe \in Seq(Nat), NEW ou \in Seq(Nat), NEW ch \in Flag
  PROVE  [state |-> st, pending |-> pe, output |-> ou, changed |-> ch] \in Client
BY DEF Client

LEMMA ClientUpdates ==
  ASSUME NEW c \in Client, NEW st \in ClientState, NEW pe \in Seq(Nat), NEW ou \in Seq(Nat),
         NEW ch \in Flag
  PROVE  ClientReplaced(c, st, pe, ou, ch)
<1>1. c \in [state : ClientState, pending : Seq(Nat), output : Seq(Nat), changed : Flag]
  BY DEF Client
<1> QED BY <1>1, RecordReplaced, Zenon

LEMMA ClientStated ==
  ASSUME NEW c \in Client, NEW st \in ClientState
  PROVE  /\ [c EXCEPT !.state = st] \in Client
         /\ [c EXCEPT !.state = st].state = st
         /\ [c EXCEPT !.state = st].output = c.output
         /\ [c EXCEPT !.state = st].pending = c.pending
<1>1. /\ c.state \in ClientState /\ c.pending \in Seq(Nat) /\ c.output \in Seq(Nat)
      /\ c.changed \in Flag
  BY ClientFields
<1>2. ClientReplaced(c, st, c.pending, c.output, c.changed)
  BY <1>1, ClientUpdates
<1>3. [c EXCEPT !.state = st] =
        [state |-> st, pending |-> c.pending, output |-> c.output, changed |-> c.changed]
  BY <1>2, Zenon DEF ClientReplaced
<1> QED BY <1>1, <1>3, ClientIs

LEMMA ClientChanged ==
  ASSUME NEW c \in Client, NEW ch \in Flag
  PROVE  /\ [c EXCEPT !.changed = ch] \in Client
         /\ [c EXCEPT !.changed = ch].state = c.state
         /\ [c EXCEPT !.changed = ch].output = c.output
         /\ [c EXCEPT !.changed = ch].pending = c.pending
<1>1. /\ c.state \in ClientState /\ c.pending \in Seq(Nat) /\ c.output \in Seq(Nat)
      /\ c.changed \in Flag
  BY ClientFields
<1>2. ClientReplaced(c, c.state, c.pending, c.output, ch)
  BY <1>1, ClientUpdates
<1>3. [c EXCEPT !.changed = ch] =
        [state |-> c.state, pending |-> c.pending, output |-> c.output, changed |-> ch]
  BY <1>2, Zenon DEF ClientReplaced
<1> QED BY <1>1, <1>3, ClientIs

LEMMA ClientArrives ==
  ASSUME NEW st \in ClientState, NEW ch \in Flag
  PROVE  /\ [NoClient EXCEPT !.state = st, !.changed = ch] \in Client
         /\ [NoClient EXCEPT !.state = st, !.changed = ch].state = st
         /\ [NoClient EXCEPT !.state = st, !.changed = ch].output = <<>>
         /\ [NoClient EXCEPT !.state = st, !.changed = ch].pending = <<>>
<1> DEFINE c == NoClient
<1>0. <<>> \in Seq(Nat) /\ "absent" \in ClientState /\ FALSE \in Flag
  BY DEF ClientState, Flag
<1>1. c \in Client /\ c.pending = <<>> /\ c.output = <<>>
  BY <1>0, ClientIs DEF NoClient
<1> HIDE DEF c
<1>2. ClientReplaced(c, st, <<>>, <<>>, ch)
  BY <1>0, <1>1, ClientUpdates
<1> DEFINE e == <<>>
           d == [c EXCEPT !.state = st, !.changed = ch]
<1>3. d = [state |-> st, pending |-> c.pending, output |-> c.output, changed |-> ch]
  BY <1>2, Zenon DEF ClientReplaced
<1>4. e \in Seq(Nat) /\ c.pending = e /\ c.output = e
  BY <1>0, <1>1
<1> HIDE DEF d, e
<1>5. d = [state |-> st, pending |-> e, output |-> e, changed |-> ch]
  BY <1>3, <1>4
<1>6. d \in Client /\ d.state = st /\ d.output = e /\ d.pending = e
  BY <1>4, <1>5, ClientIs
<1> QED BY <1>6 DEF d, c, e

LEMMA ClientHanded ==
  ASSUME NEW c \in Client, NEW pe \in Seq(Nat)
  PROVE  /\ [c EXCEPT !.pending = pe, !.changed = TRUE] \in Client
         /\ [c EXCEPT !.pending = pe, !.changed = TRUE].state = c.state
         /\ [c EXCEPT !.pending = pe, !.changed = TRUE].output = c.output
         /\ [c EXCEPT !.pending = pe, !.changed = TRUE].pending = pe
<1> DEFINE ch == TRUE
<1>0. ch \in Flag
  BY DEF Flag
<1> HIDE DEF ch
<1>1. /\ c.state \in ClientState /\ c.pending \in Seq(Nat) /\ c.output \in Seq(Nat)
      /\ c.changed \in Flag
  BY ClientFields
<1>2. ClientReplaced(c, c.state, pe, c.output, ch)
  BY <1>0, <1>1, ClientUpdates
<1>3. [c EXCEPT !.pending = pe, !.changed = ch] =
        [state |-> c.state, pending |-> pe, output |-> c.output, changed |-> ch]
  BY <1>2, Zenon DEF ClientReplaced
<1>4. /\ [c EXCEPT !.pending = pe, !.changed = ch] \in Client
      /\ [c EXCEPT !.pending = pe, !.changed = ch].state = c.state
      /\ [c EXCEPT !.pending = pe, !.changed = ch].output = c.output
      /\ [c EXCEPT !.pending = pe, !.changed = ch].pending = pe
  BY <1>0, <1>1, <1>3, ClientIs
<1> QED BY <1>4 DEF ch

\* A stream takes what is pending.
Taken(c, st) ==
  [c EXCEPT !.changed = FALSE, !.pending = <<>>, !.output = c.output \o c.pending,
            !.state = st]

LEMMA ClientTakes ==
  ASSUME NEW c \in Client, NEW st \in ClientState
  PROVE  /\ Taken(c, st) \in Client /\ Taken(c, st).state = st
         /\ Taken(c, st).output = c.output \o c.pending /\ Taken(c, st).pending = <<>>
<1> DEFINE ch == FALSE
           pe == <<>>
           ou == c.output \o c.pending
<1>0. ch \in Flag /\ pe \in Seq(Nat)
  BY DEF Flag
<1>1. c.pending \in Seq(Nat) /\ c.output \in Seq(Nat)
  BY ClientFields
<1>2. ou \in Seq(Nat)
  BY <1>1, ConcatProperties
<1> HIDE DEF ch, pe, ou
<1> DEFINE d == [c EXCEPT !.changed = ch, !.pending = pe, !.output = ou, !.state = st]
<1>3. ClientReplaced(c, st, pe, ou, ch)
  BY <1>0, <1>2, ClientUpdates
<1>4. d = [state |-> st, pending |-> pe, output |-> ou, changed |-> ch]
  BY <1>3, Zenon DEF ClientReplaced
<1> HIDE DEF d
<1>5. d \in Client /\ d.state = st /\ d.output = ou /\ d.pending = pe
  BY <1>0, <1>2, <1>4, ClientIs
<1>6. d = Taken(c, st)
  BY DEF d, ch, pe, ou, Taken
<1> QED BY <1>5, <1>6 DEF pe, ou

-----------------------------------------------------------------------------
\* Types.

LEMMA InitTyped == Init => TypeOK
<1> SUFFICES ASSUME Init PROVE TypeOK
  OBVIOUS
<1>1. EmptyScheduler \in SchedulerState
  BY EmptyState
<1>2. RanksTyped
  <2>1. <<>> \in Seq(Command) /\ <<>> \in Seq(Message) /\ 0 \in 0 .. MaxRequests
    BY IngressAssumption
  <2>2. [f \in Follower |-> EmptyScheduler] \in [Follower -> SchedulerState]
    BY <1>1
  <2>3. [f \in Follower |-> <<>>] \in [Follower -> Seq(Message)]
    BY <2>1
  <2> QED BY <1>1, <2>1, <2>2, <2>3 DEF Init, RanksTyped, PumpState
<1>3. NoClient \in Client
  <2>1. <<>> \in Seq(Nat) /\ "absent" \in ClientState /\ FALSE \in Flag
    BY DEF ClientState, Flag
  <2> QED BY <2>1, ClientIs DEF NoClient
<1>4. ClientsTyped
  <2>1. [k \in Key |-> NoClient] \in [Key -> Client]
    BY <1>3
  <2>2. wakeup \in BOOLEAN
    BY DEF Init
  <2>3. /\ task \in [Key -> TaskState] /\ future \in [Key -> FutureState]
        /\ offset \in [Key -> Nat]
    BY DEF Init, TaskState, FutureState
  <2> QED BY <2>1, <2>2, <2>3 DEF Init, ClientsTyped
<1> QED BY <1>2, <1>4 DEF TypeOK

\* What a turn starts from.
LEMMA BeforeKeeps ==
  ASSUME TypeOK
  PROVE  /\ Before \in SchedulerState
         /\ Keys(Before) \subseteq Keys(scheduler)
         /\ Keys(scheduler) \subseteq Key
         /\ Before.produced = scheduler.produced
         /\ Runnable \subseteq Keys(Before)
         /\ Runnable \subseteq Key
<1>1. scheduler \in SchedulerState
  BY DEF TypeOK, RanksTyped
<1>2. /\ Before \in SchedulerState /\ Keys(Before) \subseteq Keys(scheduler)
      /\ Before.produced = scheduler.produced
  BY <1>1, CancelledKeeps DEF Before
<1>3. Keys(Admitted(Before)) \subseteq Keys(Before)
  BY <1>2, AdmittedKeeps
<1>4. Runnable \subseteq Keys(Before)
  BY <1>3 DEF Runnable, Keys
<1> QED BY <1>1, <1>2, <1>4, KeysAreKeys

\* What a wave makes of it.
LEMMA TurnKeeps ==
  ASSUME TypeOK, NEW wave \in SUBSET Runnable
  PROVE  /\ wave \in SUBSET Key
         /\ Turn(commands, wave, Before) \in Message
         /\ Ticked(Before, wave) \in SchedulerState
         /\ Keys(Ticked(Before, wave)) \subseteq
              Keys(scheduler) \ Finished(Produced(Before, wave))
         /\ Ticked(Before, wave).produced = Produced(Before, wave).produced
         /\ \A k \in Key : Produced(Before, wave).produced[k] =
                             IF k \in wave THEN scheduler.produced[k] + 1
                                           ELSE scheduler.produced[k]
         /\ Produced(Before, wave).produced \in [Key -> Nat]
<1>1. wave \in SUBSET Key /\ Before \in SchedulerState
  BY BeforeKeeps
<1>2. commands \in Seq(Command)
  BY DEF TypeOK, RanksTyped
<1>3. Turn(commands, wave, Before) \in Message
  BY <1>1, <1>2, TurnIs
<1>4. /\ Ticked(Before, wave) \in SchedulerState
      /\ Keys(Ticked(Before, wave)) \subseteq Keys(Before) \ Finished(Produced(Before, wave))
      /\ Ticked(Before, wave).produced = Produced(Before, wave).produced
  BY <1>1, TickedKeeps
<1>5. /\ Produced(Before, wave) \in SchedulerState
      /\ \A k \in Key : Produced(Before, wave).produced[k] =
                          IF k \in wave THEN Before.produced[k] + 1
                                        ELSE Before.produced[k]
  BY <1>1, ProducedKeeps
<1>6. Keys(Before) \subseteq Keys(scheduler) /\ Before.produced = scheduler.produced
  BY BeforeKeeps
<1>7. Produced(Before, wave).produced \in [Key -> Nat]
  BY <1>5, SchedulerFields
<1>8. Keys(Ticked(Before, wave)) \subseteq Keys(scheduler) \ Finished(Produced(Before, wave))
  BY <1>4, <1>6
<1>9. \A k \in Key : Produced(Before, wave).produced[k] =
                       IF k \in wave THEN scheduler.produced[k] + 1
                                     ELSE scheduler.produced[k]
  BY <1>5, <1>6
<1> QED BY <1>1, <1>3, <1>4, <1>7, <1>8, <1>9

LEMMA ExecuteTyped ==
  ASSUME TypeOK, Execute
  PROVE  TypeOK'
<1> DEFINE k == started + 1
           st == IF k \in Streamed THEN "watching" ELSE "polling"
<1> USE DEF TypeOK, RanksTyped, ClientsTyped
<1>1. /\ started \in Nat /\ MaxRequests \in Nat /\ started < MaxRequests /\ started' = k
  BY IngressAssumption DEF Execute
<1>2. k \in Key /\ k \in 0 .. MaxRequests
  BY <1>1 DEF Key
<1> DEFINE accepted == pump # "failed" /\ CanSubmit(scheduler, k)
<1>3. /\ commands' = Announced(k, accepted)
      /\ IF accepted
         THEN /\ scheduler' = Submitted(scheduler, k)
              /\ task' = [task EXCEPT ![k] = "awaiting"]
              /\ future' = [future EXCEPT ![k] = "pending"]
              /\ wakeup' = TRUE
         ELSE /\ task' = [task EXCEPT ![k] = "failed"]
              /\ UNCHANGED <<scheduler, future, wakeup>>
      /\ client' = [client EXCEPT ![k] = [NoClient EXCEPT !.state = st, !.changed = ~accepted]]
      /\ UNCHANGED <<pump, offset, rank, inbox>>
  BY DEF Execute
<1>4. (~accepted) \in Flag
  BY Zenon DEF Flag
<1>5. st \in ClientState
  BY DEF ClientState
<1> HIDE DEF k, st, accepted
<1>6. Submitted(scheduler, k) \in SchedulerState
  BY <1>2, SubmittedKeeps
<1>7. [kind |-> "submit", key |-> k] \in Command
  BY <1>2 DEF Command
<1>8. Announced(k, accepted) \in Seq(Command)
  BY <1>7, AppendRange DEF Announced
<1>9. [NoClient EXCEPT !.state = st, !.changed = ~accepted] \in Client
  BY <1>4, <1>5, ClientArrives
<1>10. RanksTyped'
  <2>1. scheduler' \in SchedulerState
    BY <1>3, <1>6, Zenon
  <2>2. commands' \in Seq(Command) /\ started' \in 0 .. MaxRequests
    BY <1>1, <1>2, <1>3, <1>8
  <2>3. UNCHANGED <<pump, rank, inbox>>
    BY <1>3
  <2> QED BY <2>1, <2>2, <2>3
<1>11. client' \in [Key -> Client]
  BY <1>3, <1>9
<1>12. /\ wakeup' \in BOOLEAN /\ task' \in [Key -> TaskState]
       /\ future' \in [Key -> FutureState] /\ offset' \in [Key -> Nat]
  BY <1>2, <1>3 DEF TaskState, FutureState
<1> QED BY <1>10, <1>11, <1>12

LEMMA ResumeTyped ==
  ASSUME TypeOK, NEW k \in Key, Resume(k)
  PROVE  TypeOK'
<1> USE DEF TypeOK, RanksTyped, ClientsTyped
<1>1. [kind |-> "cancel", key |-> k] \in Command
  BY DEF Command
<1>2. Append(commands, [kind |-> "cancel", key |-> k]) \in Seq(Command)
  BY <1>1, AppendRange
<1>3. commands' \in Seq(Command)
  BY <1>2 DEF Resume
<1>4. RanksTyped'
  BY <1>3 DEF Resume
<1>5. task' \in [Key -> TaskState] /\ wakeup' \in BOOLEAN
  BY DEF Resume, TaskState
<1>6. client' \in [Key -> Client]
  <2>1. client[k] \in Client /\ TRUE \in Flag
    BY DEF Flag
  <2>2. [client[k] EXCEPT !.changed = TRUE] \in Client
    BY <2>1, ClientChanged
  <2>3. client' = [client EXCEPT ![k] = [client[k] EXCEPT !.changed = TRUE]]
    BY DEF Resume
  <2> QED BY <2>2, <2>3
<1> QED BY <1>4, <1>5, <1>6 DEF Resume

\* Only a client changes.
LEMMA StatedTyped ==
  ASSUME TypeOK, NEW k \in Key, NEW st \in ClientState,
         client' = [client EXCEPT ![k].state = st]
  PROVE  client' \in [Key -> Client]
<1>1. client \in [Key -> Client] /\ client[k] \in Client
  BY DEF TypeOK, ClientsTyped
<1>2. [client[k] EXCEPT !.state = st] \in Client
  BY <1>1, ClientStated
<1>3. client' = [client EXCEPT ![k] = [client[k] EXCEPT !.state = st]]
  OBVIOUS
<1> QED BY <1>1, <1>2, <1>3

LEMMA Verdicts ==
  ASSUME NEW k \in Key
  PROVE  Verdict(k) \in {"refused", "answered", "differs"} /\ Verdict(k) \in ClientState
BY DEF Verdict, ClientState

\* What a stream becomes.
Watched(k) == IF client[k].pending # <<>> THEN "sending"
              ELSE IF Done(k) THEN Verdict(k) ELSE client[k].state

LEMMA WatchIs ==
  ASSUME TypeOK, NEW k \in Key, Watch(k)
  PROVE  /\ client' = [client EXCEPT ![k] = Taken(client[k], Watched(k))]
         /\ client[k] \in Client /\ Watched(k) \in ClientState
         /\ client[k].state = "watching"
<1>1. client' = [client EXCEPT ![k] = Taken(client[k], Watched(k))]
  BY DEF Watch, Taken, Watched
<1>2. client[k] \in Client
  BY DEF TypeOK, ClientsTyped
<1>3. client[k].state = "watching"
  BY DEF Watch
<1>4. Watched(k) \in ClientState
  <2>1. "sending" \in ClientState /\ "watching" \in ClientState
    BY DEF ClientState
  <2> QED BY <1>3, <2>1, Verdicts DEF Watched
<1> QED BY <1>1, <1>2, <1>3, <1>4

LEMMA WatchTyped ==
  ASSUME TypeOK, NEW k \in Key, Watch(k)
  PROVE  TypeOK'
<1>1. client' \in [Key -> Client]
  <2>1. Taken(client[k], Watched(k)) \in Client
    BY WatchIs, ClientTakes
  <2>2. client \in [Key -> Client]
    BY DEF TypeOK, ClientsTyped
  <2> QED BY <2>1, <2>2, WatchIs
<1> QED BY <1>1 DEF Watch, TypeOK, RanksTyped, ClientsTyped, leader

LEMMA SentTyped ==
  ASSUME TypeOK, NEW k \in Key, Sent(k)
  PROVE  TypeOK'
<1> DEFINE st == IF Done(k) THEN Verdict(k) ELSE "watching"
<1>1. st \in ClientState
  BY Verdicts DEF ClientState
<1>2. client' = [client EXCEPT ![k].state = st]
  BY DEF Sent
<1> HIDE DEF st
<1>3. client' \in [Key -> Client]
  BY <1>1, <1>2, StatedTyped
<1> QED BY <1>3 DEF Sent, TypeOK, RanksTyped, ClientsTyped, leader

LEMMA AnswerTyped ==
  ASSUME TypeOK, NEW k \in Key, Answer(k)
  PROVE  TypeOK'
<1> DEFINE st == IF task[k] = "returned" THEN "answered" ELSE "refused"
<1>1. st \in ClientState
  BY DEF ClientState
<1>2. client' = [client EXCEPT ![k].state = st]
  BY DEF Answer
<1> HIDE DEF st
<1>3. client' \in [Key -> Client]
  BY <1>1, <1>2, StatedTyped
<1> QED BY <1>3 DEF Answer, TypeOK, RanksTyped, ClientsTyped, leader

LEMMA DisconnectTyped ==
  ASSUME TypeOK, NEW k \in Key, Disconnect(k)
  PROVE  TypeOK'
<1>1. "gone" \in ClientState /\ client' = [client EXCEPT ![k].state = "gone"]
  BY DEF ClientState, Disconnect
<1>2. client' \in [Key -> Client]
  BY <1>1, StatedTyped
<1>3. future' \in [Key -> FutureState]
  BY DEF Disconnect, FutureState, TypeOK, ClientsTyped
<1> QED BY <1>2, <1>3 DEF Disconnect, TypeOK, RanksTyped, ClientsTyped

LEMMA WokenTyped == Woken /\ wakeup \in BOOLEAN => wakeup' \in BOOLEAN
BY DEF Woken

LEMMA BroadcastTyped ==
  ASSUME TypeOK, NEW m \in Message, Broadcast(m)
  PROVE  inbox' \in [Follower -> Seq(Message)]
<1>1. \A f \in Follower : Append(inbox[f], m) \in Seq(Message)
  BY AppendRange DEF TypeOK, RanksTyped
<1> QED BY <1>1 DEF Broadcast

\* The tokens that a turn hands to a stream.
LEMMA DeltaIs ==
  ASSUME NEW s \in SchedulerState, NEW k \in Key, offset[k] \in Nat,
         s.produced[k] > offset[k]
  PROVE  /\ Delta(s, k) \in Seq(Nat)
         /\ Delta(s, k) = [i \in 1 .. s.produced[k] - offset[k] |-> offset[k] + i]
<1>1. s.produced[k] \in Nat /\ s.produced[k] - offset[k] \in Nat
  BY SchedulerFields
<1> QED BY <1>1 DEF Delta

LEMMA DeliverTyped ==
  ASSUME TypeOK, NEW s \in SchedulerState, NEW results, Deliver(s, results)
  PROVE  /\ client' \in [Key -> Client] /\ offset' \in [Key -> Nat]
         /\ future' \in [Key -> FutureState]
<1> USE DEF TypeOK, ClientsTyped
<1>1. ASSUME NEW k \in Key, s.produced[k] > offset[k]
      PROVE  [client[k] EXCEPT !.pending = client[k].pending \o Delta(s, k), !.changed = TRUE]
               \in Client
  <2>1. client[k] \in Client /\ offset[k] \in Nat /\ client[k].pending \in Seq(Nat)
    BY ClientFields
  <2>2. Delta(s, k) \in Seq(Nat)
    BY <1>1, <2>1, DeltaIs
  <2>3. client[k].pending \o Delta(s, k) \in Seq(Nat)
    BY <2>1, <2>2, ConcatProperties
  <2> QED BY <2>1, <2>3, ClientHanded
<1>2. client' = [k \in Key |->
                   IF Streaming(k) /\ s.produced[k] > offset[k]
                   THEN [client[k] EXCEPT !.pending = client[k].pending \o Delta(s, k),
                                          !.changed = TRUE]
                   ELSE client[k]]
  BY DEF Deliver
<1>3. client' \in [Key -> Client]
  BY <1>1, <1>2
<1>4. offset' \in [Key -> Nat]
  BY SchedulerFields DEF Deliver
<1>5. future' \in [Key -> FutureState]
  BY DEF Deliver, Resolved, FutureState
<1> QED BY <1>3, <1>4, <1>5

LEMMA PumpTurnTyped ==
  ASSUME TypeOK, NEW wave \in SUBSET Runnable, PumpTurn(wave)
  PROVE  TypeOK'
<1>1. /\ Turn(commands, wave, Before) \in Message
      /\ Ticked(Before, wave) \in SchedulerState
  BY TurnKeeps
<1>2. Produced(Before, wave) \in SchedulerState
  BY TurnKeeps, BeforeKeeps, ProducedKeeps
<1>3. /\ pump' = "sleeping" /\ commands' = <<>> /\ scheduler' = Ticked(Before, wave)
      /\ Broadcast(Turn(commands, wave, Before)) /\ Woken
      /\ Deliver(Produced(Before, wave), Finished(Produced(Before, wave)))
      /\ UNCHANGED <<started, task, rank>>
  BY DEF PumpTurn, TurnThen
<1>4. inbox' \in [Follower -> Seq(Message)]
  BY <1>1, <1>3, BroadcastTyped
<1>5. /\ client' \in [Key -> Client] /\ offset' \in [Key -> Nat]
      /\ future' \in [Key -> FutureState]
  BY <1>2, <1>3, DeliverTyped
<1>6. wakeup' \in BOOLEAN
  BY <1>3, WokenTyped DEF TypeOK, ClientsTyped
<1>7. commands' \in Seq(Command) /\ pump' \in PumpState
  BY <1>3 DEF PumpState
<1>8. RanksTyped'
  BY <1>1, <1>3, <1>4, <1>7 DEF TypeOK, RanksTyped
<1>9. ClientsTyped'
  BY <1>3, <1>5, <1>6 DEF TypeOK, ClientsTyped
<1> QED BY <1>8, <1>9 DEF TypeOK

LEMMA PumpRestTyped ==
  ASSUME TypeOK, PumpRest
  PROVE  TypeOK'
<1>1. wakeup' \in BOOLEAN
  BY WokenTyped DEF PumpRest, TypeOK, ClientsTyped
<1> QED BY <1>1 DEF PumpRest, TypeOK, RanksTyped, ClientsTyped, PumpState

LEMMA PumpFailsTyped ==
  ASSUME TypeOK, PumpFails
  PROVE  TypeOK'
<1>1. wakeup' \in BOOLEAN
  BY WokenTyped DEF PumpFails, TypeOK, ClientsTyped
<1>2. scheduler' \in SchedulerState /\ commands' \in Seq(Command) /\ pump' \in PumpState
  BY BeforeKeeps DEF PumpFails, PumpState
<1>3. future' \in [Key -> FutureState]
  BY DEF PumpFails, TypeOK, ClientsTyped, FutureState
<1> QED BY <1>1, <1>2, <1>3 DEF PumpFails, TypeOK, RanksTyped, ClientsTyped

LEMMA ShutdownTyped ==
  ASSUME TypeOK, Shutdown
  PROVE  TypeOK'
<1>1. scheduler' \in SchedulerState /\ pump' \in PumpState
  BY ClosedKeeps DEF Shutdown, PumpState, TypeOK, RanksTyped
<1>2. inbox' \in [Follower -> Seq(Message)]
  BY MessageKinds, BroadcastTyped DEF Shutdown
<1> QED BY <1>1, <1>2 DEF Shutdown, TypeOK, RanksTyped, ClientsTyped

\* The two things a follower may find at the head of its batches.
LEMMA FollowIs ==
  ASSUME TypeOK, Chained, NEW f \in Follower, Follow(f)
  PROVE  /\ inbox[f] \in Seq(Message) /\ inbox[f] # <<>> /\ rank[f] \in SchedulerState
         /\ inbox[f][1] \in Message /\ Tail(inbox[f]) \in Seq(Message)
         /\ inbox' = [inbox EXCEPT ![f] = Tail(inbox[f])]
         /\ \/ /\ inbox[f][1].kind = "stop"
               /\ rank' = [rank EXCEPT ![f] = Closed(rank[f])]
            \/ /\ inbox[f][1] \in TurnMessage
               /\ rank' = [rank EXCEPT ![f] =
                     Ticked(Replayed(rank[f], inbox[f][1].commands), inbox[f][1].wave)]
<1>1. inbox[f] \in Seq(Message) /\ inbox[f] # <<>> /\ rank[f] \in SchedulerState
  BY DEF TypeOK, RanksTyped, Follow
<1>2. StopsLast(inbox[f])
  BY DEF Chained
<1>3. /\ inbox[f][1] \in Message /\ Head(inbox[f]) = inbox[f][1]
      /\ Tail(inbox[f]) \in Seq(Message)
  BY <1>1, <1>2, StopsTail
<1>4. inbox' = [inbox EXCEPT ![f] = Tail(inbox[f])]
  BY DEF Follow
<1>5. rank' = [rank EXCEPT ![f] =
         IF inbox[f][1].kind = "stop" THEN Closed(rank[f])
         ELSE Ticked(Replayed(rank[f], inbox[f][1].commands), inbox[f][1].wave)]
  BY <1>3 DEF Follow
<1>6. inbox[f][1].kind = "stop" \/ inbox[f][1] \in TurnMessage
  BY <1>3, MessageKinds
<1>7. inbox[f][1] \in TurnMessage => inbox[f][1].kind # "stop"
  BY TurnFields
<1> QED BY <1>1, <1>3, <1>4, <1>5, <1>6, <1>7

LEMMA FollowTyped ==
  ASSUME TypeOK, Chained, NEW f \in Follower, Follow(f)
  PROVE  TypeOK'
<1>1. inbox' \in [Follower -> Seq(Message)]
  BY FollowIs DEF TypeOK, RanksTyped
<1>2. rank[f] \in SchedulerState
  BY FollowIs
<1>3. Closed(rank[f]) \in SchedulerState
  BY <1>2, ClosedKeeps
<1>4. ASSUME inbox[f][1] \in TurnMessage
      PROVE  Ticked(Replayed(rank[f], inbox[f][1].commands), inbox[f][1].wave)
               \in SchedulerState
  <2>1. inbox[f][1].commands \in Seq(Command) /\ inbox[f][1].wave \in SUBSET Key
    BY <1>4, TurnFields
  <2>2. Replayed(rank[f], inbox[f][1].commands) \in SchedulerState
    BY <1>2, <2>1, ReplaysRun
  <2> QED BY <2>1, <2>2, TickedKeeps
<1>5. rank' \in [Follower -> SchedulerState]
  BY <1>3, <1>4, FollowIs DEF TypeOK, RanksTyped
<1> QED BY <1>1, <1>5 DEF Follow, TypeOK, RanksTyped, ClientsTyped, leader

-----------------------------------------------------------------------------
\* Keys that were not started.

LEMMA KnownFrame ==
  ASSUME KeysStarted, UNCHANGED <<scheduler, commands, started, task, future, offset>>
  PROVE  KeysStarted'
BY DEF KeysStarted

LEMMA ExecuteKnown ==
  ASSUME TypeOK, KeysStarted, Execute
  PROVE  KeysStarted'
<1> DEFINE k == started + 1
           accepted == pump # "failed" /\ CanSubmit(scheduler, k)
           c == [kind |-> "submit", key |-> k]
<1>1. /\ started \in Nat /\ MaxRequests \in Nat /\ started < MaxRequests /\ started' = k
  BY IngressAssumption DEF Execute, TypeOK, RanksTyped
<1>2. k \in Key /\ k \in 1 .. k /\ 1 .. started \subseteq 1 .. k /\ k \notin 1 .. started
  BY <1>1 DEF Key
<1>3. /\ commands' = Announced(k, accepted)
      /\ IF accepted
         THEN /\ scheduler' = Submitted(scheduler, k)
              /\ task' = [task EXCEPT ![k] = "awaiting"]
              /\ future' = [future EXCEPT ![k] = "pending"]
              /\ wakeup' = TRUE
         ELSE /\ task' = [task EXCEPT ![k] = "failed"]
              /\ UNCHANGED <<scheduler, future, wakeup>>
      /\ UNCHANGED <<pump, offset, rank, inbox>>
  BY DEF Execute
<1>4. c \in Command /\ c.key = k
  BY <1>2 DEF Command
<1> HIDE DEF k, accepted, c
<1>5. Range(Append(commands, c)) = Range(commands) \cup {c}
  BY <1>4, AppendRange DEF TypeOK, RanksTyped
<1>6. Announced(k, accepted) = IF accepted THEN Append(commands, c) ELSE commands
  BY DEF Announced, c
<1>7. /\ Keys(Submitted(scheduler, k)) = Keys(scheduler) \cup {k}
      /\ Submitted(scheduler, k).produced = scheduler.produced
  BY <1>2, SubmittedKeeps DEF TypeOK, RanksTyped
<1>8. ASSUME NEW d \in Range(commands')
      PROVE  d.key \in 1 .. started'
  <2>1. d \in Range(commands) \/ d = c
    BY <1>3, <1>5, <1>6, <1>8
  <2> QED BY <1>1, <1>2, <1>4, <2>1 DEF KeysStarted
<1>9. Keys(scheduler') \subseteq 1 .. started' /\ scheduler'.produced = scheduler.produced
  <2>1. Keys(scheduler') \subseteq Keys(scheduler) \cup {k}
    BY <1>3, <1>7
  <2>2. scheduler'.produced = scheduler.produced
    BY <1>3, <1>7
  <2>3. Keys(scheduler) \subseteq 1 .. started
    BY DEF KeysStarted
  <2> QED BY <1>1, <1>2, <2>1, <2>2, <2>3
<1>10. ASSUME NEW j \in Key, j \notin 1 .. started'
       PROVE  task'[j] = "absent" /\ future'[j] = "none" /\ offset'[j] = 0
              /\ scheduler'.produced[j] = 0
  <2>1. j \notin 1 .. started /\ j # k
    BY <1>1, <1>2, <1>10
  <2>2. task'[j] = task[j] /\ future'[j] = future[j]
    BY <1>3, <2>1 DEF TypeOK, ClientsTyped
  <2>3. offset' = offset
    BY <1>3
  <2> QED BY <1>9, <2>1, <2>2, <2>3 DEF KeysStarted
<1> QED BY <1>8, <1>9, <1>10 DEF KeysStarted

LEMMA AwaitingStarted ==
  ASSUME KeysStarted, NEW k \in Key, task[k] = "awaiting"
  PROVE  k \in 1 .. started
BY DEF KeysStarted

LEMMA ResumeKnown ==
  ASSUME TypeOK, KeysStarted, NEW k \in Key, Resume(k)
  PROVE  KeysStarted'
<1> DEFINE c == [kind |-> "cancel", key |-> k]
<1>1. k \in 1 .. started
  BY AwaitingStarted DEF Resume
<1>2. c \in Command /\ c.key = k
  BY DEF Command
<1>3. commands' \in {Append(commands, c), commands}
  BY DEF Resume
<1> HIDE DEF c
<1>4. Range(Append(commands, c)) = Range(commands) \cup {c}
  BY <1>2, AppendRange DEF TypeOK, RanksTyped
<1>5. \A d \in Range(commands') : d.key \in 1 .. started
  BY <1>1, <1>2, <1>3, <1>4 DEF KeysStarted
<1>6. \A j \in Key : j \notin 1 .. started => task'[j] = task[j]
  BY <1>1 DEF Resume, TypeOK, ClientsTyped
<1> QED BY <1>5, <1>6 DEF KeysStarted, Resume

LEMMA DisconnectKnown ==
  ASSUME TypeOK, KeysStarted, NEW k \in Key, Disconnect(k)
  PROVE  KeysStarted'
<1>1. \A j \in Key : j \notin 1 .. started => future'[j] = future[j]
  BY DEF Disconnect, TypeOK, ClientsTyped, KeysStarted
<1> QED BY <1>1 DEF KeysStarted, Disconnect

LEMMA PumpTurnKnown ==
  ASSUME TypeOK, KeysStarted, NEW wave \in SUBSET Runnable, PumpTurn(wave)
  PROVE  KeysStarted'
<1> DEFINE made == Produced(Before, wave)
           over == Finished(made)
<1>1. /\ commands' = <<>> /\ scheduler' = Ticked(Before, wave)
      /\ Deliver(made, over) /\ UNCHANGED <<started, task, rank>>
  BY DEF PumpTurn, TurnThen
<1>2. /\ Keys(scheduler') \subseteq Keys(scheduler) \ over
      /\ scheduler'.produced = made.produced
      /\ \A k \in Key : made.produced[k] = IF k \in wave THEN scheduler.produced[k] + 1
                                                        ELSE scheduler.produced[k]
  BY <1>1, TurnKeeps
<1>3. wave \subseteq Keys(scheduler)
  BY BeforeKeeps
<1> HIDE DEF made, over
<1>4. Range(commands') = {}
  BY <1>1 DEF Range
<1>5. Keys(scheduler') \subseteq 1 .. started'
  BY <1>1, <1>2 DEF KeysStarted
<1>6. ASSUME NEW k \in Key, k \notin 1 .. started'
      PROVE  task'[k] = "absent" /\ future'[k] = "none" /\ offset'[k] = 0
             /\ scheduler'.produced[k] = 0
  <2>1. k \notin 1 .. started /\ task'[k] = "absent" /\ task[k] = "absent"
        /\ future[k] = "none" /\ offset[k] = 0 /\ scheduler.produced[k] = 0
    BY <1>1, <1>6 DEF KeysStarted
  <2>2. k \notin wave
    BY <1>3, <2>1 DEF KeysStarted
  <2>3. scheduler'.produced[k] = 0
    BY <1>2, <2>1, <2>2
  <2>4. offset'[k] = 0 /\ future'[k] = "none"
    BY <1>1, <2>1 DEF Deliver, Resolved, Streaming
  <2> QED BY <2>1, <2>3, <2>4
<1> QED BY <1>4, <1>5, <1>6 DEF KeysStarted

LEMMA PumpFailsKnown ==
  ASSUME TypeOK, KeysStarted, PumpFails
  PROVE  KeysStarted'
<1>1. /\ commands' = <<>> /\ scheduler' = Before /\ UNCHANGED <<started, task, offset>>
      /\ \A k \in Key : task[k] # "awaiting" => future'[k] = future[k]
  BY DEF PumpFails
<1>2. Keys(Before) \subseteq Keys(scheduler) /\ Before.produced = scheduler.produced
  BY BeforeKeeps
<1>3. Range(commands') = {}
  BY <1>1 DEF Range
<1>4. Keys(scheduler') \subseteq 1 .. started' /\ scheduler'.produced = scheduler.produced
  BY <1>1, <1>2 DEF KeysStarted
<1> QED BY <1>1, <1>3, <1>4 DEF KeysStarted

LEMMA ShutdownKnown ==
  ASSUME TypeOK, KeysStarted, Shutdown
  PROVE  KeysStarted'
<1>1. scheduler' = Closed(scheduler) /\ UNCHANGED <<commands, started, task, future, offset>>
  BY DEF Shutdown
<1>2. Keys(scheduler') = {} /\ scheduler'.produced = scheduler.produced
  BY <1>1, ClosedKeeps DEF TypeOK, RanksTyped
<1> QED BY <1>1, <1>2 DEF KeysStarted

-----------------------------------------------------------------------------
\* Ranks in step.

LEMMA ChainedFrame ==
  ASSUME Chained, UNCHANGED <<scheduler, commands, pump, rank, inbox>>
  PROVE  Chained'
BY DEF Chained, Arrival, Before

LEMMA ArrivalTyped ==
  ASSUME TypeOK, Chained, pump # "stopped", NEW f \in Follower
  PROVE  Arrival(f) \in SchedulerState
<1> DEFINE q == inbox[f]
           n == Len(q)
<1>1. q \in Seq(Message) /\ n \in Nat /\ rank[f] \in SchedulerState
  BY LenProperties DEF TypeOK, RanksTyped
<1>2. \A i \in 1 .. n : q[i].kind # "stop" /\ q[i] \in Message
  BY <1>1, ElementOfSeq DEF Chained
<1>3. \A i \in 1 .. n : q[i] \in TurnMessage
  BY <1>2, MessageKinds
<1>4. Arrival(f) = Start(q, rank[f], n + 1)
  BY DEF Arrival
<1> HIDE DEF q, n
<1>5. CASE n = 0
  BY <1>1, <1>4, <1>5 DEF Start
<1>6. CASE n # 0
  <2>1. n \in 1 .. n /\ n + 1 # 1 /\ (n + 1) - 1 = n
    BY <1>1, <1>6
  <2>2. Arrival(f) = Ticked(q[n].before, q[n].wave)
    BY <1>4, <2>1 DEF Start
  <2>3. q[n].before \in SchedulerState /\ q[n].wave \in SUBSET Key
    BY <1>3, <2>1, TurnFields
  <2> QED BY <2>2, <2>3, TickedKeeps
<1> QED BY <1>5, <1>6

LEMMA CommandAdded ==
  ASSUME TypeOK, Chained, NEW c \in Command, commands' = Append(commands, c),
         UNCHANGED <<pump, rank, inbox>>, Before' = Obeyed(Before, c),
         pump \in {"waiting", "sleeping"} /\ c.kind = "submit" => CanSubmit(Before, c.key)
  PROVE  Chained'
<1>1. ASSUME NEW f \in Follower, pump \in {"waiting", "sleeping"}
      PROVE  InStep(Arrival(f), Append(commands, c), Obeyed(Before, c))
  <2>1. Arrival(f) \in SchedulerState
    BY <1>1, ArrivalTyped
  <2>2. commands \in Seq(Command)
    BY DEF TypeOK, RanksTyped
  <2>3. InStep(Arrival(f), commands, Before)
    BY <1>1 DEF Chained
  <2> QED BY <1>1, <2>1, <2>2, <2>3, InStepAppend
<1>2. \A f \in Follower : Arrival(f)' = Arrival(f)
  BY DEF Arrival
<1>3. ASSUME NEW f \in Follower, pump' \in {"waiting", "sleeping"}
      PROVE  InStep(Arrival(f)', commands', Before')
  BY <1>1, <1>2, <1>3
<1>4. \A f \in Follower :
        /\ InLine(inbox'[f], rank'[f]) /\ StopsLast(inbox'[f])
        /\ pump' # "stopped" => \A i \in 1 .. Len(inbox'[f]) : inbox'[f][i].kind # "stop"
  BY DEF Chained
<1> QED BY <1>3, <1>4 DEF Chained

LEMMA ExecuteChained ==
  ASSUME TypeOK, KeysStarted, Chained, Execute
  PROVE  Chained'
<1> DEFINE k == started + 1
           accepted == pump # "failed" /\ CanSubmit(scheduler, k)
           c == [kind |-> "submit", key |-> k]
<1>1. k \in Key /\ k \notin 1 .. started
  BY IngressAssumption DEF Execute, TypeOK, RanksTyped, Key
<1>2. /\ accepted => /\ commands' = Append(commands, c)
                     /\ scheduler' = Submitted(scheduler, k)
      /\ ~accepted => UNCHANGED <<commands, scheduler>>
      /\ UNCHANGED <<pump, rank, inbox>>
  BY DEF Execute, Announced
<1>3. c \in Command /\ c.key = k /\ c.kind = "submit"
  BY <1>1 DEF Command
<1> HIDE DEF k, c
<1>4. CASE accepted
  <2>1. scheduler \in SchedulerState /\ commands \in Seq(Command)
    BY DEF TypeOK, RanksTyped
  <2>2. k \notin CancelledKeys(commands)
    BY <1>1 DEF CancelledKeys, KeysStarted
  <2>3. CancelledKeys(commands') = CancelledKeys(commands)
    BY <1>2, <1>3, <1>4, <2>1, CancelledKeysAppend
  <2>4. Before' = Cancelled(Submitted(scheduler, k), CancelledKeys(commands))
    BY <1>2, <1>4, <2>3 DEF Before
  <2>5. Before' = Submitted(Before, k)
    BY <1>1, <2>1, <2>2, <2>4, SubmitCancelled DEF Before
  <2>6. Before' = Obeyed(Before, c)
    BY <1>3, <2>5 DEF Obeyed
  <2>7. CanSubmit(Before, k)
    BY <1>1, <1>4, <2>1, BeforeKeeps, CanSubmitFewer
  <2> QED BY <1>2, <1>3, <1>4, <2>6, <2>7, CommandAdded
<1>5. CASE ~accepted
  <2>1. UNCHANGED <<scheduler, commands, pump, rank, inbox>>
    BY <1>2, <1>5
  <2> QED BY <2>1, ChainedFrame
<1> QED BY <1>4, <1>5

LEMMA ResumeChained ==
  ASSUME TypeOK, Chained, NEW k \in Key, Resume(k)
  PROVE  Chained'
<1> DEFINE c == [kind |-> "cancel", key |-> k]
           withdrawn == future[k] \in {"cancelled", "overtaken"}
<1>1. c \in Command /\ c.key = k /\ c.kind = "cancel"
  BY DEF Command
<1>2. /\ withdrawn => commands' = Append(commands, c)
      /\ ~withdrawn => UNCHANGED commands
      /\ UNCHANGED <<scheduler, pump, rank, inbox>>
  BY DEF Resume
<1> HIDE DEF c
<1>3. CASE withdrawn
  <2>1. scheduler \in SchedulerState /\ commands \in Seq(Command)
    BY DEF TypeOK, RanksTyped
  <2>2. CancelledKeys(commands') = CancelledKeys(commands) \cup {k}
    BY <1>1, <1>2, <1>3, <2>1, CancelledKeysAppend
  <2>3. Before' = Cancelled(scheduler, CancelledKeys(commands) \cup {k})
    BY <1>2, <2>2 DEF Before
  <2>4. Before' = Cancelled(Before, {k})
    BY <2>1, <2>3, CancelledTwice DEF Before
  <2>5. Before' = Obeyed(Before, c)
    BY <1>1, <2>4 DEF Obeyed
  <2> QED BY <1>1, <1>2, <1>3, <2>5, CommandAdded
<1>4. CASE ~withdrawn
  <2>1. UNCHANGED <<scheduler, commands, pump, rank, inbox>>
    BY <1>2, <1>4
  <2> QED BY <2>1, ChainedFrame
<1> QED BY <1>3, <1>4

LEMMA PumpTurnChained ==
  ASSUME TypeOK, Chained, NEW wave \in SUBSET Runnable, PumpTurn(wave)
  PROVE  Chained'
<1> DEFINE m == Turn(commands, wave, Before)
<1>1. /\ pump \in {"waiting", "sleeping"} /\ pump' = "sleeping" /\ commands' = <<>>
      /\ scheduler' = Ticked(Before, wave)
      /\ inbox' = [f \in Follower |-> Append(inbox[f], m)] /\ rank' = rank
  BY DEF PumpTurn, TurnThen, Ready, Broadcast
<1>2. /\ m \in Message /\ m.kind = "turn" /\ m.commands = commands /\ m.before = Before
      /\ m.wave = wave
  BY TurnKeeps DEF Turn
<1>3. scheduler' \in SchedulerState
  BY <1>1, TurnKeeps
<1> HIDE DEF m
<1>4. Before' = scheduler'
  BY <1>1, <1>3, NoCommands, CancelledNone DEF Before
<1>5. ASSUME NEW f \in Follower
      PROVE  /\ InLine(inbox'[f], rank'[f]) /\ StopsLast(inbox'[f])
             /\ \A i \in 1 .. Len(inbox'[f]) : inbox'[f][i].kind # "stop"
             /\ Arrival(f)' = scheduler'
  <2> DEFINE q == inbox[f]
             n == Len(q)
  <2>1. q \in Seq(Message) /\ n \in Nat
    BY LenProperties DEF TypeOK, RanksTyped
  <2>2. /\ InLine(q, rank[f]) /\ \A i \in 1 .. n : q[i].kind # "stop"
        /\ InStep(Start(q, rank[f], n + 1), commands, Before)
    BY <1>1 DEF Chained, Arrival
  <2>3. inbox'[f] = Append(q, m) /\ rank'[f] = rank[f]
    BY <1>1
  <2>4. Arrival(f)' = Start(inbox'[f], rank'[f], Len(inbox'[f]) + 1)
    BY DEF Arrival
  <2> HIDE DEF q
  <2>5. /\ InLine(Append(q, m), rank[f])
        /\ Start(Append(q, m), rank[f], n + 2) = Ticked(m.before, m.wave)
    BY <1>2, <2>1, <2>2, LineAppend
  <2>6. StopsLast(Append(q, m))
    BY <1>2, <2>1, <2>2, StopsAppend
  <2>7. /\ Len(Append(q, m)) = n + 1 /\ Append(q, m)[n + 1] = m
        /\ \A i \in 1 .. n : Append(q, m)[i] = q[i]
    BY <1>2, <2>1, AppendRange
  <2> HIDE DEF n
  <2>8. \A i \in 1 .. n + 1 : Append(q, m)[i].kind # "stop"
    <3>1. \A i \in 1 .. n + 1 : i \in 1 .. n \/ i = n + 1
      BY <2>1
    <3> QED BY <1>2, <2>2, <2>7, <3>1
  <2>9. (n + 1) + 1 = n + 2
    BY <2>1
  <2> QED BY <1>1, <1>2, <2>3, <2>4, <2>5, <2>6, <2>7, <2>8, <2>9
<1>6. InStep(scheduler', commands', Before')
  BY <1>1, <1>3, <1>4, InStepNothing
<1> QED BY <1>5, <1>6 DEF Chained

LEMMA PumpRestChained ==
  ASSUME Chained, PumpRest
  PROVE  Chained'
<1>1. pump \in {"waiting", "sleeping"} /\ pump' = "waiting"
      /\ UNCHANGED <<scheduler, commands, rank, inbox>>
  BY DEF PumpRest, Ready
<1> QED BY <1>1 DEF Chained, Arrival, Before

LEMMA PumpFailsChained ==
  ASSUME Chained, PumpFails
  PROVE  Chained'
<1>1. pump \in {"waiting", "sleeping"} /\ pump' = "failed" /\ UNCHANGED <<rank, inbox>>
  BY DEF PumpFails, Ready
<1> QED BY <1>1 DEF Chained

LEMMA ShutdownChained ==
  ASSUME TypeOK, Chained, Shutdown
  PROVE  Chained'
<1>1. /\ pump \in {"waiting", "sleeping"} /\ pump' = "stopped" /\ rank' = rank
      /\ inbox' = [f \in Follower |-> Append(inbox[f], Stop)]
  BY DEF Shutdown, Broadcast
<1>2. ASSUME NEW f \in Follower
      PROVE  InLine(inbox'[f], rank'[f]) /\ StopsLast(inbox'[f])
  <2>1. inbox[f] \in Seq(Message) /\ Stop \in Message /\ Stop.kind = "stop"
    BY MessageKinds DEF TypeOK, RanksTyped
  <2>2. InLine(inbox[f], rank[f]) /\ \A i \in 1 .. Len(inbox[f]) : inbox[f][i].kind # "stop"
    BY <1>1 DEF Chained
  <2>3. InLine(Append(inbox[f], Stop), rank[f])
    BY <2>1, <2>2, LineAppend
  <2>4. StopsLast(Append(inbox[f], Stop))
    BY <2>1, <2>2, StopsAppend
  <2> QED BY <1>1, <2>3, <2>4
<1> QED BY <1>1, <1>2 DEF Chained

LEMMA FollowChained ==
  ASSUME TypeOK, Chained, NEW f \in Follower, Follow(f)
  PROVE  Chained'
<1>1. UNCHANGED <<scheduler, commands, pump>> /\ Before' = Before
  BY DEF Follow, leader, Before
<1>2. \A g \in Follower \ {f} : inbox'[g] = inbox[g] /\ rank'[g] = rank[g]
  BY FollowIs DEF TypeOK, RanksTyped
<1>3. \A g \in Follower : Arrival(g)' = Start(inbox'[g], rank'[g], Len(inbox'[g]) + 1)
  BY DEF Arrival
<1>4. ASSUME NEW g \in Follower \ {f}
      PROVE  /\ InLine(inbox'[g], rank'[g]) /\ StopsLast(inbox'[g])
             /\ pump' # "stopped" => \A i \in 1 .. Len(inbox'[g]) : inbox'[g][i].kind # "stop"
             /\ pump' \in {"waiting", "sleeping"} => InStep(Arrival(g)', commands', Before')
  BY <1>1, <1>2, <1>3 DEF Chained, Arrival
<1> DEFINE q == inbox[f]
           s == rank[f]
<1>5. /\ q \in Seq(Message) /\ q # <<>> /\ s \in SchedulerState /\ StopsLast(q) /\ InLine(q, s)
      /\ pump # "stopped" => \A i \in 1 .. Len(q) : q[i].kind # "stop"
      /\ pump \in {"waiting", "sleeping"} => InStep(Arrival(f), commands, Before)
      /\ Arrival(f) = Start(q, s, Len(q) + 1)
  BY FollowIs DEF Chained, Arrival
<1>6. inbox'[f] = Tail(q)
  BY FollowIs DEF TypeOK, RanksTyped
<1>7. /\ StopsLast(Tail(q))
      /\ q[1].kind = "stop" => Tail(q) = <<>>
      /\ \A i \in 1 .. Len(Tail(q)) : Tail(q)[i].kind = "stop"
                                        => \E j \in 1 .. Len(q) : q[j].kind = "stop"
  BY <1>5, StopsTail, Zenon
<1>8. pump' # "stopped" => \A i \in 1 .. Len(Tail(q)) : Tail(q)[i].kind # "stop"
  BY <1>1, <1>5, <1>7, Zenon
<1>9. CASE q[1].kind = "stop"
  <2>1. pump = "stopped"
    <3>1. 1 \in 1 .. Len(q)
      BY <1>5, LenProperties, EmptySeq
    <3> QED BY <1>5, <1>9, <3>1
  <2>2. Tail(q) = <<>> /\ Len(Tail(q)) = 0
    BY <1>7, <1>9
  <2>3. InLine(inbox'[f], rank'[f])
    <3>1. 1 .. Len(Tail(q)) = {}
      BY <2>2
    <3> QED BY <1>6, <3>1 DEF InLine
  <2> QED BY <1>1, <1>4, <1>6, <1>7, <2>1, <2>3 DEF Chained
<1>10. CASE q[1] \in TurnMessage
  <2> DEFINE t == Ticked(Replayed(s, q[1].commands), q[1].wave)
  <2>1. q[1].kind = "turn" /\ q[1].kind # "stop"
    BY <1>10, TurnFields
  <2>2. rank'[f] = t
    BY <2>1, FollowIs DEF TypeOK, RanksTyped
  <2>3. InLine(Tail(q), t) /\ Start(Tail(q), t, Len(Tail(q)) + 1) = Start(q, s, Len(q) + 1)
    BY <1>5, <2>1, LineTail
  <2>4. Arrival(f)' = Arrival(f)
    BY <1>3, <1>5, <1>6, <2>2, <2>3
  <2>5. InLine(inbox'[f], rank'[f]) /\ StopsLast(inbox'[f])
    BY <1>6, <1>7, <2>2, <2>3
  <2>6. pump' \in {"waiting", "sleeping"} => InStep(Arrival(f)', commands', Before')
    BY <1>1, <1>5, <2>4
  <2>7. pump' # "stopped" => \A i \in 1 .. Len(inbox'[f]) : inbox'[f][i].kind # "stop"
    BY <1>6, <1>8
  <2> QED BY <1>4, <2>5, <2>6, <2>7 DEF Chained
<1> QED BY <1>9, <1>10, FollowIs

-----------------------------------------------------------------------------
\* Streams.

\* The first n tokens of an answer.
Tokens(n) == [i \in 1 .. n |-> i]

\* The tokens after the first a, up to the b-th.
Following(d, a, b) ==
  /\ a \in Nat /\ b \in Nat /\ b > a
  /\ d \in Seq(Nat) /\ Len(d) = b - a
  /\ \A i \in 1 .. b - a : d[i] = a + i

LEMMA Counting ==
  ASSUME NEW n \in Nat
  PROVE  /\ Tokens(n) \in Seq(Nat) /\ Len(Tokens(n)) = n
         /\ \A i \in 1 .. n : Tokens(n)[i] = i
BY DEF Tokens

LEMMA NothingYet ==
  ASSUME NEW n, n = 0
  PROVE  <<>> \o <<>> = [i \in 1 .. n |-> i]
<1>1. <<>> \in Seq(Nat) /\ Len(<<>>) = 0
  OBVIOUS
<1>2. <<>> \o <<>> = <<>>
  BY <1>1, ConcatEmptySeq
<1>3. Tokens(n) \in Seq(Nat) /\ Len(Tokens(n)) = 0
  BY Counting
<1>4. Tokens(n) = <<>>
  BY <1>3, EmptySeq
<1> QED BY <1>2, <1>4 DEF Tokens

Joined(x, y) == x \o y

\* A stream that was handed the first a tokens is handed those up to b.
LEMMA HandMore ==
  ASSUME NEW x \in Seq(Nat), NEW y \in Seq(Nat), NEW d, NEW a, NEW b,
         Following(d, a, b), Joined(x, y) = Tokens(a)
  PROVE  Joined(x, Joined(y, d)) = Tokens(b)
<1>a. a \in Nat /\ b \in Nat /\ b > a
  BY DEF Following
<1>0. d \in Seq(Nat) /\ Len(d) = b - a /\ \A i \in 1 .. b - a : d[i] = a + i
  BY DEF Following
<1> DEFINE u == x \o y
           v == y \o d
           w == x \o v
           m == Len(x)
           n == Len(y)
<1>1. m \in Nat /\ n \in Nat
  BY LenProperties
<1>2. /\ Len(u) = m + n
      /\ \A i \in 1 .. m + n : u[i] = IF i <= m THEN x[i] ELSE y[i - m]
  BY ConcatProperties
<1>3. /\ v \in Seq(Nat) /\ Len(v) = n + Len(d)
      /\ \A i \in 1 .. n + Len(d) : v[i] = IF i <= n THEN y[i] ELSE d[i - n]
  BY <1>a, <1>0, ConcatProperties
<1>4. Len(u) = a /\ \A i \in 1 .. a : u[i] = i
  BY <1>a, Counting DEF Joined
<1> HIDE DEF u, v
<1>v. v \in Seq(Nat)
  BY <1>3
<1>5. /\ w \in Seq(Nat) /\ Len(w) = m + Len(v)
      /\ \A i \in 1 .. m + Len(v) : w[i] = IF i <= m THEN x[i] ELSE v[i - m]
  BY <1>v, ConcatProperties
<1> HIDE DEF w, m, n
<1>6. m + n = a /\ n + Len(d) = b - m /\ m + Len(v) = b /\ Len(w) = b
  <2>1. m + n = a /\ Len(v) = n + (b - a) /\ Len(w) = m + Len(v) /\ Len(d) = b - a
    BY <1>a, <1>0, <1>2, <1>3, <1>4, <1>5
  <2> QED BY <1>a, <1>1, <2>1
<1>7. /\ \A i \in 1 .. a : u[i] = IF i <= m THEN x[i] ELSE y[i - m]
      /\ \A i \in 1 .. b - m : v[i] = IF i <= n THEN y[i] ELSE d[i - n]
      /\ \A i \in 1 .. b : w[i] = IF i <= m THEN x[i] ELSE v[i - m]
  BY <1>a, <1>2, <1>3, <1>5, <1>6
<1>8. ASSUME NEW i \in 1 .. b
      PROVE  w[i] = i
  <2>1. CASE i <= m
    <3>1. i \in 1 .. a
      BY <1>a, <1>1, <1>6, <2>1
    <3>2. w[i] = x[i] /\ u[i] = x[i]
      BY <1>7, <2>1, <3>1
    <3> QED BY <1>a, <1>4, <3>1, <3>2
  <2>2. CASE ~(i <= m) /\ i <= a
    <3> DEFINE j == i - m
    <3>1. i \in 1 .. a /\ j \in 1 .. b - m /\ j <= n
      BY <1>a, <1>1, <1>6, <2>2
    <3>2. w[i] = v[j] /\ u[i] = y[j]
      BY <1>7, <2>2, <3>1
    <3> HIDE DEF j
    <3>3. v[j] = y[j]
      BY <1>7, <3>1
    <3> QED BY <1>a, <1>4, <3>1, <3>2, <3>3
  <2>3. CASE i > a
    <3> DEFINE j == i - m
               e == j - n
    <3>1. /\ ~(i <= m) /\ j \in 1 .. b - m /\ ~(j <= n)
          /\ e \in 1 .. b - a /\ a + e = i
      BY <1>a, <1>1, <1>6, <2>3
    <3>2. w[i] = v[j]
      BY <1>7, <3>1
    <3> HIDE DEF j
    <3>3. v[j] = d[e]
      BY <1>7, <3>1
    <3>4. d[e] = a + e
      BY <1>a, <1>0, <3>1
    <3> QED BY <3>1, <3>2, <3>3, <3>4
  <2> QED BY <1>a, <1>1, <2>1, <2>2, <2>3
<1> DEFINE z == Tokens(b)
<1>9. z \in Seq(Nat) /\ Len(z) = b /\ \A i \in 1 .. b : z[i] = i
  BY <1>a, Counting
<1> HIDE DEF z
<1>10. w = z
  BY <1>a, <1>5, <1>6, <1>8, <1>9, SeqEqual
<1> QED BY <1>a, <1>10 DEF w, v, z, Joined

LEMMA DeltaFollows ==
  ASSUME NEW s \in SchedulerState, NEW k \in Key, offset[k] \in Nat,
         s.produced[k] > offset[k]
  PROVE  Following(Delta(s, k), offset[k], s.produced[k])
<1>1. s.produced[k] \in Nat /\ s.produced[k] - offset[k] \in Nat
  BY SchedulerFields
<1> QED BY <1>1 DEF Delta, Following

LEMMA HandedFrame ==
  ASSUME Handed, UNCHANGED <<scheduler, future, offset, client>>
  PROVE  Handed'
BY DEF Handed

\* A client changes and what it was handed does not.
LEMMA HandedClient ==
  ASSUME TypeOK, Handed, UNCHANGED <<scheduler, future, offset>>, NEW k \in Key, NEW c,
         client' = [client EXCEPT ![k] = c],
         c.state \in {"watching", "sending"} =>
           /\ client[k].state \in {"watching", "sending"}
           /\ c.output \o c.pending = client[k].output \o client[k].pending
  PROVE  Handed'
<1>1. client'[k] = c /\ \A j \in Key \ {k} : client'[j] = client[j]
  BY DEF TypeOK, ClientsTyped
<1>2. ASSUME NEW j \in Key, client'[j].state \in {"watching", "sending"}
      PROVE  /\ client[j].state \in {"watching", "sending"}
             /\ client'[j].output \o client'[j].pending = client[j].output \o client[j].pending
  <2>1. CASE j = k
    BY <1>1, <1>2, <2>1
  <2>2. CASE j # k
    BY <1>1, <1>2, <2>2
  <2> QED BY <2>1, <2>2
<1>3. \A j \in Key : client'[j].state \in {"watching", "sending"} =>
         /\ j \in Streamed
         /\ client'[j].output \o client'[j].pending = [i \in 1 .. offset[j] |-> i]
  BY <1>2 DEF Handed
<1>4. \A j \in Key :
        /\ offset[j] <= scheduler.produced[j]
        /\ future[j] = "result" =>
             /\ j \notin Keys(scheduler)
             /\ scheduler.produced[j] = AnswerLength
             /\ j \in Streamed => offset[j] = AnswerLength
  BY DEF Handed
<1> QED BY <1>3, <1>4 DEF Handed

LEMMA ResumeHanded ==
  ASSUME TypeOK, Handed, NEW k \in Key, Resume(k)
  PROVE  Handed'
<1> DEFINE c == [client[k] EXCEPT !.changed = TRUE]
<1>1. client' = [client EXCEPT ![k] = c] /\ UNCHANGED <<scheduler, future, offset>>
  BY DEF Resume
<1>2. client[k] \in Client /\ TRUE \in Flag
  BY DEF TypeOK, ClientsTyped, Flag
<1>3. c.state = client[k].state /\ c.output = client[k].output /\ c.pending = client[k].pending
  BY <1>2, ClientChanged
<1> HIDE DEF c
<1> QED BY <1>1, <1>3, HandedClient

LEMMA WatchHanded ==
  ASSUME TypeOK, Handed, NEW k \in Key, Watch(k)
  PROVE  Handed'
<1> DEFINE c == Taken(client[k], Watched(k))
<1>1. /\ client' = [client EXCEPT ![k] = c] /\ client[k].state = "watching"
      /\ client[k] \in Client /\ Watched(k) \in ClientState
  BY WatchIs
<1>2. c.output = client[k].output \o client[k].pending /\ c.pending = <<>>
  BY <1>1, ClientTakes
<1>3. UNCHANGED <<scheduler, future, offset>>
  BY DEF Watch, leader
<1>4. client[k].output \o client[k].pending \in Seq(Nat)
  BY <1>1, ClientFields, ConcatProperties
<1> HIDE DEF c
<1>5. c.output \o c.pending = client[k].output \o client[k].pending
  BY <1>2, <1>4, ConcatEmptySeq
<1> QED BY <1>1, <1>3, <1>5, HandedClient

\* A client that only changes its state.
LEMMA StatedIs ==
  ASSUME TypeOK, NEW k \in Key, NEW st \in ClientState,
         client' = [client EXCEPT ![k].state = st]
  PROVE  \E c : /\ client' = [client EXCEPT ![k] = c] /\ c.state = st
                /\ c.output = client[k].output /\ c.pending = client[k].pending
<1> DEFINE c == [client[k] EXCEPT !.state = st]
<1>1. client[k] \in Client
  BY DEF TypeOK, ClientsTyped
<1>2. c.state = st /\ c.output = client[k].output /\ c.pending = client[k].pending
  BY <1>1, ClientStated
<1>3. client' = [client EXCEPT ![k] = c]
  OBVIOUS
<1> HIDE DEF c
<1> QED BY <1>2, <1>3

LEMMA SentHanded ==
  ASSUME TypeOK, Handed, NEW k \in Key, Sent(k)
  PROVE  Handed'
<1> DEFINE st == IF Done(k) THEN Verdict(k) ELSE "watching"
<1>1. st \in ClientState
  BY Verdicts DEF ClientState
<1>2. /\ client' = [client EXCEPT ![k].state = st] /\ client[k].state = "sending"
      /\ UNCHANGED <<scheduler, future, offset>>
  BY DEF Sent, leader
<1> HIDE DEF st
<1>3. PICK c : /\ client' = [client EXCEPT ![k] = c] /\ c.state = st
               /\ c.output = client[k].output /\ c.pending = client[k].pending
  BY <1>1, <1>2, StatedIs
<1> QED BY <1>2, <1>3, HandedClient

LEMMA AnswerHanded ==
  ASSUME TypeOK, Handed, NEW k \in Key, Answer(k)
  PROVE  Handed'
<1> DEFINE st == IF task[k] = "returned" THEN "answered" ELSE "refused"
<1>1. st \in ClientState /\ st \notin {"watching", "sending"}
  BY DEF ClientState
<1>2. /\ client' = [client EXCEPT ![k].state = st]
      /\ UNCHANGED <<scheduler, future, offset>>
  BY DEF Answer, leader
<1> HIDE DEF st
<1>3. PICK c : /\ client' = [client EXCEPT ![k] = c] /\ c.state = st
               /\ c.output = client[k].output /\ c.pending = client[k].pending
  BY <1>1, <1>2, StatedIs
<1>4. c.state \notin {"watching", "sending"}
  BY <1>1, <1>3, Zenon
<1> QED BY <1>2, <1>3, <1>4, HandedClient

\* What becomes of the streams when the schedulers and futures change.
LEMMA HandedKeeps ==
  ASSUME Handed, UNCHANGED <<offset, client>>,
         Keys(scheduler') \subseteq Keys(scheduler),
         scheduler'.produced = scheduler.produced,
         \A k \in Key : future'[k] = "result" => future[k] = "result"
  PROVE  Handed'
<1>1. ASSUME NEW k \in Key
      PROVE  /\ offset'[k] <= scheduler'.produced[k]
             /\ client'[k].state \in {"watching", "sending"} =>
                  /\ k \in Streamed
                  /\ client'[k].output \o client'[k].pending = [i \in 1 .. offset'[k] |-> i]
  BY DEF Handed
<1>2. ASSUME NEW k \in Key, future'[k] = "result"
      PROVE  /\ k \notin Keys(scheduler')
             /\ scheduler'.produced[k] = AnswerLength
             /\ k \in Streamed => offset'[k] = AnswerLength
  BY <1>2 DEF Handed
<1> QED BY <1>1, <1>2 DEF Handed

LEMMA DisconnectHanded ==
  ASSUME TypeOK, Handed, NEW k \in Key, Disconnect(k)
  PROVE  Handed'
<1>1. /\ client' = [client EXCEPT ![k].state = "gone"] /\ UNCHANGED <<scheduler, offset>>
      /\ future' = [future EXCEPT ![k] = IF task[k] # "awaiting" THEN future[k]
                                         ELSE IF future[k] = "pending" THEN "cancelled"
                                         ELSE "overtaken"]
  BY DEF Disconnect
<1>2. "gone" \in ClientState
  BY DEF ClientState
<1>3. PICK c : client' = [client EXCEPT ![k] = c] /\ c.state = "gone"
  BY <1>1, <1>2, StatedIs
<1>4. \A j \in Key : future'[j] = "result" => future[j] = "result"
  BY <1>1 DEF TypeOK, ClientsTyped
<1>5. \A j \in Key : client'[j].state \in {"watching", "sending"} => client'[j] = client[j]
  BY <1>3 DEF TypeOK, ClientsTyped
<1>6. ASSUME NEW j \in Key
      PROVE  /\ offset'[j] <= scheduler'.produced[j]
             /\ client'[j].state \in {"watching", "sending"} =>
                  /\ j \in Streamed
                  /\ client'[j].output \o client'[j].pending = [i \in 1 .. offset'[j] |-> i]
  <2>1. offset'[j] <= scheduler'.produced[j]
    BY <1>1 DEF Handed
  <2>2. ASSUME client'[j].state \in {"watching", "sending"}
        PROVE  /\ j \in Streamed
               /\ client'[j].output \o client'[j].pending = [i \in 1 .. offset'[j] |-> i]
    <3>1. client'[j] = client[j] /\ client[j].state \in {"watching", "sending"}
      BY <1>5, <2>2
    <3> QED BY <1>1, <3>1 DEF Handed
  <2> QED BY <2>1, <2>2
<1>7. ASSUME NEW j \in Key, future'[j] = "result"
      PROVE  /\ j \notin Keys(scheduler')
             /\ scheduler'.produced[j] = AnswerLength
             /\ j \in Streamed => offset'[j] = AnswerLength
  <2>1. future[j] = "result"
    BY <1>4, <1>7
  <2> QED BY <1>1, <2>1 DEF Handed
<1> QED BY <1>6, <1>7 DEF Handed

LEMMA ExecuteHanded ==
  ASSUME TypeOK, KeysStarted, Handed, Execute
  PROVE  Handed'
<1> DEFINE k == started + 1
           st == IF k \in Streamed THEN "watching" ELSE "polling"
           accepted == pump # "failed" /\ CanSubmit(scheduler, k)
           ch == ~accepted
           c == [NoClient EXCEPT !.state = st, !.changed = ch]
<1>1. k \in Key /\ k \notin 1 .. started
  BY IngressAssumption DEF Execute, TypeOK, RanksTyped, Key
<1>2. /\ accepted => /\ scheduler' = Submitted(scheduler, k)
                     /\ future' = [future EXCEPT ![k] = "pending"]
      /\ (~accepted) => UNCHANGED <<scheduler, future>>
      /\ client' = [client EXCEPT ![k] = c]
      /\ offset' = offset
  BY DEF Execute
<1>3. st \in ClientState /\ (st \in {"watching", "sending"} => k \in Streamed)
  BY DEF ClientState
<1>4. ch \in Flag
  BY Zenon DEF Flag
<1> HIDE DEF k, st, ch
<1>5. c.state = st /\ c.output = <<>> /\ c.pending = <<>>
  BY <1>3, <1>4, ClientArrives
<1> HIDE DEF c, accepted
<1>6. /\ Keys(Submitted(scheduler, k)) = Keys(scheduler) \cup {k}
      /\ Submitted(scheduler, k).produced = scheduler.produced
  BY <1>1, SubmittedKeeps DEF TypeOK, RanksTyped
<1>7. /\ Keys(scheduler') \subseteq Keys(scheduler) \cup {k}
      /\ scheduler'.produced = scheduler.produced
  BY <1>2, <1>6
<1>8. /\ future'[k] # "result" /\ offset[k] = 0
      /\ \A j \in Key \ {k} : future'[j] = future[j] /\ client'[j] = client[j]
      /\ client'[k] = c
  <2>1. future[k] = "none" /\ offset[k] = 0
    BY <1>1 DEF KeysStarted
  <2>2. future' = [future EXCEPT ![k] = "pending"] \/ future' = future
    BY <1>2
  <2> QED BY <1>1, <1>2, <2>1, <2>2 DEF TypeOK, ClientsTyped
<1>9. c.output \o c.pending = [i \in 1 .. offset[k] |-> i]
  <2>1. <<>> \o <<>> = [i \in 1 .. offset[k] |-> i]
    BY <1>8, NothingYet
  <2> QED BY <1>5, <2>1
<1>10. ASSUME NEW j \in Key, client'[j].state \in {"watching", "sending"}
       PROVE  /\ j \in Streamed
              /\ client'[j].output \o client'[j].pending = [i \in 1 .. offset'[j] |-> i]
  <2>1. CASE j = k
    BY <1>2, <1>3, <1>5, <1>8, <1>9, <1>10, <2>1
  <2>2. CASE j # k
    <3>1. client'[j] = client[j]
      BY <1>8, <2>2
    <3> QED BY <1>2, <1>10, <3>1 DEF Handed
  <2> QED BY <2>1, <2>2
<1>11. ASSUME NEW j \in Key, future'[j] = "result"
       PROVE  /\ j \notin Keys(scheduler')
              /\ scheduler'.produced[j] = AnswerLength
              /\ j \in Streamed => offset'[j] = AnswerLength
  <2>1. j # k /\ future[j] = "result"
    BY <1>8, <1>11
  <2> QED BY <1>2, <1>7, <2>1 DEF Handed
<1>12. \A j \in Key : offset'[j] <= scheduler'.produced[j]
  BY <1>2, <1>7 DEF Handed
<1> QED BY <1>10, <1>11, <1>12 DEF Handed

LEMMA PumpFailsHanded ==
  ASSUME TypeOK, Handed, PumpFails
  PROVE  Handed'
<1>1. scheduler' = Before /\ UNCHANGED <<offset, client>>
  BY DEF PumpFails
<1>2. \A k \in Key : future'[k] = "result" => future[k] = "result"
  BY DEF PumpFails
<1>3. Keys(scheduler') \subseteq Keys(scheduler) /\ scheduler'.produced = scheduler.produced
  BY <1>1, BeforeKeeps
<1> QED BY <1>1, <1>2, <1>3, HandedKeeps

LEMMA ShutdownHanded ==
  ASSUME TypeOK, Handed, Shutdown
  PROVE  Handed'
<1>1. scheduler' = Closed(scheduler) /\ UNCHANGED <<offset, client, future>>
  BY DEF Shutdown
<1>2. Keys(scheduler') \subseteq Keys(scheduler) /\ scheduler'.produced = scheduler.produced
  BY <1>1, ClosedKeeps DEF TypeOK, RanksTyped
<1> QED BY <1>1, <1>2, HandedKeeps

LEMMA PumpTurnHanded ==
  ASSUME TypeOK, Handed, NEW wave \in SUBSET Runnable, PumpTurn(wave)
  PROVE  Handed'
<1> DEFINE made == Produced(Before, wave)
           over == Finished(made)
<1>1. scheduler' = Ticked(Before, wave) /\ Deliver(made, over)
  BY DEF PumpTurn, TurnThen
<1>2. /\ Keys(scheduler') \subseteq Keys(scheduler) \ over
      /\ scheduler'.produced = made.produced
      /\ made.produced \in [Key -> Nat]
      /\ \A k \in Key : made.produced[k] = IF k \in wave THEN scheduler.produced[k] + 1
                                                        ELSE scheduler.produced[k]
  BY <1>1, TurnKeeps
<1>3. wave \subseteq Keys(scheduler)
  BY BeforeKeeps
<1>4. \A k \in over : made.produced[k] = AnswerLength
  BY DEF Finished
<1>5. made \in SchedulerState
  BY TurnKeeps, BeforeKeeps, ProducedKeeps
<1>6. scheduler.produced \in [Key -> Nat] /\ offset \in [Key -> Nat] /\ client \in [Key -> Client]
  BY SchedulerFields DEF TypeOK, RanksTyped, ClientsTyped
<1> HIDE DEF made, over
<1>7. /\ offset' = [k \in Key |-> IF Streaming(k) THEN made.produced[k] ELSE offset[k]]
      /\ client' = [k \in Key |->
                      IF Streaming(k) /\ made.produced[k] > offset[k]
                      THEN [client[k] EXCEPT !.pending = client[k].pending \o Delta(made, k),
                                             !.changed = TRUE]
                      ELSE client[k]]
      /\ future' = [k \in Key |-> IF k \in over /\ task[k] = "awaiting" /\ future[k] = "pending"
                                  THEN "result" ELSE future[k]]
  BY <1>1 DEF Deliver, Resolved
<1>8. \A k \in Key : /\ scheduler.produced[k] \in Nat /\ offset[k] \in Nat
                     /\ offset[k] <= scheduler.produced[k]
                     /\ made.produced[k] \in Nat /\ scheduler.produced[k] <= made.produced[k]
                     /\ offset[k] <= made.produced[k]
  <2> SUFFICES ASSUME NEW k \in Key
               PROVE  /\ scheduler.produced[k] \in Nat /\ offset[k] \in Nat
                      /\ offset[k] <= scheduler.produced[k]
                      /\ made.produced[k] \in Nat /\ scheduler.produced[k] <= made.produced[k]
                      /\ offset[k] <= made.produced[k]
    OBVIOUS
  <2>1. /\ scheduler.produced[k] \in Nat /\ offset[k] \in Nat /\ made.produced[k] \in Nat
        /\ offset[k] <= scheduler.produced[k]
    BY <1>2, <1>6 DEF Handed
  <2>2. scheduler.produced[k] <= made.produced[k]
    BY <1>2, <2>1
  <2> QED BY <2>1, <2>2
<1>9. \A k \in Key : offset'[k] <= scheduler'.produced[k]
  <2>1. \A k \in Key : offset'[k] = IF Streaming(k) THEN made.produced[k] ELSE offset[k]
    BY <1>7
  <2> QED BY <1>2, <1>8, <2>1
<1>10. ASSUME NEW k \in Key, client'[k].state \in {"watching", "sending"}
       PROVE  /\ k \in Streamed
              /\ client'[k].output \o client'[k].pending = [i \in 1 .. offset'[k] |-> i]
  <2> DEFINE c == client[k]
  <2>1. c \in Client /\ c.pending \in Seq(Nat) /\ c.output \in Seq(Nat)
    BY <1>6, ClientFields
  <2>2. c.state \in {"watching", "sending"} =>
          k \in Streamed /\ c.output \o c.pending = [i \in 1 .. offset[k] |-> i]
    BY DEF Handed
  <2>3. CASE Streaming(k) /\ made.produced[k] > offset[k]
    <3> DEFINE d == Delta(made, k)
               pe == c.pending \o d
               n == made.produced[k]
               a == offset[k]
    <3>1. /\ a \in Nat /\ n \in Nat /\ n > a
          /\ Following(d, a, n)
      BY <1>5, <1>8, <2>3, DeltaFollows
    <3>2. client'[k] = [c EXCEPT !.pending = pe, !.changed = TRUE] /\ offset'[k] = n
      BY <1>7, <2>3
    <3>3. c.state \in {"watching", "sending"} => k \in Streamed /\ c.output \o c.pending = Tokens(a)
      BY <2>2 DEF Tokens
    <3> HIDE DEF c, d, n, a
    <3>4. c.state \in {"watching", "sending"} => c.output \o pe = Tokens(n)
      <4> SUFFICES ASSUME c.state \in {"watching", "sending"}
                   PROVE  c.output \o pe = Tokens(n)
        OBVIOUS
      <4> DEFINE x == c.output
                 y == c.pending
      <4>1. x \in Seq(Nat) /\ y \in Seq(Nat) /\ Joined(x, y) = Tokens(a)
        BY <2>1, <3>3 DEF Joined
      <4>2. pe = Joined(y, d)
        BY DEF Joined
      <4> HIDE DEF x, y, pe
      <4>3. Joined(x, pe) = Tokens(n)
        BY <3>1, <4>1, <4>2, HandMore
      <4> QED BY <4>3 DEF x, Joined
    <3>5. pe \in Seq(Nat)
      BY <2>1, <3>1, ConcatProperties DEF Following
    <3> HIDE DEF pe
    <3>6. /\ client'[k].state = c.state /\ client'[k].output = c.output
          /\ client'[k].pending = pe
      <4> DEFINE e == [c EXCEPT !.pending = pe, !.changed = TRUE]
      <4>1. e.state = c.state /\ e.output = c.output /\ e.pending = pe
        BY <2>1, <3>5, ClientHanded
      <4>2. client'[k] = e
        BY <3>2
      <4> HIDE DEF e
      <4> QED BY <4>1, <4>2
    <3> QED BY <1>10, <3>2, <3>3, <3>4, <3>6 DEF Tokens
  <2>4. CASE ~(Streaming(k) /\ made.produced[k] > offset[k])
    <3>1. client'[k] = c
      BY <1>7, <2>4
    <3>2. offset'[k] = offset[k]
      <4>1. CASE Streaming(k)
        <5>1. made.produced[k] = offset[k]
          BY <1>8, <2>4, <4>1
        <5> QED BY <1>7, <4>1, <5>1
      <4>2. CASE ~Streaming(k)
        BY <1>7, <4>2
      <4> QED BY <4>1, <4>2
    <3> QED BY <1>10, <2>2, <3>1, <3>2
  <2> QED BY <2>3, <2>4
<1>11. ASSUME NEW k \in Key, future'[k] = "result"
       PROVE  /\ k \notin Keys(scheduler')
              /\ scheduler'.produced[k] = AnswerLength
              /\ k \in Streamed => offset'[k] = AnswerLength
  <2>1. CASE k \in over /\ task[k] = "awaiting"
    <3>1. k \notin Keys(scheduler') /\ scheduler'.produced[k] = AnswerLength
      BY <1>2, <1>4, <2>1
    <3>2. k \in Streamed => offset'[k] = AnswerLength
      BY <1>4, <1>7, <2>1 DEF Streaming
    <3> QED BY <3>1, <3>2
  <2>2. CASE ~(k \in over /\ task[k] = "awaiting")
    <3>1. future[k] = "result"
      BY <1>7, <1>11, <2>2
    <3>2. /\ k \notin Keys(scheduler) /\ scheduler.produced[k] = AnswerLength
          /\ k \in Streamed => offset[k] = AnswerLength
      BY <3>1 DEF Handed
    <3>3. k \notin wave /\ k \notin Keys(scheduler')
      BY <1>2, <1>3, <3>2
    <3>4. made.produced[k] = AnswerLength
      BY <1>2, <3>2, <3>3
    <3>5. k \in Streamed => offset'[k] = AnswerLength
      BY <1>7, <3>2, <3>4
    <3> QED BY <1>2, <3>3, <3>4, <3>5
  <2> QED BY <2>1, <2>2
<1> QED BY <1>9, <1>10, <1>11 DEF Handed

-----------------------------------------------------------------------------
\* The theorems.

LEMMA InitInv == Init => IInv
<1> SUFFICES ASSUME Init PROVE IInv
  OBVIOUS
<1>1. TypeOK
  BY InitTyped
<1>2. /\ scheduler = EmptyScheduler /\ commands = <<>> /\ started = 0
      /\ pump = "waiting" /\ task = [k \in Key |-> "absent"]
      /\ future = [k \in Key |-> "none"] /\ offset = [k \in Key |-> 0]
      /\ client = [k \in Key |-> NoClient]
      /\ rank = [f \in Follower |-> EmptyScheduler]
      /\ inbox = [f \in Follower |-> <<>>]
  BY DEF Init
<1>3. EmptyScheduler \in SchedulerState /\ Keys(EmptyScheduler) = {}
      /\ \A k \in Key : EmptyScheduler.produced[k] = 0
  BY EmptyState DEF EmptyScheduler
<1>4. KeysStarted
  <2>1. Range(commands) = {}
    BY <1>2 DEF Range
  <2> QED BY <1>2, <1>3, <2>1 DEF KeysStarted
<1>5. Chained
  <2>1. Before = EmptyScheduler
    BY <1>2, <1>3, NoCommands, CancelledNone DEF Before
  <2>2. InStep(EmptyScheduler, <<>>, EmptyScheduler)
    BY <1>3, InStepNothing
  <2>3. Len(<<>>) = 0 /\ 1 .. Len(<<>>) = {} /\ Len(<<>>) + 1 = 1
    OBVIOUS
  <2>4. \A f \in Follower : inbox[f] = <<>> /\ rank[f] = EmptyScheduler
    BY <1>2
  <2>5. \A f \in Follower : Arrival(f) = EmptyScheduler
    BY <2>3, <2>4 DEF Arrival, Start
  <2>6. \A f \in Follower : InStep(Arrival(f), commands, Before)
    BY <1>2, <2>1, <2>2, <2>5
  <2>7. \A f \in Follower :
          /\ InLine(inbox[f], rank[f]) /\ StopsLast(inbox[f])
          /\ \A i \in 1 .. Len(inbox[f]) : inbox[f][i].kind # "stop"
    BY <2>3, <2>4 DEF InLine, StopsLast
  <2> QED BY <2>6, <2>7 DEF Chained
<1>6. Handed
  <2>1. \A k \in Key : client[k].state = "absent" /\ future[k] = "none" /\ offset[k] = 0
    BY <1>2 DEF NoClient
  <2>2. \A k \in Key : scheduler.produced[k] = 0
    BY <1>2, <1>3
  <2>3. \A k \in Key :
          /\ offset[k] <= scheduler.produced[k]
          /\ client[k].state \notin {"watching", "sending"}
          /\ future[k] # "result"
    BY <2>1, <2>2
  <2> QED BY <2>3, Zenon DEF Handed
<1> QED BY <1>1, <1>4, <1>5, <1>6 DEF IInv

LEMMA StepInv == IInv /\ [Next]_vars => IInv'
<1> SUFFICES ASSUME IInv, [Next]_vars PROVE IInv'
  OBVIOUS
<1>0. TypeOK /\ KeysStarted /\ Chained /\ Handed
  BY DEF IInv
<1>1. CASE Execute
  BY <1>0, <1>1, ExecuteTyped, ExecuteKnown, ExecuteChained, ExecuteHanded DEF IInv
<1>2. ASSUME NEW k \in Key, Resume(k)
      PROVE  IInv'
  BY <1>0, <1>2, ResumeTyped, ResumeKnown, ResumeChained, ResumeHanded DEF IInv
<1>3. ASSUME NEW k \in Key, Watch(k)
      PROVE  IInv'
  <2>1. UNCHANGED <<leader, rank, inbox>>
    BY <1>3 DEF Watch
  <2>2. KeysStarted' /\ Chained'
    BY <1>0, <2>1, KnownFrame, ChainedFrame DEF leader
  <2> QED BY <1>0, <1>3, <2>2, WatchTyped, WatchHanded DEF IInv
<1>4. ASSUME NEW k \in Key, Sent(k)
      PROVE  IInv'
  <2>1. UNCHANGED <<leader, rank, inbox>>
    BY <1>4 DEF Sent
  <2>2. KeysStarted' /\ Chained'
    BY <1>0, <2>1, KnownFrame, ChainedFrame DEF leader
  <2> QED BY <1>0, <1>4, <2>2, SentTyped, SentHanded DEF IInv
<1>5. ASSUME NEW k \in Key, Answer(k)
      PROVE  IInv'
  <2>1. UNCHANGED <<leader, rank, inbox>>
    BY <1>5 DEF Answer
  <2>2. KeysStarted' /\ Chained'
    BY <1>0, <2>1, KnownFrame, ChainedFrame DEF leader
  <2> QED BY <1>0, <1>5, <2>2, AnswerTyped, AnswerHanded DEF IInv
<1>6. ASSUME NEW k \in Key, Disconnect(k)
      PROVE  IInv'
  <2>1. Chained'
    BY <1>0, <1>6, ChainedFrame DEF Disconnect
  <2> QED BY <1>0, <1>6, <2>1, DisconnectTyped, DisconnectKnown, DisconnectHanded DEF IInv
<1>7. ASSUME NEW wave \in SUBSET Runnable, PumpTurn(wave)
      PROVE  IInv'
  BY <1>0, <1>7, PumpTurnTyped, PumpTurnKnown, PumpTurnChained, PumpTurnHanded DEF IInv
<1>8. CASE PumpRest
  <2>1. UNCHANGED <<scheduler, commands, started, task, future, offset, client, rank, inbox>>
    BY <1>8 DEF PumpRest
  <2>2. KeysStarted' /\ Handed'
    BY <1>0, <2>1, KnownFrame, HandedFrame
  <2> QED BY <1>0, <1>8, <2>2, PumpRestTyped, PumpRestChained DEF IInv
<1>9. CASE PumpFails
  BY <1>0, <1>9, PumpFailsTyped, PumpFailsKnown, PumpFailsChained, PumpFailsHanded DEF IInv
<1>10. CASE Shutdown
  BY <1>0, <1>10, ShutdownTyped, ShutdownKnown, ShutdownChained, ShutdownHanded DEF IInv
<1>11. ASSUME NEW f \in Follower, Follow(f)
       PROVE  IInv'
  <2>1. UNCHANGED <<leader, client>>
    BY <1>11 DEF Follow
  <2>2. KeysStarted' /\ Handed'
    BY <1>0, <2>1, KnownFrame, HandedFrame DEF leader
  <2> QED BY <1>0, <1>11, <2>2, FollowTyped, FollowChained DEF IInv
<1>12. CASE UNCHANGED vars
  <2>1. KeysStarted' /\ Chained' /\ Handed'
    BY <1>0, <1>12, KnownFrame, ChainedFrame, HandedFrame DEF vars, leader
  <2>2. TypeOK'
    BY <1>0, <1>12 DEF vars, leader, TypeOK, RanksTyped, ClientsTyped
  <2> QED BY <2>1, <2>2 DEF IInv
<1> QED BY <1>1, <1>2, <1>3, <1>4, <1>5, <1>6, <1>7, <1>8, <1>9, <1>10, <1>11, <1>12
        DEF Next, PumpStep

THEOREM Invariant == Spec => []IInv
<1> QED BY InitInv, StepInv, PTL DEF Spec

\* Every variable keeps its type, and no rank runs more requests than it has
\* execution seats.
THEOREM TypeCorrect == Spec => []TypeOK
<1>1. IInv => TypeOK
  BY DEF IInv
<1> QED BY <1>1, Invariant, PTL

\* However the arrivals, cancellations and turns of the leader interleave with
\* the broadcasts, a follower's tick starts from the state in which the leader's
\* did, and no submit is refused there (http.py, follow).
THEOREM RanksAgree == Spec => []LockStep
<1>1. IInv => LockStep
  <2> SUFFICES ASSUME IInv, NEW f \in Follower, inbox[f] # <<>>, Head(inbox[f]).kind = "turn"
               PROVE  InStep(rank[f], Head(inbox[f]).commands, Head(inbox[f]).before)
    BY DEF LockStep, InStep
  <2> DEFINE q == inbox[f]
  <2>1. q \in Seq(Message) /\ q # <<>> /\ StopsLast(q) /\ InLine(q, rank[f])
    BY DEF IInv, TypeOK, RanksTyped, Chained
  <2>2. Head(q).kind = "turn"
    OBVIOUS
  <2> HIDE DEF q
  <2>3. Head(q) = q[1]
    BY <2>1, StopsTail
  <2>4. 1 \in 1 .. Len(q)
    BY <2>1, LenProperties, EmptySeq
  <2>5. InStep(Start(q, rank[f], 1), q[1].commands, q[1].before)
    BY <2>1, <2>2, <2>3, <2>4 DEF InLine
  <2>6. InStep(rank[f], Head(q).commands, Head(q).before)
    BY <2>3, <2>5 DEF Start
  <2> QED BY <2>6 DEF q
<1> QED BY <1>1, Invariant, PTL

\* Whatever the order of turns, sends and cancellations, a stream that is still
\* read was handed exactly the tokens up to its offset, and all of them once its
\* future has a result (ingress.py, pump).
THEOREM StreamsAreExact == Spec => []ExactStreams
<1>1. IInv => ExactStreams
  BY DEF IInv, Handed, ExactStreams
<1> QED BY <1>1, Invariant, PTL

=============================================================================

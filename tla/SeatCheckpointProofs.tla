------------------------ MODULE SeatCheckpointProofs ------------------------
(***************************************************************************)
(* Proof that SeatScheduler's checkpoints are exact, for any requests,     *)
(* prompts, seats, pages, budgets and queue depth: a checkpoint is what    *)
(* the device holds of the seat.                                           *)
(*                                                                         *)
(* The invariant DeviceInv says what the device holds.  The rows of a      *)
(* lease, by their place in the queue, are its lane; the lane has a course *)
(* (Course) if each row takes the frontier from where the row before it    *)
(* left the prompt: chunk by chunk, and then by rows that follow a sample, *)
(* in which, run as verify rows (SamplesVerified), the device and the      *)
(* frontier accept the same tokens.  A course starts at the frontier's     *)
(* cursor and ends where the native scheduler's counters are (Ends), so    *)
(* that the next row continues it.  Before the lane's first row the device *)
(* holds what the frontier says, unless that row claims the seat and       *)
(* prepares it (Ready).  A hot seat waits for no frame and the device      *)
(* holds its tokens (HotExact); a warm offer's tokens begin those of the   *)
(* request it is made to (OfferInv), which has output left to give         *)
(* (RequestsInv).  All of it rests on the invariants of                    *)
(* SeatSchedulerProofs.                                                    *)
(***************************************************************************)
EXTENDS SeatSchedulerProofs

-----------------------------------------------------------------------------
\* The rows of a lease in the queue.

\* The rows of a frame, or of the attempt, have one of the lease k.
On(k, rows) ==
  /\ k.rid \in DOMAIN rows
  /\ rows[k.rid].seat = k.seat
  /\ rows[k.rid].epoch = k.epoch

\* The rows of the lease k by their place in the queue; the attempt's is the last.
Lane(k, queue, rows) ==
  LET at == [i \in 1 .. Len(queue) + 1 |-> IF i <= Len(queue) THEN queue[i] ELSE rows]
  IN  [i \in {i \in DOMAIN at : On(k, at[i])} |-> at[i][k.rid]]

\* Without this a function with the same domain and values is not known to be equal.
IsMap(f) == f = [x \in DOMAIN f |-> f[x]]

\* L has the rows of k, the one in the attempt at the place after the queue.
LaneBy(L, k, queue, rows) ==
  /\ IsMap(L)
  /\ DOMAIN L \subseteq 1 .. Len(queue) + 1
  /\ \A i \in 1 .. Len(queue) : /\ i \in DOMAIN L <=> On(k, queue[i])
                                /\ On(k, queue[i]) => L[i] = queue[i][k.rid]
  /\ Len(queue) + 1 \in DOMAIN L <=> On(k, rows)
  /\ On(k, rows) => L[Len(queue) + 1] = rows[k.rid]

LEMMA LaneIs ==
  ASSUME NEW k, NEW T, NEW queue \in Seq(T), NEW rows
  PROVE  LaneBy(Lane(k, queue, rows), k, queue, rows)
<1> DEFINE n == Len(queue)
           at == [i \in 1 .. n + 1 |-> IF i <= n THEN queue[i] ELSE rows]
           D == {i \in 1 .. n + 1 : On(k, at[i])}
           L == [i \in D |-> at[i][k.rid]]
<1>1. n \in Nat
  BY LenProperties
<1>2. Lane(k, queue, rows) = L
  BY DEF Lane
<1>3. /\ \A i \in 1 .. n : i \in 1 .. n + 1 /\ at[i] = queue[i]
      /\ n + 1 \in 1 .. n + 1 /\ at[n + 1] = rows
  BY <1>1
<1> HIDE DEF at, n
<1>4. DOMAIN L = D /\ \A i \in D : L[i] = at[i][k.rid]
  OBVIOUS
<1>5. IsMap(L)
  BY <1>4 DEF IsMap
<1>6. \A i \in 1 .. n + 1 : i \in DOMAIN L <=> On(k, at[i])
  BY <1>4
<1> HIDE DEF L
<1>7. DOMAIN L \subseteq 1 .. n + 1
  BY <1>4
<1>8. \A i \in 1 .. n : /\ i \in DOMAIN L <=> On(k, queue[i])
                        /\ On(k, queue[i]) => L[i] = queue[i][k.rid]
  BY <1>3, <1>4, <1>6, Zenon
<1>9. /\ n + 1 \in DOMAIN L <=> On(k, rows)
      /\ On(k, rows) => L[n + 1] = rows[k.rid]
  BY <1>3, <1>4, <1>6, Zenon
<1> QED BY <1>2, <1>5, <1>7, <1>8, <1>9, Zenon DEF n, LaneBy

\* Two partial functions are the same.
LEMMA SameMap ==
  ASSUME NEW f, NEW g, IsMap(f), IsMap(g),
         DOMAIN f = DOMAIN g, \A x \in DOMAIN f : f[x] = g[x]
  PROVE  f = g
<1>1. [x \in DOMAIN f |-> f[x]] = [x \in DOMAIN g |-> g[x]]
  BY Zenon
<1> QED BY <1>1, Zenon DEF IsMap

\* The attempt's rows join the queue.
LEMMA LaneQueued ==
  ASSUME NEW k, NEW T, NEW queue \in Seq(T), NEW rows \in T, NEW none, DOMAIN none = {}
  PROVE  Lane(k, Append(queue, rows), none) = Lane(k, queue, rows)
<1> DEFINE n == Len(queue)
           q == Append(queue, rows)
           L == Lane(k, queue, rows)
           M == Lane(k, q, none)
<1>1. /\ q \in Seq(T) /\ Len(q) = n + 1 /\ n \in Nat
      /\ \A i \in 1 .. n : q[i] = queue[i]
      /\ q[n + 1] = rows
  BY AppendProperties, LenProperties
<1>2. ~On(k, none)
  BY DEF On
<1>3. /\ IsMap(L) /\ DOMAIN L \subseteq 1 .. n + 1
      /\ \A i \in 1 .. n : /\ i \in DOMAIN L <=> On(k, queue[i])
                           /\ On(k, queue[i]) => L[i] = queue[i][k.rid]
      /\ n + 1 \in DOMAIN L <=> On(k, rows)
      /\ On(k, rows) => L[n + 1] = rows[k.rid]
  <2>1. LaneBy(L, k, queue, rows)
    BY LaneIs, Zenon
  <2> HIDE DEF L
  <2> QED BY <2>1 DEF LaneBy
<1>4. /\ IsMap(M) /\ DOMAIN M \subseteq 1 .. (n + 1) + 1
      /\ \A i \in 1 .. n + 1 : /\ i \in DOMAIN M <=> On(k, q[i])
                               /\ On(k, q[i]) => M[i] = q[i][k.rid]
      /\ (n + 1) + 1 \in DOMAIN M <=> On(k, none)
  <2>1. /\ IsMap(M) /\ DOMAIN M \subseteq 1 .. Len(q) + 1
        /\ \A i \in 1 .. Len(q) : /\ i \in DOMAIN M <=> On(k, q[i])
                                  /\ On(k, q[i]) => M[i] = q[i][k.rid]
        /\ Len(q) + 1 \in DOMAIN M <=> On(k, none)
    <3>1. q \in Seq(T)
      BY <1>1
    <3>2. LaneBy(M, k, q, none)
      BY <3>1, LaneIs, Zenon
    <3> HIDE DEF q, M
    <3> QED BY <3>2 DEF LaneBy
  <2> QED BY <1>1, <2>1
<1> HIDE DEF L, M, q
<1>5. ASSUME NEW i \in 1 .. n + 1
      PROVE  (i \in DOMAIN M <=> i \in DOMAIN L) /\ (i \in DOMAIN L => M[i] = L[i])
  <2>1. CASE i = n + 1
    <3>1. n + 1 \in 1 .. n + 1
      BY <1>1
    <3> QED BY <1>1, <1>3, <1>4, <2>1, <3>1, Zenon
  <2>2. CASE i # n + 1
    <3>1. i \in 1 .. n
      BY <1>1, <2>2
    <3> QED BY <1>1, <1>3, <1>4, <3>1, Zenon
  <2> QED BY <2>1, <2>2
<1>6. DOMAIN M = DOMAIN L
  <2>1. \A i \in DOMAIN M : i \in 1 .. n + 1
    BY <1>1, <1>2, <1>4
  <2> QED BY <1>3, <1>5, <2>1
<1>7. \A i \in DOMAIN M : M[i] = L[i]
  BY <1>3, <1>5, <1>6
<1> QED BY <1>3, <1>4, <1>6, <1>7, SameMap DEF M, L, q

\* The lane loses its first place.
Shifted(L, M) ==
  /\ \A i \in Nat \ {0} : /\ i \in DOMAIN M <=> i + 1 \in DOMAIN L
                          /\ i \in DOMAIN M => M[i] = L[i + 1]
  /\ DOMAIN M \subseteq Nat \ {0} /\ DOMAIN L \subseteq Nat \ {0}

\* The oldest frame leaves the queue.
LEMMA LaneRetired ==
  ASSUME NEW k, NEW T, NEW queue \in Seq(T), queue # <<>>,
         NEW rows, DOMAIN rows = {}, NEW none, DOMAIN none = {}
  PROVE  /\ Shifted(Lane(k, queue, rows), Lane(k, Tail(queue), none))
         /\ 1 \in DOMAIN Lane(k, queue, rows) <=> On(k, Head(queue))
         /\ On(k, Head(queue)) => Lane(k, queue, rows)[1] = Head(queue)[k.rid]
<1> DEFINE n == Len(queue)
           q == Tail(queue)
           L == Lane(k, queue, rows)
           M == Lane(k, q, none)
<1>1. n \in Nat \ {0} /\ Head(queue) = queue[1]
  BY LenProperties, EmptySeq, HeadTailProperties
<1>2. /\ q \in Seq(T) /\ Len(q) = n - 1
      /\ \A i \in 1 .. n - 1 : q[i] = queue[i + 1]
  BY HeadTailProperties, LenProperties
<1>3. ~On(k, none) /\ ~On(k, rows)
  BY DEF On
<1>4. /\ DOMAIN L \subseteq 1 .. n + 1
      /\ \A i \in 1 .. n : /\ i \in DOMAIN L <=> On(k, queue[i])
                           /\ On(k, queue[i]) => L[i] = queue[i][k.rid]
      /\ n + 1 \in DOMAIN L <=> On(k, rows)
  <2>1. LaneBy(L, k, queue, rows)
    BY LaneIs, Zenon
  <2> HIDE DEF L
  <2> QED BY <2>1 DEF LaneBy
<1>5. /\ DOMAIN M \subseteq 1 .. (n - 1) + 1
      /\ \A i \in 1 .. n - 1 : /\ i \in DOMAIN M <=> On(k, q[i])
                               /\ On(k, q[i]) => M[i] = q[i][k.rid]
      /\ (n - 1) + 1 \in DOMAIN M <=> On(k, none)
  <2>1. /\ DOMAIN M \subseteq 1 .. Len(q) + 1
        /\ \A i \in 1 .. Len(q) : /\ i \in DOMAIN M <=> On(k, q[i])
                                  /\ On(k, q[i]) => M[i] = q[i][k.rid]
        /\ Len(q) + 1 \in DOMAIN M <=> On(k, none)
    <3>1. q \in Seq(T)
      BY <1>2
    <3>2. LaneBy(M, k, q, none)
      BY <3>1, LaneIs, Zenon
    <3> HIDE DEF q, M
    <3> QED BY <3>2 DEF LaneBy
  <2> QED BY <1>2, <2>1
<1> HIDE DEF L, M, q
<1>6. DOMAIN L \subseteq 1 .. n /\ DOMAIN M \subseteq 1 .. n - 1
  BY <1>1, <1>3, <1>4, <1>5
<1>7. ASSUME NEW i \in Nat \ {0}
      PROVE  /\ i \in DOMAIN M <=> i + 1 \in DOMAIN L
             /\ i \in DOMAIN M => M[i] = L[i + 1]
  <2>1. CASE i \in 1 .. n - 1
    <3>1. i + 1 \in 1 .. n /\ q[i] = queue[i + 1]
      BY <1>1, <1>2, <2>1
    <3> QED BY <1>4, <1>5, <2>1, <3>1, Zenon
  <2>2. CASE i \notin 1 .. n - 1
    <3>1. i + 1 \notin 1 .. n
      BY <1>1, <2>2
    <3> QED BY <1>6, <2>2, <3>1
  <2> QED BY <2>1, <2>2
<1>8. 1 \in 1 .. n
  BY <1>1
<1>9. /\ 1 \in DOMAIN L <=> On(k, Head(queue))
      /\ On(k, Head(queue)) => L[1] = Head(queue)[k.rid]
  BY <1>1, <1>4, <1>8, Zenon
<1>10. DOMAIN M \subseteq Nat \ {0} /\ DOMAIN L \subseteq Nat \ {0}
  BY <1>1, <1>6
<1> QED BY <1>7, <1>9, <1>10, Zenon DEF Shifted, L, M, q

\* A row joins the lane at its last place.
Joined(L, M, n, row) ==
  /\ n \notin DOMAIN L /\ DOMAIN M = DOMAIN L \cup {n}
  /\ M[n] = row
  /\ \A i \in DOMAIN L : M[i] = L[i]
  /\ DOMAIN L \subseteq 1 .. n - 1
  /\ n \in Nat \ {0}

\* A row joins the attempt.
LEMMA LanePut ==
  ASSUME NEW k, NEW T, NEW queue \in Seq(T), NEW rows, NEW r, r \notin DOMAIN rows, NEW row,
         NEW L, L = Lane(k, queue, rows), NEW M, M = Lane(k, queue, Put(rows, r, row))
  PROVE  /\ k.rid = r /\ k.seat = row.seat /\ k.epoch = row.epoch
              => Joined(L, M, Len(queue) + 1, row)
         /\ ~(k.rid = r /\ k.seat = row.seat /\ k.epoch = row.epoch) => M = L
<1> DEFINE n == Len(queue)
           mine == k.rid = r /\ k.seat = row.seat /\ k.epoch = row.epoch
<1>1. n \in Nat
  BY LenProperties
<1>2. /\ IsMap(L) /\ DOMAIN L \subseteq 1 .. n + 1
      /\ \A i \in 1 .. n : /\ i \in DOMAIN L <=> On(k, queue[i])
                           /\ On(k, queue[i]) => L[i] = queue[i][k.rid]
      /\ n + 1 \in DOMAIN L <=> On(k, rows)
      /\ On(k, rows) => L[n + 1] = rows[k.rid]
  <2>1. LaneBy(L, k, queue, rows)
    BY LaneIs, Zenon
  <2> QED BY <2>1 DEF LaneBy
<1> DEFINE put == Put(rows, r, row)
<1> HIDE DEF put
<1>3. /\ IsMap(M) /\ DOMAIN M \subseteq 1 .. n + 1
      /\ \A i \in 1 .. n : /\ i \in DOMAIN M <=> On(k, queue[i])
                           /\ On(k, queue[i]) => M[i] = queue[i][k.rid]
      /\ n + 1 \in DOMAIN M <=> On(k, put)
      /\ On(k, put) => M[n + 1] = put[k.rid]
  <2>1. LaneBy(M, k, queue, put)
    BY LaneIs, Zenon DEF put
  <2> QED BY <2>1 DEF LaneBy
<1>4. DOMAIN put = DOMAIN rows \cup {r} /\ put[r] = row
      /\ \A x \in DOMAIN rows : put[x] = rows[x]
  <2>1. DOMAIN put = DOMAIN rows \cup {r}
    BY PutKeys, Zenon DEF put
  <2>2. put[r] = row
    BY PutAt DEF put
  <2>3. ASSUME NEW x \in DOMAIN rows
        PROVE  put[x] = rows[x]
    <3>1. x # r
      BY <2>3
    <3> QED BY <2>3, <3>1, PutElsewhere, Zenon DEF put
  <2> QED BY <2>1, <2>2, <2>3
<1>5. k.rid = r => ~On(k, rows) /\ (On(k, put) <=> mine)
  BY <1>4 DEF On
<1>6. k.rid # r => (On(k, put) <=> On(k, rows)) /\ (On(k, rows) => put[k.rid] = rows[k.rid])
  BY <1>4 DEF On
<1>7. mine => On(k, put) /\ put[k.rid] = row /\ ~On(k, rows)
  BY <1>4, <1>5
<1>8. ~mine => (On(k, put) <=> On(k, rows)) /\ (On(k, rows) => put[k.rid] = rows[k.rid])
  BY <1>5, <1>6
<1> HIDE DEF mine
<1>9. \A i \in 1 .. n + 1 : i \in 1 .. n \/ i = n + 1
  BY <1>1
<1>10. ASSUME ~mine
       PROVE  M = L
  <2>1. \A i \in 1 .. n + 1 : /\ i \in DOMAIN M <=> i \in DOMAIN L
                              /\ i \in DOMAIN L => M[i] = L[i]
    BY <1>2, <1>3, <1>8, <1>9, <1>10, Zenon
  <2>2. DOMAIN M = DOMAIN L
    BY <1>2, <1>3, <2>1
  <2>3. \A i \in DOMAIN M : M[i] = L[i]
    BY <1>2, <2>1, <2>2
  <2> QED BY <1>2, <1>3, <2>2, <2>3, SameMap
<1>11. ASSUME mine
       PROVE  /\ n + 1 \notin DOMAIN L /\ DOMAIN M = DOMAIN L \cup {n + 1}
              /\ M[n + 1] = row /\ \A i \in DOMAIN L : M[i] = L[i]
              /\ DOMAIN L \subseteq 1 .. n
  <2>1. n + 1 \notin DOMAIN L /\ n + 1 \in DOMAIN M /\ M[n + 1] = row
    BY <1>2, <1>3, <1>7, <1>11, Zenon
  <2>2. DOMAIN L \subseteq 1 .. n
    BY <1>2, <1>9, <2>1
  <2>3. \A i \in 1 .. n : /\ i \in DOMAIN M <=> i \in DOMAIN L
                          /\ i \in DOMAIN L => M[i] = L[i]
    BY <1>2, <1>3, Zenon
  <2>4. DOMAIN M = DOMAIN L \cup {n + 1}
    BY <1>3, <1>9, <2>1, <2>2, <2>3
  <2>5. \A i \in DOMAIN L : M[i] = L[i]
    BY <2>2, <2>3
  <2> QED BY <2>1, <2>2, <2>4, <2>5
<1>12. ASSUME mine
       PROVE  Joined(L, M, n + 1, row)
  <2>1. (n + 1) - 1 = n /\ n + 1 \in Nat \ {0}
    BY <1>1
  <2> QED BY <1>11, <1>12, <2>1 DEF Joined
<1> QED BY <1>10, <1>12, Zenon DEF mine, n

-----------------------------------------------------------------------------
\* A frontier and the device follow the same row.

\* The device's state of a seat, as a record.
Shaped(d) == d = [epoch |-> d.epoch, tokens |-> d.tokens, remaining |-> d.remaining]

\* Prompt tokens that are computed; a frontier beyond its prompt stays at its end.
Place(f) == IF f.cursor < f.prompt THEN f.cursor ELSE f.prompt

\* The row takes a known frontier from a to b prompt tokens: it is a chunk of the
\* prompt, or a verify row, which loses a frontier that has prompt tokens left.
Leads(f, a, b, row) ==
  \/ /\ row.follows
     /\ b = f.prompt
     /\ a < f.prompt => row.drafts > 0
  \/ /\ ~row.follows /\ row.drafts = 0
     /\ a < b /\ b = a + row.query /\ b <= f.prompt
     /\ row.sampling <=> b = f.prompt
     /\ row.inputs = SubSeq(f.tokens, a + 1, b)
     /\ ~row.sampling => row.ahead = SubSeq(f.tokens, b + 1, b + 1)

\* The device holds what the frontier says.
Exact(f, k, d) ==
  /\ d.epoch = k.epoch
  /\ d.remaining = f.remaining
  /\ d.tokens = IF f.cursor > 0 THEN SubSeq(f.tokens, 1, f.cursor + 1) ELSE <<>>

\* A frontier has its prompt, and then the tokens up to its lookahead.
Fronted(f) ==
  /\ f.cursor >= 0 /\ f.prompt >= 1 /\ f.remaining >= 0
  /\ f.cursor < f.prompt => Len(f.tokens) = f.prompt /\ f.remaining >= 1
  /\ f.cursor >= f.prompt => Len(f.tokens) = f.cursor + 1

LEMMA FrontierFacts ==
  ASSUME NEW f \in FrontierState
  PROVE  /\ f = [tokens |-> f.tokens, cursor |-> f.cursor, known |-> f.known,
                 remaining |-> f.remaining, prompt |-> f.prompt]
         /\ f.tokens \in Seq(Token) /\ Len(f.tokens) \in Nat
         /\ f.cursor \in Int /\ f.known \in BOOLEAN
         /\ f.remaining \in Int /\ f.prompt \in Nat
<1>1. f \in Followed
  BY FollowedIs
<1>2. /\ f = [tokens |-> f.tokens, cursor |-> f.cursor, known |-> f.known,
              remaining |-> f.remaining, prompt |-> f.prompt]
      /\ f.tokens \in Seq(Token)
      /\ f.cursor \in Int /\ f.known \in BOOLEAN
      /\ f.remaining \in Int /\ f.prompt \in Nat
  BY <1>1 DEF Followed
<1> QED BY <1>2, LenProperties

\* What the device holds of a prompt, and what the next chunk starts from.
Held(tokens, a) == IF a > 0 THEN SubSeq(tokens, 1, a + 1) ELSE <<>>
Opened(held) == IF held = <<>> THEN held ELSE Front(held)

LEMMA Resumed ==
  ASSUME NEW tokens \in Seq(Token), NEW a \in Nat, NEW b \in Nat,
         a < b, b <= Len(tokens)
  PROVE  Opened(Held(tokens, a)) \o SubSeq(tokens, a + 1, b) = SubSeq(tokens, 1, b)
<1> DEFINE held == Held(tokens, a)
<1>1. Len(tokens) \in Nat /\ \A i \in 1 .. Len(tokens) : tokens[i] \in Token
  BY LenProperties, ElementOfSeq
<1>2. SubSeq(tokens, 1, a) \o SubSeq(tokens, a + 1, b) = SubSeq(tokens, 1, b)
  <2>1. 1 \in 1 .. Len(tokens) + 1 /\ a \in 1 - 1 .. Len(tokens) /\ b \in a .. Len(tokens)
    BY <1>1
  <2> QED BY <2>1, ConcatAdjacentSubSeq
<1>3. CASE a = 0
  <2>1. held = <<>> /\ SubSeq(tokens, 1, a) = <<>>
    BY <1>3, SubSeqEmpty DEF Held
  <2> QED BY <1>2, <2>1 DEF Opened
<1>4. CASE a # 0
  <2>1. held = SubSeq(tokens, 1, a + 1) /\ a + 1 \in 1 .. Len(tokens)
    BY <1>1, <1>4 DEF Held
  <2> HIDE DEF held
  <2>2. held \in Seq(Token) /\ Len(held) = a + 1
    <3>1. \A i \in 1 .. a + 1 : tokens[i] \in Token
      BY <1>1, <2>1
    <3>2. /\ SubSeq(tokens, 1, a + 1) \in Seq(Token)
          /\ Len(SubSeq(tokens, 1, a + 1)) = IF 1 <= a + 1 THEN a + 1 - 1 + 1 ELSE 0
      BY <1>4, <3>1, SubSeqProperties
    <3>3. (IF 1 <= a + 1 THEN a + 1 - 1 + 1 ELSE 0) = a + 1
      OBVIOUS
    <3> QED BY <2>1, <3>2, <3>3
  <2>3. held # <<>>
    BY <1>4, <2>2, EmptySeq
  <2>4. Front(held) = SubSeq(tokens, 1, a)
    <3>1. Front(held) = SubSeq(held, 1, a)
      <4>1. Front(held) = SubSeq(held, 1, Len(held) - 1)
        BY DEF Front
      <4>2. Len(held) - 1 = a
        BY <2>2
      <4> QED BY <4>1, <4>2
    <3>2. /\ 1 \in 1 .. Len(tokens) /\ a + 1 \in 1 .. Len(tokens)
          /\ 1 \in 1 .. (a + 1) - 1 + 1 /\ a \in 1 .. (a + 1) - 1 + 1
      BY <1>1, <1>4, <2>1
    <3>3. SubSeq(SubSeq(tokens, 1, a + 1), 1, a) = SubSeq(tokens, 1 + 1 - 1, 1 + a - 1)
      BY <3>2, SubSeqOfSubSeq
    <3>4. 1 + 1 - 1 = 1 /\ 1 + a - 1 = a
      OBVIOUS
    <3> QED BY <2>1, <3>1, <3>3, <3>4
  <2> QED BY <1>2, <2>3, <2>4 DEF Opened, held
<1> QED BY <1>3, <1>4

\* What the step of a known frontier establishes.
Stepped(f, g, b, k, d) ==
  /\ Fronted(g) /\ g.prompt = f.prompt /\ Place(g) = b
  /\ Exact(g, k, d)
  /\ b < f.prompt => g.tokens = f.tokens

\* A chunk inside the prompt.
LEMMA ChunkInside ==
  ASSUME NEW f \in FrontierState, f.known, Fronted(f), NEW a \in Nat, a = f.cursor, a < f.prompt,
         NEW b \in Nat, NEW row, row.query \in Int, row.sampling \in BOOLEAN,
         ~row.follows, Leads(f, a, b, row), b < f.prompt,
         NEW d, Shaped(d), NEW k, Exact(f, k, d),
         NEW sampled \in Samples(row), NEW role,
         NEW g, g = Advance(f, row.query, row.drafts, sampled)
  PROVE  g.known /\ Stepped(f, g, b, k, Executed(d, row, role, sampled))
<1> DEFINE e == Executed(d, row, role, sampled)
<1>1. /\ f = [tokens |-> f.tokens, cursor |-> f.cursor, known |-> f.known,
              remaining |-> f.remaining, prompt |-> f.prompt]
      /\ f.tokens \in Seq(Token) /\ Len(f.tokens) \in Nat
  BY FrontierFacts
<1>0. /\ Len(f.tokens) \in Nat /\ f.tokens \in Seq(Token)
      /\ f.cursor \in Int /\ f.remaining \in Int /\ f.prompt \in Nat
  BY FrontierFacts
<1>2. /\ row.drafts = 0 /\ a < b /\ b = a + row.query
      /\ ~row.sampling
      /\ row.inputs = SubSeq(f.tokens, a + 1, b)
      /\ row.ahead = SubSeq(f.tokens, b + 1, b + 1)
  BY DEF Leads
<1>3. /\ a >= 0 /\ f.remaining >= 1 /\ Len(f.tokens) = f.prompt
  BY DEF Fronted
<1>4. sampled = <<>>
  BY <1>2 DEF Samples
<1>5. a < b /\ b < Len(f.tokens)
  BY <1>2, <1>3
<1>6. g = [f EXCEPT !.cursor = b]
  <2> DEFINE h == [f EXCEPT !.cursor = @ + row.query]
  <2>1. h = [f EXCEPT !.cursor = b]
    BY <1>2
  <2>2. h.cursor = b /\ h.tokens = f.tokens /\ h.prompt = f.prompt
    BY <1>1, <1>2
  <2>3. AdvancePrompt(f, row.query, row.drafts, sampled) = Checked(h)
    <3> HIDE DEF h
    <3>1. ~(h.cursor > f.prompt \/ row.drafts > 0) /\ ~(h.cursor = f.prompt /\ row.drafts = 0)
      <4>1. row.drafts = 0 /\ h.cursor = b
        BY <1>2, <2>2
      <4> QED BY <1>0, <4>1
    <3> QED BY <3>1 DEF AdvancePrompt, h
  <2>4. Checked(h) = h
    <3>1. ~(h.cursor >= Len(h.tokens))
      BY <1>1, <1>5, <2>2
    <3> QED BY <3>1 DEF Checked
  <2>5. g = AdvancePrompt(f, row.query, row.drafts, sampled)
    <3>1. f.known /\ f.remaining # 0 /\ f.cursor < f.prompt
      BY <1>1, <1>3
    <3> QED BY <3>1 DEF Advance
  <2> QED BY <2>1, <2>3, <2>4, <2>5
<1>7. /\ g.cursor = b /\ g.tokens = f.tokens /\ g.prompt = f.prompt
      /\ g.remaining = f.remaining /\ g.known
  BY <1>1, <1>6
<1>8. e.epoch = d.epoch /\ e.remaining = f.remaining /\ e.tokens = SubSeq(f.tokens, 1, b + 1)
  <2> DEFINE c == SubSeq(sampled, 1, Min({Len(sampled), d.remaining}))
             held == IF d.tokens = <<>> THEN d.tokens ELSE Front(d.tokens)
  <2>1. d.remaining = f.remaining /\ d.tokens = IF a > 0 THEN SubSeq(f.tokens, 1, a + 1) ELSE <<>>
    BY DEF Exact
  <2>2. c = <<>> /\ Len(c) = 0
    <3>1. Len(sampled) = 0
      BY <1>4, EmptySeq
    <3>2. Min({0, f.remaining}) = 0
      BY <1>0, <1>3, MinOfTwo
    <3>3. c = SubSeq(<<>>, 1, 0)
      BY <1>4, <2>1, <3>1, <3>2
    <3>4. SubSeq(<<>>, 1, 0) = <<>>
      BY SubSeqEmpty
    <3> QED BY <3>3, <3>4, EmptySeq
  <2> HIDE DEF c
  <2>3. Ran(d, row) = held \o row.inputs \o row.ahead
    BY <1>2 DEF Ran
  <2>4. held \o row.inputs = SubSeq(f.tokens, 1, b)
    <3>1. d.tokens = Held(f.tokens, a)
      BY <2>1 DEF Held
    <3>2. b <= Len(f.tokens)
      BY <1>0, <1>5
    <3>3. Opened(Held(f.tokens, a)) \o SubSeq(f.tokens, a + 1, b) = SubSeq(f.tokens, 1, b)
      BY <1>0, <1>5, <3>2, Resumed
    <3>4. held = Opened(d.tokens)
      BY DEF Opened
    <3> HIDE DEF held
    <3> QED BY <1>2, <3>1, <3>3, <3>4
  <2>5. SubSeq(f.tokens, 1, b) \o SubSeq(f.tokens, b + 1, b + 1) = SubSeq(f.tokens, 1, b + 1)
    <3>1. 1 \in 1 .. Len(f.tokens) + 1 /\ b \in 1 - 1 .. Len(f.tokens)
          /\ b + 1 \in b .. Len(f.tokens)
      BY <1>1, <1>5
    <3> QED BY <1>1, <3>1, ConcatAdjacentSubSeq
  <2>6. Ran(d, row) = SubSeq(f.tokens, 1, b + 1)
    BY <1>2, <2>3, <2>4, <2>5
  <2> HIDE DEF held
  <2>7. e = [d EXCEPT !.tokens = SubSeq(f.tokens, 1, b + 1), !.remaining = f.remaining]
    <3>1. d.remaining - Len(c) = f.remaining
      BY <1>0, <2>1, <2>2
    <3>2. ~(role /\ d.remaining = 0)
      BY <1>0, <1>3, <2>1
    <3>3. Limited(d, sampled) = c
      BY DEF Limited, c
    <3>4. Ran(d, row) \o <<>> = SubSeq(f.tokens, 1, b + 1)
      <4> DEFINE n == b + 1
      <4>1. n \in Nat /\ n <= Len(f.tokens)
        BY <1>1, <1>5
      <4> HIDE DEF n
      <4>2. SubSeq(f.tokens, 1, n) \in Seq(Token)
        <5>1. \A i \in 1 .. n : f.tokens[i] \in Token
          BY <1>1, <4>1, ElementOfSeq
        <5> QED BY <4>1, <5>1, SubSeqProperties
      <4>3. Ran(d, row) \in Seq(Token)
        BY <2>6, <4>2 DEF n
      <4> QED BY <2>6, <4>3, ConcatEmptySeq
    <3>5. (IF role THEN Limited(d, sampled) ELSE sampled) = <<>>
      BY <1>4, <2>2, <3>3
    <3>6. e = [d EXCEPT !.tokens = Ran(d, row) \o <<>>, !.remaining = d.remaining - Len(c)]
      BY <3>2, <3>3, <3>5, Zenon DEF Executed
    <3> QED BY <3>1, <3>4, <3>6, Zenon
  <2> HIDE DEF e
  <2> QED BY <2>7 DEF Shaped
<1> HIDE DEF e
<1>9. Fronted(g)
  BY <1>1, <1>3, <1>5, <1>7 DEF Fronted
<1>10. Place(g) = b
  BY <1>7 DEF Place
<1>11. Exact(g, k, e)
  BY <1>5, <1>7, <1>8 DEF Exact
<1> QED BY <1>7, <1>9, <1>10, <1>11 DEF Stepped, e

\* The chunk that ends the prompt, and samples the first token.
LEMMA ChunkLast ==
  ASSUME NEW f \in FrontierState, f.known, Fronted(f), NEW a \in Nat, a = f.cursor, a < f.prompt,
         NEW b \in Nat, NEW row, row.query \in Int, row.sampling \in BOOLEAN,
         ~row.follows, Leads(f, a, b, row), b = f.prompt,
         NEW d, Shaped(d), NEW k, Exact(f, k, d),
         NEW sampled \in Samples(row), NEW role,
         NEW g, g = Advance(f, row.query, row.drafts, sampled)
  PROVE  g.known /\ Stepped(f, g, b, k, Executed(d, row, role, sampled))
<1> DEFINE e == Executed(d, row, role, sampled)
<1>1. /\ f = [tokens |-> f.tokens, cursor |-> f.cursor, known |-> f.known,
              remaining |-> f.remaining, prompt |-> f.prompt]
      /\ f.tokens \in Seq(Token) /\ Len(f.tokens) \in Nat
  BY FrontierFacts
<1>0. /\ Len(f.tokens) \in Nat /\ f.tokens \in Seq(Token)
      /\ f.cursor \in Int /\ f.remaining \in Int /\ f.prompt \in Nat
  BY FrontierFacts
<1>2. /\ row.drafts = 0 /\ a < b /\ b = a + row.query
      /\ row.sampling
      /\ row.inputs = SubSeq(f.tokens, a + 1, b)
  BY DEF Leads
<1>3. /\ a >= 0 /\ f.remaining >= 1 /\ Len(f.tokens) = f.prompt
  BY DEF Fronted
<1>4. sampled \in Seq(Token) /\ Len(sampled) = 1
  <2>1. PICK n \in 1 .. 1 + row.drafts : sampled \in [1 .. n -> Token]
    BY <1>2 DEF Samples
  <2>2. n = 1
    BY <1>2
  <2>3. sampled \in [1 .. 1 -> Token]
    BY <2>1, <2>2
  <2>4. sampled \in Seq(Token)
    <3>1. row.drafts = 0 /\ 0 \in Int
      BY <1>2
    <3>2. row.drafts \in Int
      BY <3>1, Zenon
    <3> QED BY <3>2, SamplesType
  <2>5. DOMAIN sampled = 1 .. 1 /\ DOMAIN sampled = 1 .. Len(sampled) /\ Len(sampled) \in Nat
    BY <2>3, <2>4, LenProperties
  <2> DEFINE l == Len(sampled)
  <2>6. 1 .. 1 = 1 .. l /\ l \in Nat
    BY <2>5
  <2> HIDE DEF l
  <2>7. l = 1
    BY <2>6
  <2> QED BY <2>4, <2>7 DEF l
<1>5. a < b /\ b = Len(f.tokens)
  BY <1>0, <1>2, <1>3
<1> DEFINE t == f.tokens \o sampled
<1>6. t \in Seq(Token) /\ Len(t) = b + 1
  <2>1. t \in Seq(Token) /\ Len(t) = Len(f.tokens) + Len(sampled)
    BY <1>0, <1>4, ConcatProperties
  <2> QED BY <1>4, <1>5, <2>1
<1>7. /\ g.cursor = b /\ g.tokens = t /\ g.prompt = f.prompt
      /\ g.remaining = f.remaining - 1 /\ g.known
  <2> DEFINE h == [f EXCEPT !.cursor = @ + row.query]
             l == [h EXCEPT !.tokens = @ \o sampled, !.remaining = @ - 1]
  <2>1. h = [tokens |-> f.tokens, cursor |-> b, known |-> f.known,
             remaining |-> f.remaining, prompt |-> f.prompt]
    <3>1. f.cursor + row.query = b
      BY <1>2
    <3>2. h = [f EXCEPT !.cursor = b]
      BY <3>1
    <3> HIDE DEF h
    <3> QED BY <1>1, <3>2
  <2>2. l = [tokens |-> t, cursor |-> b, known |-> f.known,
             remaining |-> f.remaining - 1, prompt |-> f.prompt]
    <3> HIDE DEF h
    <3>1. h.tokens \o sampled = t /\ h.remaining - 1 = f.remaining - 1
      BY <2>1
    <3> HIDE DEF t
    <3>2. l = [h EXCEPT !.tokens = t, !.remaining = f.remaining - 1]
      BY <3>1, Zenon
    <3> DEFINE u == f.remaining - 1
    <3> HIDE DEF u, l
    <3>3. l = [h EXCEPT !.tokens = t, !.remaining = u]
      BY <3>2 DEF u
    <3>4. l = [tokens |-> t, cursor |-> b, known |-> f.known, remaining |-> u,
               prompt |-> f.prompt]
      BY <2>1, <3>3
    <3> QED BY <3>4 DEF u
  <2>3. AdvancePrompt(f, row.query, row.drafts, sampled) = Checked(l)
    <3>1. ~(h.cursor > f.prompt \/ row.drafts > 0) /\ h.cursor = f.prompt /\ row.drafts = 0
      <4> HIDE DEF h
      <4> QED BY <1>1, <1>2, <1>3, <1>5, <2>1
    <3> HIDE DEF h
    <3> QED BY <1>4, <3>1 DEF AdvancePrompt, h
  <2> HIDE DEF l, h, t
  <2>4. Checked(l) = l
    <3>1. ~(l.cursor >= Len(l.tokens))
      BY <1>5, <1>6, <2>2
    <3> QED BY <3>1 DEF Checked
  <2>5. g = AdvancePrompt(f, row.query, row.drafts, sampled)
    <3>1. f.known /\ f.remaining # 0 /\ f.cursor < f.prompt
      BY <1>1, <1>3
    <3> QED BY <3>1 DEF Advance
  <2>6. g = [tokens |-> t, cursor |-> b, known |-> f.known,
             remaining |-> f.remaining - 1, prompt |-> f.prompt]
    BY <2>2, <2>3, <2>4, <2>5
  <2> QED BY <2>6
<1>8. e.epoch = d.epoch /\ e.remaining = f.remaining - 1 /\ e.tokens = t
  <2> DEFINE c == SubSeq(sampled, 1, Min({Len(sampled), d.remaining}))
             held == IF d.tokens = <<>> THEN d.tokens ELSE Front(d.tokens)
  <2>1. d.remaining = f.remaining /\ d.tokens = IF a > 0 THEN SubSeq(f.tokens, 1, a + 1) ELSE <<>>
    BY DEF Exact
  <2>2. c = sampled /\ Len(c) = 1
    <3>1. Min({1, f.remaining}) = 1
      BY <1>0, <1>3, MinOfTwo
    <3>2. c = SubSeq(sampled, 1, Len(sampled))
      BY <1>4, <2>1, <3>1
    <3> QED BY <1>4, <3>2, SubSeqFull
  <2> HIDE DEF c
  <2>3. Ran(d, row) = held \o row.inputs \o <<>>
    BY <1>2 DEF Ran
  <2>4. held \o row.inputs = SubSeq(f.tokens, 1, b)
    <3>1. d.tokens = Held(f.tokens, a)
      BY <2>1 DEF Held
    <3>2. b <= Len(f.tokens)
      BY <1>0, <1>5
    <3>3. Opened(Held(f.tokens, a)) \o SubSeq(f.tokens, a + 1, b) = SubSeq(f.tokens, 1, b)
      BY <1>0, <1>5, <3>2, Resumed
    <3>4. held = Opened(d.tokens)
      BY DEF Opened
    <3> HIDE DEF held
    <3> QED BY <1>2, <3>1, <3>3, <3>4
  <2>5. SubSeq(f.tokens, 1, b) = f.tokens
    BY <1>1, <1>5, SubSeqFull
  <2>6. Ran(d, row) \o sampled = t
    <3>1. f.tokens \o <<>> = f.tokens
      BY <1>1, ConcatEmptySeq
    <3>2. Ran(d, row) = f.tokens
      BY <2>3, <2>4, <2>5, <3>1
    <3> QED BY <3>2
  <2> HIDE DEF held, t
  <2>7. e = [d EXCEPT !.tokens = t, !.remaining = f.remaining - 1]
    <3>1. d.remaining - Len(c) = f.remaining - 1
      BY <1>0, <2>1, <2>2
    <3>2. ~(role /\ d.remaining = 0)
      BY <1>0, <1>3, <2>1
    <3>3. Limited(d, sampled) = c
      BY DEF Limited, c
    <3>4. (IF role THEN Limited(d, sampled) ELSE sampled) = sampled
      BY <2>2, <3>3
    <3>5. e = [d EXCEPT !.tokens = Ran(d, row) \o sampled, !.remaining = d.remaining - Len(c)]
      BY <3>2, <3>3, <3>4, Zenon DEF Executed
    <3> QED BY <2>6, <3>1, <3>5, Zenon
  <2> HIDE DEF e
  <2> QED BY <2>7 DEF Shaped
<1> HIDE DEF e, t
<1>9. Fronted(g)
  <2>1. g.cursor >= 0 /\ g.prompt >= 1 /\ g.remaining >= 0 /\ ~(g.cursor < g.prompt)
    BY <1>0, <1>3, <1>5, <1>7
  <2>2. Len(g.tokens) = g.cursor + 1
    BY <1>6, <1>7
  <2> QED BY <2>1, <2>2 DEF Fronted
<1>10. Place(g) = b
  BY <1>7 DEF Place
<1>11. Exact(g, k, e)
  <2>1. SubSeq(t, 1, b + 1) = t
    BY <1>6, SubSeqFull
  <2> QED BY <1>5, <1>7, <1>8, <2>1 DEF Exact
<1> QED BY <1>7, <1>9, <1>10, <1>11 DEF Stepped, e

\* A verify row: the accepted tokens, cut at the limit.
LEMMA VerifyRow ==
  ASSUME NEW f \in FrontierState, f.known, Fronted(f), f.cursor >= f.prompt,
         NEW row, row.query \in Int, row.drafts \in Int, row.follows,
         NEW d, Shaped(d), NEW k, Exact(f, k, d),
         NEW sampled \in Seq(Token), NEW role, role,
         NEW g, g = Advance(f, row.query, row.drafts, sampled), g.known
  PROVE  Stepped(f, g, f.prompt, k, Executed(d, row, role, sampled))
<1> DEFINE e == Executed(d, row, role, sampled)
           c == SubSeq(sampled, 1, Min({Len(sampled), f.remaining}))
           t == f.tokens \o c
<1>1. /\ f = [tokens |-> f.tokens, cursor |-> f.cursor, known |-> f.known,
              remaining |-> f.remaining, prompt |-> f.prompt]
      /\ f.tokens \in Seq(Token) /\ Len(f.tokens) \in Nat
  BY FrontierFacts
<1>0. /\ Len(f.tokens) \in Nat /\ f.tokens \in Seq(Token)
      /\ f.cursor \in Int /\ f.remaining \in Int /\ f.prompt \in Nat
  BY FrontierFacts
<1>2. /\ f.prompt >= 1 /\ f.remaining >= 0 /\ Len(f.tokens) = f.cursor + 1 /\ f.cursor >= 1
  <2>1. f.prompt >= 1 /\ f.remaining >= 0 /\ Len(f.tokens) = f.cursor + 1
    BY DEF Fronted
  <2> QED BY <1>0, <2>1
<1>3. /\ c \in Seq(Token) /\ Len(c) \in Nat
      /\ Len(c) = Min({Len(sampled), f.remaining}) /\ Len(c) <= f.remaining
  <2> DEFINE m == Min({Len(sampled), f.remaining})
             u == Len(sampled)
             v == f.remaining
  <2>1. u \in Nat /\ v \in Int /\ v >= 0 /\ \A i \in 1 .. u : sampled[i] \in Token
    BY <1>0, <1>2, LenProperties, ElementOfSeq
  <2>2. m = IF u <= v THEN u ELSE v
    <3>1. u \in Int /\ v \in Int
      BY <2>1
    <3> QED BY <3>1, MinOfTwo, Zenon
  <2> HIDE DEF m, u, v
  <2>3. m \in Nat /\ m <= u /\ m <= v
    BY <2>1, <2>2
  <2>4. \A i \in 1 .. m : sampled[i] \in Token
    BY <2>1, <2>3
  <2>5. /\ SubSeq(sampled, 1, m) \in Seq(Token)
        /\ Len(SubSeq(sampled, 1, m)) = IF 1 <= m THEN m - 1 + 1 ELSE 0
    BY <2>3, <2>4, SubSeqProperties
  <2>6. Len(SubSeq(sampled, 1, m)) = m
    BY <2>3, <2>5
  <2> QED BY <2>3, <2>5, <2>6 DEF m, u, v
<1>4. /\ t \in Seq(Token) /\ Len(t) = Len(f.tokens) + Len(c)
  BY <1>0, <1>3, ConcatProperties
<1>5. /\ g.tokens = t /\ g.cursor = f.cursor + Len(c) /\ g.prompt = f.prompt
      /\ g.remaining = f.remaining - Len(c)
  <2>1. CASE f.remaining = 0
    <3>1. g = f
      BY <2>1 DEF Advance
    <3>2. Len(c) = 0
      BY <1>3, <2>1
    <3>3. c = <<>>
      BY <1>3, <3>2, EmptySeq
    <3>4. t = f.tokens
      BY <1>0, <3>3, ConcatEmptySeq
    <3> HIDE DEF t, c
    <3> QED BY <1>0, <3>1, <3>2, <3>4
  <2>2. CASE f.remaining # 0
    <3>1. g = AdvanceOutput(f, row.query, row.drafts, sampled)
      <4>1. f.known /\ ~(f.cursor < f.prompt)
        BY <1>0
      <4> QED BY <2>2, <4>1 DEF Advance
    <3>2. ~(row.query - row.drafts # 1 \/ sampled = <<>>)
      <4>1. SUFFICES ASSUME row.query - row.drafts # 1 \/ sampled = <<>>
                     PROVE  FALSE
        BY Zenon
      <4>2. g = Lost(f)
        BY <3>1, <4>1 DEF AdvanceOutput
      <4>3. g = [f EXCEPT !.known = FALSE]
        BY <4>2 DEF Lost
      <4> QED BY <1>1, <4>3
    <3> DEFINE l == [f EXCEPT !.tokens = @ \o c, !.cursor = @ + Len(c), !.remaining = @ - Len(c)]
    <3>3. g = Checked(l)
      BY <3>1, <3>2, Zenon DEF AdvanceOutput
    <3> DEFINE u == f.cursor + Len(c)
               v == f.remaining - Len(c)
    <3>4. l = [f EXCEPT !.tokens = t, !.cursor = u, !.remaining = v]
      BY Zenon
    <3> HIDE DEF l, u, v, t
    <3>5. l = [tokens |-> t, cursor |-> u, known |-> f.known, remaining |-> v,
               prompt |-> f.prompt]
      BY <1>1, <3>4
    <3>6. g = l \/ g = Lost(l)
      BY <3>3 DEF Checked
    <3>7. g = l
      <4>1. Lost(l).known = FALSE
        BY <3>5 DEF Lost
      <4> QED BY <3>6, <4>1
    <3>8. g.tokens = t /\ g.cursor = u /\ g.prompt = f.prompt /\ g.remaining = v
      BY <3>5, <3>7
    <3> QED BY <3>8 DEF u, v
  <2> QED BY <2>1, <2>2
<1>6. e.epoch = d.epoch /\ e.remaining = f.remaining - Len(c) /\ e.tokens = t
  <2>1. d.remaining = f.remaining /\ d.tokens = SubSeq(f.tokens, 1, f.cursor + 1)
    BY <1>0, <1>2 DEF Exact
  <2>2. d.tokens = f.tokens
    BY <1>0, <1>2, <2>1, SubSeqFull
  <2>3. d.tokens # <<>>
    BY <1>0, <1>2, <2>2, EmptySeq
  <2>4. CASE d.remaining = 0
    <3>1. e = d
      BY <2>4 DEF Executed
    <3>2. Len(c) = 0
      BY <1>0, <1>3, <2>1, <2>4
    <3>3. t = f.tokens
      <4>1. c = <<>>
        BY <1>3, <3>2, EmptySeq
      <4> QED BY <1>0, <4>1, ConcatEmptySeq
    <3> HIDE DEF e, t, c
    <3> QED BY <1>0, <2>1, <2>2, <3>1, <3>2, <3>3
  <2>5. CASE d.remaining # 0
    <3>1. Ran(d, row) = f.tokens
      BY <2>2, <2>3 DEF Ran
    <3>2. Limited(d, sampled) = c
      BY <2>1 DEF Limited
    <3>3. e = [d EXCEPT !.tokens = Ran(d, row) \o c, !.remaining = d.remaining - Len(c)]
      BY <2>5, <3>2, Zenon DEF Executed
    <3>4. e = [d EXCEPT !.tokens = t, !.remaining = f.remaining - Len(c)]
      BY <2>1, <3>1, <3>3, Zenon
    <3> HIDE DEF e, t, c
    <3> QED BY <3>4 DEF Shaped
  <2> QED BY <2>4, <2>5
<1> DEFINE m == Len(c)
<1> HIDE DEF e, t, c
<1>7. m \in Nat /\ m <= f.remaining /\ Len(t) = f.cursor + m + 1
      /\ g.cursor = f.cursor + m /\ g.remaining = f.remaining - m
  BY <1>0, <1>2, <1>3, <1>4, <1>5
<1> HIDE DEF m
<1>8. g.cursor >= g.prompt /\ g.cursor >= 1 /\ g.cursor \in Int /\ g.prompt \in Nat
      /\ g.remaining >= 0 /\ Len(g.tokens) = g.cursor + 1
  <2>1. g.prompt = f.prompt /\ g.tokens = t
    BY <1>5
  <2> DEFINE x == f.cursor
             y == f.remaining
  <2>2. x \in Int /\ x >= f.prompt /\ x >= 1 /\ g.cursor = x + m
    BY <1>0, <1>2, <1>7
  <2>3. y \in Int /\ m <= y /\ g.remaining = y - m
    BY <1>0, <1>7
  <2>4. Len(g.tokens) = x + m + 1
    BY <1>7, <2>1
  <2> HIDE DEF x, y
  <2> DEFINE z == f.prompt
  <2>5. z \in Nat /\ g.prompt = z /\ x >= z /\ m \in Nat
    BY <1>0, <1>7, <2>1, <2>2
  <2> HIDE DEF z
  <2>6. g.cursor >= g.prompt /\ g.cursor >= 1 /\ g.cursor \in Int /\ g.prompt \in Nat
    BY <2>2, <2>5
  <2>7. g.remaining >= 0
    BY <2>3, <2>5
  <2>8. Len(g.tokens) = g.cursor + 1
    BY <2>2, <2>4, <2>5
  <2> QED BY <2>6, <2>7, <2>8
<1>9. Fronted(g)
  <2>1. g.prompt = f.prompt /\ f.prompt >= 1
    BY <1>2, <1>5
  <2>2. g.cursor >= 0 /\ g.prompt >= 1 /\ ~(g.cursor < g.prompt)
    BY <1>8, <2>1
  <2> QED BY <1>8, <2>2 DEF Fronted
<1>10. Place(g) = f.prompt
  BY <1>5, <1>8 DEF Place
<1>11. Exact(g, k, e)
  <2>1. SubSeq(t, 1, Len(t)) = t
    BY <1>4, SubSeqFull
  <2>2. g.cursor > 0 /\ Len(t) = g.cursor + 1
    BY <1>5, <1>8
  <2>3. e.epoch = k.epoch /\ e.remaining = g.remaining
    BY <1>5, <1>6 DEF Exact
  <2>4. e.tokens = SubSeq(g.tokens, 1, g.cursor + 1)
    BY <1>5, <1>6, <2>1, <2>2
  <2> QED BY <2>2, <2>3, <2>4 DEF Exact
<1>12. ~(f.prompt < f.prompt)
  BY <1>0
<1> QED BY <1>5, <1>9, <1>10, <1>11, <1>12 DEF Stepped, e

\* A known frontier that a row leads stays exact, or is lost.
LEMMA FrontierStep ==
  ASSUME NEW f \in FrontierState, f.known, Fronted(f),
         NEW b \in Int, NEW row, Leads(f, Place(f), b, row),
         row.query \in Int, row.drafts \in Int, row.sampling \in BOOLEAN,
         NEW d, Shaped(d), NEW k, Exact(f, k, d),
         NEW sampled \in Samples(row), NEW role, row.follows => role,
         NEW g, g = Advance(f, row.query, row.drafts, sampled), g.known
  PROVE  Stepped(f, g, b, k, Executed(d, row, role, sampled))
<1>0. /\ Len(f.tokens) \in Nat /\ f.tokens \in Seq(Token)
      /\ f.cursor \in Int /\ f.remaining \in Int /\ f.prompt \in Nat
  BY FrontierFacts
<1>1. f.cursor >= 0 /\ f.prompt >= 1 /\ (f.cursor < f.prompt => f.remaining >= 1)
  BY DEF Fronted
<1>2. sampled \in Seq(Token)
  BY SamplesType
<1>3. CASE f.cursor < f.prompt
  <2> DEFINE a == f.cursor
  <2>1. Place(f) = a
    BY <1>3 DEF Place
  <2>2. a \in Nat
    BY <1>0, <1>1
  <2>3. Leads(f, a, b, row)
    BY <2>1
  <2>4. ~row.follows
    <3>1. SUFFICES ASSUME row.follows
                   PROVE  FALSE
      OBVIOUS
    <3>2. row.drafts > 0
      BY <1>3, <2>3, <3>1 DEF Leads
    <3> DEFINE h == [f EXCEPT !.cursor = @ + row.query]
    <3>3. AdvancePrompt(f, row.query, row.drafts, sampled) = Lost(h)
      BY <3>2 DEF AdvancePrompt
    <3>4. g = Lost(h)
      <4>1. f.remaining # 0
        BY <1>0, <1>1, <1>3
      <4> QED BY <1>3, <3>3, <4>1 DEF Advance
    <3>5. Lost(h).known = FALSE
      <4>1. /\ f = [tokens |-> f.tokens, cursor |-> f.cursor, known |-> f.known,
                    remaining |-> f.remaining, prompt |-> f.prompt]
        BY FrontierFacts
      <4> QED BY <4>1 DEF Lost
    <3> QED BY <3>4, <3>5
  <2>5. b \in Nat
    <3>1. a < b
      BY <2>3, <2>4 DEF Leads
    <3> QED BY <2>2, <3>1
  <2>6. b <= f.prompt
    BY <2>3, <2>4 DEF Leads
  <2>7. CASE b < f.prompt
    BY <1>3, <2>2, <2>3, <2>4, <2>5, <2>7, ChunkInside
  <2>8. CASE b = f.prompt
    BY <1>3, <2>2, <2>3, <2>4, <2>5, <2>8, ChunkLast
  <2> QED BY <1>0, <2>5, <2>6, <2>7, <2>8
<1>4. CASE ~(f.cursor < f.prompt)
  <2>1. Place(f) = f.prompt /\ f.cursor >= f.prompt
    BY <1>0, <1>4 DEF Place
  <2>2. Leads(f, f.prompt, b, row)
    BY <2>1
  <2>3. row.follows
    <3>1. SUFFICES ASSUME ~row.follows
                   PROVE  FALSE
      OBVIOUS
    <3>2. f.prompt < b /\ b <= f.prompt
      BY <2>2, <3>1 DEF Leads
    <3> QED BY <1>0, <3>2
  <2>4. b = f.prompt
    BY <2>2, <2>3 DEF Leads
  <2> QED BY <1>2, <2>1, <2>3, <2>4, VerifyRow
<1> QED BY <1>3, <1>4

-----------------------------------------------------------------------------
\* The course of a lease through its rows.

\* p[i] prompt tokens are computed before the i-th place of the lease's lane.
Course(p, f, L) ==
  /\ p \in [Nat -> Int]
  /\ p[1] = Place(f)
  /\ \A i \in Nat \ {0} : IF i \in DOMAIN L THEN Leads(f, p[i], p[i + 1], L[i])
                          ELSE p[i + 1] = p[i]

\* The native scheduler counts e prompt tokens for the lease's request, or drafts.
Ends(e, f, k, q) ==
  /\ e \in 0 .. f.prompt
  /\ e < f.prompt => /\ q.computed = e /\ q.placeholders = 0 /\ ~q.drafting
                     /\ Prompt[k.rid] \o q.out = f.tokens
                     /\ Len(f.tokens) = f.prompt
  /\ e = f.prompt => q.drafting

\* Only the first row of a lane sets the limit, and before it the device may hold
\* what a lease before this one left in the seat.
Ready(f, k, L, d) ==
  /\ (\A i \in DOMAIN L : L[i].limit = NoLimit) => Exact(f, k, d)
  /\ \A i \in DOMAIN L : L[i].limit # NoLimit =>
       /\ Exact(f, k, Prepared(d, L[i]))
       /\ \A j \in DOMAIN L : i <= j

\* Frontier, device and native counters agree on the lease k, with n places in its lane.
Tracked(f, k, L, n, q, d, live) ==
  /\ Fronted(f)
  /\ Ready(f, k, L, d)
  /\ \E p : Course(p, f, L) /\ (live => Ends(p[n + 1], f, k, q))

LEMMA CourseStays ==
  ASSUME NEW p, NEW f, f.prompt \in Nat, NEW L, Course(p, f, L),
         NEW m \in Nat \ {0}, p[m] = f.prompt, NEW j \in Nat, j >= m
  PROVE  p[j] = f.prompt /\ (j \in DOMAIN L => L[j].follows)
<1> DEFINE G == {i \in Nat : p[m + i] = f.prompt}
<1>1. ASSUME NEW i \in Nat \ {0}, p[i] = f.prompt
      PROVE  p[i + 1] = f.prompt /\ (i \in DOMAIN L => L[i].follows)
  <2>1. CASE i \notin DOMAIN L
    BY <1>1, <2>1, Zenon DEF Course
  <2>2. CASE i \in DOMAIN L
    <3>1. Leads(f, f.prompt, p[i + 1], L[i])
      BY <1>1, <2>2, Zenon DEF Course
    <3>2. L[i].follows
      <4>1. SUFFICES ASSUME ~L[i].follows
                     PROVE  FALSE
        BY Zenon
      <4>2. f.prompt < p[i + 1] /\ p[i + 1] <= f.prompt
        BY <3>1, <4>1, Zenon DEF Leads
      <4>3. p[i + 1] \in Int
        BY DEF Course
      <4> QED BY <4>2, <4>3
    <3> QED BY <3>1, <3>2, Zenon DEF Leads
  <2> QED BY <2>1, <2>2
<1>2. 0 \in G
  OBVIOUS
<1>3. ASSUME NEW i \in 1 .. (j - m), i - 1 \in G
      PROVE  i \in G
  <2>1. m + (i - 1) \in Nat \ {0} /\ (m + (i - 1)) + 1 = m + i /\ i \in Nat
    OBVIOUS
  <2>2. p[(m + (i - 1)) + 1] = f.prompt
    BY <1>1, <1>3, <2>1, Zenon
  <2> QED BY <2>1, <2>2
<1>4. j - m \in Nat
  OBVIOUS
<1> HIDE DEF G
<1>5. j - m \in G
  <2>1. \A i \in 0 .. (j - m) : i \in G
    BY <1>2, <1>3, <1>4, UpTo
  <2>2. j - m \in 0 .. (j - m)
    BY <1>4
  <2> QED BY <2>1, <2>2, Zenon
<1>6. p[j] = f.prompt
  <2>1. m + (j - m) = j
    OBVIOUS
  <2> QED BY <1>5, <2>1 DEF G
<1>7. j \in Nat \ {0}
  OBVIOUS
<1> QED BY <1>1, <1>6, <1>7, Zenon

\* The lane is the same, and the native counters of a lease that is still served.
LEMMA TrackedStays ==
  ASSUME NEW f, NEW k, NEW L, NEW n, NEW q, NEW d, NEW live, NEW after, NEW alive,
         Tracked(f, k, L, n, q, d, live), alive => live /\ after = q
  PROVE  Tracked(f, k, L, n, after, d, alive)
  BY Zenon DEF Tracked

\* One more place without a row.
LEMMA TrackedQueued ==
  ASSUME NEW f, NEW k, NEW L, NEW n \in Nat, NEW q, NEW d, NEW live,
         DOMAIN L \subseteq 1 .. n, Tracked(f, k, L, n, q, d, live)
  PROVE  Tracked(f, k, L, n + 1, q, d, live)
<1>1. PICK p : Course(p, f, L) /\ (live => Ends(p[n + 1], f, k, q))
  BY DEF Tracked
<1>2. n + 1 \in Nat \ {0} /\ n + 1 \notin DOMAIN L
  BY SMT
<1>3. p[(n + 1) + 1] = p[n + 1]
  BY <1>1, <1>2, Zenon DEF Course
<1> QED BY <1>1, <1>3, Zenon DEF Tracked

LEMMA CourseJoined ==
  ASSUME NEW p, NEW f, NEW L, NEW M, NEW n, NEW row, Course(p, f, L), Joined(L, M, n, row),
         NEW b \in Int, Leads(f, p[n], b, row)
  PROVE  \E t : Course(t, f, M) /\ t[n + 1] = b
<1> DEFINE t == [i \in Nat |-> IF i <= n THEN p[i] ELSE b]
<1>1. p \in [Nat -> Int] /\ n \in Nat \ {0}
  BY DEF Course, Joined
<1>2. t \in [Nat -> Int] /\ \A i \in Nat : t[i] = IF i <= n THEN p[i] ELSE b
  BY <1>1
<1> HIDE DEF t
<1>3. t[1] = Place(f)
  BY <1>1, <1>2 DEF Course
<1>4. t[n + 1] = b
  BY <1>1, <1>2
<1>5. ASSUME NEW i \in Nat \ {0}
      PROVE  IF i \in DOMAIN M THEN Leads(f, t[i], t[i + 1], M[i]) ELSE t[i + 1] = t[i]
  <2>1. CASE i = n
    <3>1. i \in DOMAIN M /\ M[i] = row /\ t[i] = p[n]
      BY <1>1, <1>2, <2>1 DEF Joined
    <3> QED BY <1>4, <2>1, <3>1, Zenon
  <2>2. CASE i < n
    <3>1. t[i] = p[i] /\ t[i + 1] = p[i + 1]
      BY <1>1, <1>2, <2>2
    <3>2. /\ i \in DOMAIN M <=> i \in DOMAIN L
          /\ i \in DOMAIN L => M[i] = L[i]
      <4>1. i # n
        BY <1>1, <2>2
      <4> QED BY <4>1 DEF Joined
    <3> QED BY <3>1, <3>2, Zenon DEF Course
  <2>3. CASE i > n
    <3>1. t[i] = b /\ t[i + 1] = b
      BY <1>1, <1>2, <2>3
    <3>2. i \notin DOMAIN M
      BY <1>1, <2>3 DEF Joined
    <3> QED BY <3>1, <3>2
  <2> QED BY <1>1, <2>1, <2>2, <2>3
<1> QED BY <1>2, <1>3, <1>4, <1>5, Zenon DEF Course

\* A further row of a lease.
LEMMA TrackedRow ==
  ASSUME NEW f, NEW k, NEW L, NEW n, NEW q, NEW d,
         Tracked(f, k, L, n, q, d, TRUE),
         NEW M, NEW row, Joined(L, M, n, row), row.limit = NoLimit,
         NEW after, NEW live,
         \A e \in Int : Ends(e, f, k, q) =>
           \E b \in Int : Leads(f, e, b, row) /\ Ends(b, f, k, after)
  PROVE  Tracked(f, k, M, n, after, d, live)
<1>1. PICK p : Course(p, f, L) /\ Ends(p[n + 1], f, k, q)
  BY Zenon DEF Tracked
<1>2. n \in Nat \ {0} /\ n \notin DOMAIN L
  BY DEF Joined
<1>3. p[n + 1] = p[n] /\ p[n] \in Int
  <2>1. p[n + 1] = p[n]
    BY <1>1, <1>2, Zenon DEF Course
  <2>2. p \in [Nat -> Int]
    BY <1>1 DEF Course
  <2> QED BY <1>2, <2>1, <2>2
<1>4. PICK b \in Int : Leads(f, p[n], b, row) /\ Ends(b, f, k, after)
  BY <1>1, <1>3
<1>5. \E t : Course(t, f, M) /\ t[n + 1] = b
  BY <1>1, <1>4, CourseJoined
<1>6. Ready(f, k, M, d)
  <2>1. Ready(f, k, L, d)
    BY DEF Tracked
  <2>2. \A i \in DOMAIN M : M[i].limit # NoLimit => i \in DOMAIN L /\ M[i] = L[i]
    BY DEF Joined
  <2>3. (\A i \in DOMAIN M : M[i].limit = NoLimit) => \A i \in DOMAIN L : L[i].limit = NoLimit
    BY DEF Joined
  <2>4. \A i \in DOMAIN L : i <= n
    BY DEF Joined
  <2>5. ASSUME NEW i \in DOMAIN M, M[i].limit # NoLimit
        PROVE  Exact(f, k, Prepared(d, M[i])) /\ \A j \in DOMAIN M : i <= j
    <3>1. i \in DOMAIN L /\ M[i] = L[i]
      BY <2>2, <2>5
    <3>2. Exact(f, k, Prepared(d, L[i])) /\ \A j \in DOMAIN L : i <= j
      BY <2>1, <2>5, <3>1, Zenon DEF Ready
    <3>3. \A j \in DOMAIN M : j \in DOMAIN L \/ j = n
      BY DEF Joined
    <3> QED BY <2>4, <3>1, <3>2, <3>3
  <2> QED BY <2>1, <2>3, <2>5, Zenon DEF Ready
<1> QED BY <1>4, <1>5, <1>6, Zenon DEF Tracked

\* The first row of a lease.
LEMMA TrackedFirst ==
  ASSUME NEW f, Fronted(f), Place(f) \in Int, NEW k, NEW L, DOMAIN L = {}, NEW n, NEW d,
         NEW M, NEW row, Joined(L, M, n, row), row.limit # NoLimit,
         Exact(f, k, Prepared(d, row)),
         NEW b \in Int, Leads(f, Place(f), b, row),
         NEW after, Ends(b, f, k, after), NEW live
  PROVE  Tracked(f, k, M, n, after, d, live)
<1> DEFINE p == [i \in Nat |-> Place(f)]
<1>1. n \in Nat
  BY DEF Joined
<1>2. Course(p, f, L) /\ p[n] = Place(f)
  BY <1>1 DEF Course
<1> HIDE DEF p
<1>3. \E t : Course(t, f, M) /\ t[n + 1] = b
  BY <1>2, CourseJoined
<1>4. Ready(f, k, M, d)
  <2>1. DOMAIN M = {n} /\ M[n] = row /\ n <= n
    BY <1>1 DEF Joined
  <2> QED BY <2>1 DEF Ready
<1> QED BY <1>3, <1>4, Zenon DEF Tracked

\* The oldest frame retires without a row of the lease.
LEMMA TrackedPassed ==
  ASSUME NEW f, NEW k, NEW L, NEW n \in Nat \ {0}, NEW q, NEW d, NEW live,
         Tracked(f, k, L, n, q, d, live), 1 \notin DOMAIN L,
         NEW M, Shifted(L, M), NEW after, NEW alive, alive => live /\ after = q
  PROVE  Tracked(f, k, M, n - 1, after, d, alive)
<1>1. PICK p : Course(p, f, L) /\ (live => Ends(p[n + 1], f, k, q))
  BY DEF Tracked
<1> DEFINE t == [i \in Nat |-> p[i + 1]]
<1>2. \A i \in Nat : p[i] \in Int /\ i + 1 \in Nat
  BY <1>1 DEF Course
<1>3. t \in [Nat -> Int] /\ \A i \in Nat : t[i] = p[i + 1]
  BY <1>2
<1> HIDE DEF t
<1>4. t[1] = Place(f)
  <2>1. 1 \in Nat \ {0} /\ 1 + 1 = 2
    OBVIOUS
  <2>2. p[1 + 1] = p[1] /\ p[1] = Place(f)
    BY <1>1, <2>1, Zenon DEF Course
  <2> QED BY <1>3, <2>1, <2>2
<1>5. ASSUME NEW i \in Nat \ {0}
      PROVE  IF i \in DOMAIN M THEN Leads(f, t[i], t[i + 1], M[i]) ELSE t[i + 1] = t[i]
  <2>1. i + 1 \in Nat \ {0} /\ i \in Nat
    OBVIOUS
  <2>2. t[i] = p[i + 1] /\ t[i + 1] = p[(i + 1) + 1]
    BY <1>3, <2>1
  <2>3. IF i + 1 \in DOMAIN L THEN Leads(f, p[i + 1], p[(i + 1) + 1], L[i + 1])
        ELSE p[(i + 1) + 1] = p[i + 1]
    BY <1>1, <2>1, Zenon DEF Course
  <2>4. /\ i \in DOMAIN M <=> i + 1 \in DOMAIN L
        /\ i \in DOMAIN M => M[i] = L[i + 1]
    BY Zenon DEF Shifted
  <2> QED BY <2>2, <2>3, <2>4, Zenon
<1>6. Course(t, f, M)
  BY <1>3, <1>4, <1>5, Zenon DEF Course
<1>7. t[(n - 1) + 1] = p[n + 1]
  <2>1. (n - 1) + 1 = n /\ n \in Nat
    OBVIOUS
  <2> QED BY <1>3, <2>1
<1>8. Ready(f, k, M, d)
  <2>1. Ready(f, k, L, d)
    BY DEF Tracked
  <2>2. \A i \in DOMAIN M : i \in Nat /\ i + 1 \in DOMAIN L /\ M[i] = L[i + 1]
    BY Zenon DEF Shifted
  <2>3. ASSUME NEW j \in DOMAIN L
        PROVE  j - 1 \in DOMAIN M /\ M[j - 1] = L[j]
    <3>1. j \in Nat \ {0} /\ j # 1
      BY <2>3 DEF Shifted
    <3>2. j - 1 \in Nat \ {0} /\ (j - 1) + 1 = j
      BY <3>1
    <3> QED BY <2>3, <3>2, Zenon DEF Shifted
  <2>4. (\A i \in DOMAIN M : M[i].limit = NoLimit) => \A i \in DOMAIN L : L[i].limit = NoLimit
    BY <2>3
  <2>5. ASSUME NEW i \in DOMAIN M, M[i].limit # NoLimit
        PROVE  Exact(f, k, Prepared(d, M[i])) /\ \A j \in DOMAIN M : i <= j
    <3>1. i + 1 \in DOMAIN L /\ M[i] = L[i + 1] /\ i \in Nat
      BY <2>2
    <3>2. Exact(f, k, Prepared(d, L[i + 1])) /\ \A j \in DOMAIN L : i + 1 <= j
      BY <2>1, <2>5, <3>1, Zenon DEF Ready
    <3>3. ASSUME NEW j \in DOMAIN M
          PROVE  i <= j
      <4>1. j \in Nat /\ i + 1 <= j + 1
        BY <2>2, <3>2, <3>3
      <4> QED BY <3>1, <4>1
    <3> QED BY <3>1, <3>2, <3>3
  <2> QED BY <2>1, <2>4, <2>5, Zenon DEF Ready
<1>9. alive => Ends(t[(n - 1) + 1], f, k, after)
  BY <1>1, <1>7, Zenon
<1> QED BY <1>6, <1>8, <1>9, Zenon DEF Tracked

\* The counters after a result: a row without a sample leaves them as they are, and
\* one with a sample leaves the request drafting.
Answered(q, after, row) ==
  /\ ~row.sampling => after = q
  /\ after.drafting = q.drafting

LEMMA LeadsStays ==
  ASSUME NEW f, NEW g, g.prompt = f.prompt, NEW a, NEW b, NEW row, Leads(f, a, b, row),
         row.follows \/ g.tokens = f.tokens
  PROVE  Leads(g, a, b, row)
  BY Zenon DEF Leads

\* The device before the first row of a lane.
LEMMA ReadyFirst ==
  ASSUME NEW f, NEW k, NEW L, NEW d, Ready(f, k, L, d), 1 \in DOMAIN L,
         DOMAIN L \subseteq Nat \ {0}, L[1].epoch = k.epoch
  PROVE  /\ Exact(f, k, Prepared(d, L[1]))
         /\ \A i \in DOMAIN L \ {1} : L[i].limit = NoLimit
<1>1. CASE L[1].limit # NoLimit
  <2>1. ASSUME NEW i \in DOMAIN L \ {1}, L[i].limit # NoLimit
        PROVE  FALSE
    <3>1. i <= 1 /\ i \in Nat \ {0} /\ i # 1
      BY <2>1 DEF Ready
    <3> QED BY <3>1
  <2> QED BY <1>1, <2>1 DEF Ready
<1>2. CASE L[1].limit = NoLimit
  <2>1. ASSUME NEW i \in DOMAIN L, L[i].limit # NoLimit
        PROVE  FALSE
    <3>1. i <= 1 /\ i \in Nat \ {0} /\ i # 1
      BY <1>2, <2>1 DEF Ready
    <3> QED BY <3>1
  <2>2. Exact(f, k, d)
    BY <2>1 DEF Ready
  <2>3. Prepared(d, L[1]) = d
    <3>1. d.epoch = L[1].epoch
      BY <2>2 DEF Exact
    <3> QED BY <1>2, <3>1, Zenon DEF Prepared
  <2> QED BY <2>1, <2>2, <2>3, Zenon
<1> QED BY <1>1, <1>2

\* The oldest frame retires with a row of the lease, and its frontier is still known.
LEMMA TrackedStep ==
  ASSUME NEW f \in FrontierState, f.known, NEW k, NEW L, NEW n \in Nat \ {0}, NEW q, NEW d,
         NEW live, Tracked(f, k, L, n, q, d, live), 1 \in DOMAIN L, NEW row, row = L[1],
         row.epoch = k.epoch,
         row.query \in Int, row.drafts \in Int, row.sampling \in BOOLEAN,
         Shaped(Prepared(d, row)), NEW sampled \in Samples(row),
         NEW role, row.follows => role,
         NEW g, g = Advance(f, row.query, row.drafts, sampled), g.known,
         NEW M, Shifted(L, M), NEW after, NEW alive, alive => live /\ Answered(q, after, row)
  PROVE  Tracked(g, k, M, n - 1, after, Executed(Prepared(d, row), row, role, sampled), alive)
<1>1. PICK p : Course(p, f, L) /\ (live => Ends(p[n + 1], f, k, q))
  BY DEF Tracked
<1> DEFINE t == [i \in Nat |-> p[i + 1]]
           b == p[2]
           e == Executed(Prepared(d, row), row, role, sampled)
<1>2. \A i \in Nat : p[i] \in Int /\ i + 1 \in Nat
  BY <1>1 DEF Course
<1>3. t \in [Nat -> Int] /\ \A i \in Nat : t[i] = p[i + 1]
  BY <1>2
<1> HIDE DEF t
<1>4. Ready(f, k, L, d) /\ Fronted(f) /\ DOMAIN L \subseteq Nat \ {0}
  BY DEF Tracked, Shifted
<1>5. /\ Exact(f, k, Prepared(d, row))
      /\ \A i \in DOMAIN L \ {1} : L[i].limit = NoLimit
  BY <1>4, ReadyFirst
<1>6. Leads(f, Place(f), b, row) /\ b \in Int /\ t[1] = b
  <2>1. 1 \in Nat \ {0} /\ 1 + 1 = 2 /\ 2 \in Nat
    OBVIOUS
  <2>2. Leads(f, p[1], p[1 + 1], L[1]) /\ p[1] = Place(f)
    BY <1>1, <2>1, Zenon DEF Course
  <2> QED BY <1>2, <1>3, <2>1, <2>2
<1> HIDE DEF b
<1>7. Stepped(f, g, b, k, e)
  BY <1>4, <1>5, <1>6, FrontierStep
<1>8. f.prompt \in Nat /\ g.prompt = f.prompt /\ (b < f.prompt => g.tokens = f.tokens)
  BY <1>7, FrontierFacts DEF Stepped
<1>9. ASSUME b = f.prompt, NEW j \in Nat, j >= 2
      PROVE  p[j] = f.prompt /\ (j \in DOMAIN L => L[j].follows)
  <2>1. p[2] = f.prompt /\ 2 \in Nat \ {0}
    BY <1>9 DEF b
  <2> QED BY <1>1, <1>8, <1>9, <2>1, CourseStays
<1>10. b <= f.prompt
  BY <1>6, <1>8 DEF Leads
<1>11. b < f.prompt \/ b = f.prompt
  BY <1>6, <1>8, <1>10
<1>12. ASSUME NEW i \in Nat \ {0}
       PROVE  IF i \in DOMAIN M THEN Leads(g, t[i], t[i + 1], M[i]) ELSE t[i + 1] = t[i]
  <2>1. i + 1 \in Nat \ {0} /\ i \in Nat /\ i + 1 >= 2
    OBVIOUS
  <2>2. t[i] = p[i + 1] /\ t[i + 1] = p[(i + 1) + 1]
    BY <1>3, <2>1
  <2>3. IF i + 1 \in DOMAIN L THEN Leads(f, p[i + 1], p[(i + 1) + 1], L[i + 1])
        ELSE p[(i + 1) + 1] = p[i + 1]
    BY <1>1, <2>1, Zenon DEF Course
  <2>4. /\ i \in DOMAIN M <=> i + 1 \in DOMAIN L
        /\ i \in DOMAIN M => M[i] = L[i + 1]
    BY Zenon DEF Shifted
  <2>5. ASSUME i + 1 \in DOMAIN L
        PROVE  L[i + 1].follows \/ g.tokens = f.tokens
    BY <1>8, <1>9, <1>11, <2>1, <2>5, Zenon
  <2>6. i + 1 \in DOMAIN L => Leads(g, p[i + 1], p[(i + 1) + 1], L[i + 1])
    BY <1>8, <2>3, <2>5, LeadsStays
  <2> QED BY <2>2, <2>3, <2>4, <2>6, Zenon
<1>13. Course(t, g, M)
  <2>1. t[1] = Place(g)
    BY <1>6, <1>7 DEF Stepped
  <2> QED BY <1>3, <1>12, <2>1, Zenon DEF Course
<1>14. t[(n - 1) + 1] = p[n + 1]
  <2>1. (n - 1) + 1 = n /\ n \in Nat
    OBVIOUS
  <2> QED BY <1>3, <2>1
<1>15. Ready(g, k, M, e)
  <2>1. ASSUME NEW i \in DOMAIN M
        PROVE  M[i].limit = NoLimit
    <3>1. i \in Nat \ {0} /\ i + 1 \in DOMAIN L /\ M[i] = L[i + 1]
      BY Zenon DEF Shifted
    <3>2. i + 1 # 1
      BY <3>1
    <3> QED BY <1>5, <3>1, <3>2
  <2>2. Exact(g, k, e)
    BY <1>7 DEF Stepped
  <2> HIDE DEF e
  <2> QED BY <2>1, <2>2, Zenon DEF Ready
<1>16. ASSUME alive
       PROVE  Ends(t[(n - 1) + 1], g, k, after)
  <2> DEFINE x == p[n + 1]
  <2>1. Ends(x, f, k, q) /\ Answered(q, after, row)
    BY <1>1, <1>16
  <2>2. b = f.prompt => x = f.prompt
    <3>1. n + 1 \in Nat /\ n + 1 >= 2
      OBVIOUS
    <3> QED BY <1>9, <3>1
  <2> HIDE DEF x
  <2>3. row.sampling => b = f.prompt
    BY <1>6, Zenon DEF Leads
  <2>4. CASE x = f.prompt
    <3>1. x \in 0 .. g.prompt /\ ~(x < g.prompt) /\ after.drafting
      BY <1>8, <2>1, <2>4 DEF Ends, Answered
    <3> QED BY <1>14, <3>1 DEF Ends, x
  <2>5. CASE x # f.prompt
    <3>1. b # f.prompt
      BY <2>2, <2>5
    <3>2. ~row.sampling /\ after = q
      BY <2>1, <2>3, <3>1, Zenon DEF Answered
    <3>3. g.tokens = f.tokens /\ g.prompt = f.prompt
      BY <1>8, <1>11, <3>1
    <3>4. Ends(x, g, k, after)
      BY <2>1, <3>2, <3>3, Zenon DEF Ends
    <3> QED BY <1>14, <3>4 DEF x
  <2> QED BY <2>4, <2>5
<1>17. Fronted(g)
  BY <1>7 DEF Stepped
<1> QED BY <1>13, <1>15, <1>16, <1>17, Zenon DEF Tracked, e

-----------------------------------------------------------------------------
\* The frontiers of all leases, and the checkpoints of hot seats.

\* A frontier's lease is the latest of its seat: its request owns the seat, or ended
\* while frames of it are queued.
Leased(s, k) ==
  \/ k \in DOMAIN s.pending
  \/ s.pool.seat[k.seat].owner = k.rid /\ s.pool.seat[k.seat].epoch = k.epoch

\* The queued rows of the seat are the request's.
Sole(k, queue) ==
  \A i \in DOMAIN queue : \A r \in DOMAIN queue[i] : queue[i][r].seat = k.seat => r = k.rid

\* What holds of a frontier that is kept, and of its lane when it is known.
LeaseTracked(s, k, dev, queue, rows, q) ==
  /\ Leased(s, k) /\ Sole(k, queue)
  /\ s.frontiers[k].known =>
       Tracked(s.frontiers[k], k, Lane(k, queue, rows), Len(queue) + 1, q[k.rid],
               dev[k.seat], s.pool.seat[k.seat].owner = k.rid)

LeasesTracked(s, dev, queue, rows, q) ==
  \A k \in DOMAIN s.frontiers : LeaseTracked(s, k, dev, queue, rows, q)

\* A checkpoint is what the device holds, and no queued frame writes its seat.
HotExact(s, dev) ==
  \A i \in Seats : s.pool.seat[i].blocks # <<>> =>
    /\ s.pool.seat[i].fence = 0
    /\ dev[i].epoch = s.pool.seat[i].epoch
    /\ dev[i].tokens = s.pool.seat[i].tokens

\* The device has seen no epoch that the seat has not reached.
EpochsBelow(s, dev) ==
  \A i \in Seats : /\ Shaped(dev[i])
                   /\ dev[i].epoch \in Nat
                   /\ dev[i].epoch <= s.pool.seat[i].epoch

\* Seats lose checkpoints and advance epochs.
SeatsNarrow(s, next) ==
  \A i \in Seats :
    /\ next.pool.seat[i].epoch >= s.pool.seat[i].epoch
    /\ next.pool.seat[i].blocks # <<>> =>
         /\ s.pool.seat[i].blocks # <<>>
         /\ next.pool.seat[i].epoch = s.pool.seat[i].epoch
         /\ next.pool.seat[i].tokens = s.pool.seat[i].tokens
         /\ s.pool.seat[i].fence = 0 => next.pool.seat[i].fence = 0

LEMMA SeatsNarrowed ==
  ASSUME NEW s \in State, NEW next \in State, NEW dev, SeatsNarrow(s, next)
  PROVE  /\ HotExact(s, dev) => HotExact(next, dev)
         /\ EpochsBelow(s, dev) => EpochsBelow(next, dev)
<1>1. HotExact(s, dev) => HotExact(next, dev)
  BY Zenon DEF HotExact, SeatsNarrow
<1>2. ASSUME EpochsBelow(s, dev), NEW i \in Seats
      PROVE  /\ Shaped(dev[i]) /\ dev[i].epoch \in Nat
             /\ dev[i].epoch <= next.pool.seat[i].epoch
  <2>1. /\ Shaped(dev[i]) /\ dev[i].epoch \in Nat /\ dev[i].epoch <= s.pool.seat[i].epoch
        /\ next.pool.seat[i].epoch >= s.pool.seat[i].epoch
    BY <1>2, Zenon DEF EpochsBelow, SeatsNarrow
  <2>2. s.pool.seat[i].epoch \in Nat /\ next.pool.seat[i].epoch \in Nat
    BY StateFacts, PoolFacts
  <2> DEFINE a == dev[i].epoch
             b == s.pool.seat[i].epoch
             c == next.pool.seat[i].epoch
  <2>3. a \in Nat /\ b \in Nat /\ c \in Nat /\ a <= b /\ c >= b
    BY <2>1, <2>2
  <2> HIDE DEF a, b, c
  <2>4. a <= c
    BY <2>3
  <2> QED BY <2>1, <2>4 DEF a, c
<1> QED BY <1>1, <1>2 DEF EpochsBelow

\* Leases end, frontiers are lost or forgotten, and the others are as they were.
LeaseNarrows(s, next, k, q, after) ==
  /\ k \in DOMAIN s.frontiers
  /\ next.frontiers[k].known => next.frontiers[k] = s.frontiers[k]
  /\ Leased(next, k)
  /\ next.pool.seat[k.seat].owner = k.rid =>
       s.pool.seat[k.seat].owner = k.rid /\ after[k.rid] = q[k.rid]

LEMMA LeasesNarrowed ==
  ASSUME NEW s, NEW next, NEW q, NEW after, NEW dev, NEW queue, NEW rows,
         LeasesTracked(s, dev, queue, rows, q),
         \A k \in DOMAIN next.frontiers : LeaseNarrows(s, next, k, q, after)
  PROVE  LeasesTracked(next, dev, queue, rows, after)
<1> SUFFICES ASSUME NEW k \in DOMAIN next.frontiers
             PROVE  LeaseTracked(next, k, dev, queue, rows, after)
  BY DEF LeasesTracked
<1> DEFINE L == Lane(k, queue, rows)
           n == Len(queue) + 1
           live == s.pool.seat[k.seat].owner = k.rid
           alive == next.pool.seat[k.seat].owner = k.rid
           f == s.frontiers[k]
           g == next.frontiers[k]
           d == dev[k.seat]
           a == q[k.rid]
           b == after[k.rid]
<1>1. /\ Sole(k, queue)
      /\ f.known => Tracked(f, k, L, n, a, d, live)
  BY Zenon DEF LeasesTracked, LeaseTracked, LeaseNarrows
<1>2. /\ Leased(next, k)
      /\ g.known => g = f
      /\ alive => live /\ b = a
  BY DEF LeaseNarrows
<1>3. LeaseTracked(next, k, dev, queue, rows, after)
        <=> /\ Leased(next, k) /\ Sole(k, queue)
            /\ g.known => Tracked(g, k, L, n, b, d, alive)
  BY DEF LeaseTracked
<1> HIDE DEF L, n, live, alive, f, g, d, a, b
<1>4. ASSUME g.known
      PROVE  Tracked(g, k, L, n, b, d, alive)
  <2>1. g = f /\ f.known
    BY <1>2, <1>4
  <2>2. Tracked(f, k, L, n, a, d, live)
    BY <1>1, <2>1
  <2>3. Tracked(f, k, L, n, b, d, alive)
    BY <1>2, <2>2, TrackedStays, Zenon
  <2> QED BY <2>1, <2>3
<1> QED BY <1>1, <1>2, <1>3, <1>4

LEMMA LaneEmpty ==
  ASSUME NEW k, NEW T, NEW queue \in Seq(T), NEW rows, ~On(k, rows),
         \A i \in 1 .. Len(queue) : ~On(k, queue[i])
  PROVE  DOMAIN Lane(k, queue, rows) = {}
<1> DEFINE L == Lane(k, queue, rows)
           n == Len(queue)
<1>1. n \in Nat
  BY LenProperties
<1>2. LaneBy(L, k, queue, rows)
  BY LaneIs, Zenon
<1> HIDE DEF L
<1>3. /\ DOMAIN L \subseteq 1 .. n + 1
      /\ \A i \in 1 .. n : i \notin DOMAIN L
      /\ n + 1 \notin DOMAIN L
  BY <1>2, Zenon DEF LaneBy, n
<1> HIDE DEF n
<1>4. ASSUME NEW i \in DOMAIN L
      PROVE  FALSE
  <2>1. i \in 1 .. n + 1
    BY <1>3
  <2>2. i = n + 1 \/ i \in 1 .. n
    BY <1>1, <2>1
  <2> QED BY <1>3, <2>2
<1> QED BY <1>4, Zenon DEF L

\* A frontier's lease.
LEMMA FrontierKeys ==
  ASSUME NEW s \in State, NEW k \in DOMAIN s.frontiers
  PROVE  /\ k \in LeaseKey /\ k.seat \in Seats /\ k.rid \in Request /\ k.epoch \in Nat
         /\ k = [rid |-> k.rid, seat |-> k.seat, epoch |-> k.epoch]
         /\ s.frontiers[k] \in FrontierState
<1>1. k \in LeaseKey /\ s.frontiers[k] \in FrontierState
  BY StateFacts, PartialIs
<1> QED BY <1>1 DEF LeaseKey

\* The epoch of a lease whose frontier is followed.
LEMMA LeasedEpoch ==
  ASSUME NEW s \in State, PendingKept(s), NEW k, Leased(s, k)
  PROVE  /\ s.pool.seat[k.seat].epoch = k.epoch
         /\ s.pool.seat[k.seat].owner \in {k.rid, Nobody}
  BY DEF Leased, PendingKept

\* The frontiers and tokens after publication.
LEMMA PublishFrontiers ==
  ASSUME NEW s \in State, NEW H, Listed(s, H)
  PROVE  LET next == Publish(s)
         IN  /\ DOMAIN next.frontiers = DOMAIN s.frontiers \ Due(s)
             /\ \A k \in DOMAIN next.frontiers : next.frontiers[k] = s.frontiers[k]
             /\ \A k \in Due(s) : KeptPages(s, k) # <<>> =>
                  next.pool.seat[k.seat].tokens = Observed(s, k)
             /\ \A i \in Seats : (\A k \in Due(s) : k.seat # i)
                                   => next.pool.seat[i] = s.pool.seat[i]
<1> DEFINE filled(i) == {k \in Due(s) : k.seat = i /\ KeptPages(s, k) # <<>>}
           of(i) == CHOOSE k \in filled(i) : TRUE
           seat == [i \in Seats |->
                      IF filled(i) = {} THEN s.pool.seat[i]
                      ELSE [s.pool.seat[i] EXCEPT !.tokens = Observed(s, of(i)),
                                                  !.salt = s.pending[of(i)].salt,
                                                  !.blocks = KeptPages(s, of(i))]]
           ref == UnpinnedEach(s.ref, [k \in Due(s) |-> OtherPages(s, k)])
           D == DOMAIN s.frontiers \ Due(s)
           front == Restrict(s.frontiers, D)
           pend == Restrict(s.pending, DOMAIN s.pending \ Due(s))
           next == Publish(s)
<1>1. next = [s EXCEPT !.pool.seat = seat, !.ref = ref, !.frontiers = front,
                       !.pending = pend]
  BY DEF Publish
<1>2. D \in SUBSET DOMAIN s.frontiers
  OBVIOUS
<1> HIDE DEF D
<1>3. DOMAIN front = D /\ \A k \in D : front[k] = s.frontiers[k]
  BY <1>2, StateFacts, RestrictType
<1> HIDE DEF seat, ref, front, pend, next
<1>4. next.frontiers = front /\ next.pool.seat = seat
  <2>1. s.pool \in [seat : [Seats -> SeatState], order : Seq(Seats)]
    BY StateFacts DEF Pool
  <2> QED BY <1>1, <2>1 DEF State
<1>5. ASSUME NEW k \in Due(s), KeptPages(s, k) # <<>>
      PROVE  seat[k.seat].tokens = Observed(s, k)
  <2>1. k \in DOMAIN s.pending /\ k.seat \in Seats
    BY PendingSeats DEF Due, Listed
  <2>2. \A l \in filled(k.seat) : l = k
    BY <2>1 DEF Listed, Due
  <2>3. filled(k.seat) = {k}
    BY <1>5, <2>2
  <2>4. of(k.seat) = k
    BY <2>3
  <2> DEFINE old == s.pool.seat[k.seat]
  <2>5. old \in SeatState
    BY <2>1, StateFacts, PoolFacts
  <2>6. seat[k.seat] = [old EXCEPT !.tokens = Observed(s, k), !.salt = s.pending[k].salt,
                                   !.blocks = KeptPages(s, k)]
    BY <2>1, <2>3, <2>4, Zenon DEF seat
  <2> HIDE DEF old
  <2> QED BY <2>5, <2>6 DEF SeatState
<1>6. ASSUME NEW i \in Seats, \A k \in Due(s) : k.seat # i
      PROVE  seat[i] = s.pool.seat[i]
  BY <1>6 DEF seat
<1> QED BY <1>3, <1>4, <1>5, <1>6 DEF next, D

\* The last writer of a due checkpoint's seat has retired.
LEMMA DueEmpty ==
  ASSUME NEW s \in State, PendingKept(s), NEW k \in Due(s),
         NEW T, NEW queue \in Seq(T), Rowed(queue), RowsKept(s, queue),
         NEW rows, FrameOK(rows), RowsHeld(s, rows)
  PROVE  DOMAIN Lane(k, queue, rows) = {}
<1>1. /\ k \in DOMAIN s.pending /\ s.pending[k].fence = 0
      /\ s.pool.seat[k.seat].owner = Nobody /\ s.pool.seat[k.seat].fence = 0
  BY DEF Due, PendingKept
<1>2. ~On(k, rows)
  <2>1. ASSUME On(k, rows)
        PROVE  FALSE
    <3>1. k.rid \in DOMAIN rows /\ rows[k.rid].seat = k.seat
      BY <2>1 DEF On
    <3>2. s.pool.seat[k.seat].owner = k.rid /\ k.rid \in Request
      BY <3>1 DEF RowsHeld, FrameOK
    <3> QED BY <1>1, <3>2, SeatAssumption
  <2> QED BY <2>1
<1>3. DOMAIN queue = 1 .. Len(queue) /\ Len(queue) \in Nat
  BY LenProperties
<1>4. ASSUME NEW i \in 1 .. Len(queue), On(k, queue[i])
      PROVE  FALSE
  <2>1. k.rid \in DOMAIN queue[i] /\ queue[i][k.rid].seat = k.seat
    BY <1>4 DEF On
  <2>2. s.pool.seat[k.seat].fence >= i
    BY <1>1, <1>3, <2>1 DEF RowsKept
  <2>3. i \in Nat /\ i >= 1
    BY <1>3
  <2> QED BY <1>1, <2>2, <2>3
<1> QED BY <1>2, <1>4, LaneEmpty

\* A due checkpoint is where the device is.
LEMMA DueExact ==
  ASSUME NEW s \in State, PendingKept(s), NEW k \in Due(s), KeptPages(s, k) # <<>>,
         NEW T, NEW queue \in Seq(T), Rowed(queue), RowsKept(s, queue),
         NEW rows, FrameOK(rows), RowsHeld(s, rows),
         NEW dev, NEW q, LeasesTracked(s, dev, queue, rows, q)
  PROVE  /\ dev[k.seat].epoch = s.pool.seat[k.seat].epoch
         /\ dev[k.seat].tokens = Observed(s, k)
<1> DEFINE f == s.frontiers[k]
           L == Lane(k, queue, rows)
           d == dev[k.seat]
<1>1. k \in DOMAIN s.frontiers /\ Observed(s, k) = Checkpoint(f) /\ Checkpoint(f) # <<>>
  BY DEF KeptPages, Observed
<1>2. f.known /\ f.cursor > 0 /\ Checkpoint(f) = SubSeq(f.tokens, 1, f.cursor + 1)
  BY <1>1, Zenon DEF Checkpoint
<1>3. DOMAIN L = {}
  BY DueEmpty
<1>4. Ready(f, k, L, d)
  BY <1>1, <1>2, Zenon DEF LeasesTracked, LeaseTracked, Tracked
<1> HIDE DEF f, L, d
<1>5. Exact(f, k, d)
  BY <1>3, <1>4, Zenon DEF Ready
<1>6. s.pool.seat[k.seat].epoch = k.epoch
  BY DEF Due, PendingKept
<1> QED BY <1>1, <1>2, <1>5, <1>6 DEF Exact, d

LEMMA PublishTracked ==
  ASSUME NEW s \in State, PendingKept(s), NEW H, Listed(s, H),
         NEW T, NEW queue \in Seq(T), Rowed(queue), RowsKept(s, queue),
         NEW rows, FrameOK(rows), RowsHeld(s, rows),
         NEW dev, NEW q, LeasesTracked(s, dev, queue, rows, q),
         HotExact(s, dev), EpochsBelow(s, dev)
  PROVE  /\ LeasesTracked(Publish(s), dev, queue, rows, q)
         /\ HotExact(Publish(s), dev)
         /\ EpochsBelow(Publish(s), dev)
<1> DEFINE next == Publish(s)
<1>1. /\ \A i \in Seats : /\ next.pool.seat[i].owner = s.pool.seat[i].owner
                          /\ next.pool.seat[i].epoch = s.pool.seat[i].epoch
                          /\ next.pool.seat[i].fence = s.pool.seat[i].fence
      /\ DOMAIN next.pending = DOMAIN s.pending \ Due(s)
  BY PublishFields DEF Undisturbed
<1>2. /\ DOMAIN next.frontiers = DOMAIN s.frontiers \ Due(s)
      /\ \A k \in DOMAIN next.frontiers : next.frontiers[k] = s.frontiers[k]
      /\ \A k \in Due(s) : KeptPages(s, k) # <<>> =>
           next.pool.seat[k.seat].tokens = Observed(s, k)
      /\ \A i \in Seats : (\A k \in Due(s) : k.seat # i)
                            => next.pool.seat[i] = s.pool.seat[i]
  BY PublishFrontiers, Zenon
<1>3. \A k \in Due(s) : next.pool.seat[k.seat].blocks = KeptPages(s, k)
  BY PublishIs, Zenon
<1>4. \A k \in Due(s) : k.seat \in Seats /\ s.pool.seat[k.seat].fence = 0
  BY PendingSeats DEF Due, PendingKept
<1> HIDE DEF next
<1>5. ASSUME NEW k \in DOMAIN next.frontiers
      PROVE  LeaseNarrows(s, next, k, q, q)
  <2>1. /\ k \in DOMAIN s.frontiers /\ k \notin Due(s)
        /\ next.frontiers[k] = s.frontiers[k]
    BY <1>2
  <2>2. k.seat \in Seats
    BY <2>1, FrontierKeys
  <2>3. Leased(s, k)
    BY <2>1, Zenon DEF LeasesTracked, LeaseTracked
  <2>4. Leased(next, k)
    BY <1>1, <2>1, <2>2, <2>3 DEF Leased
  <2> QED BY <1>1, <2>1, <2>2, <2>4 DEF LeaseNarrows
<1>6. LeasesTracked(next, dev, queue, rows, q)
  BY <1>5, LeasesNarrowed
<1>7. ASSUME NEW i \in Seats, next.pool.seat[i].blocks # <<>>
      PROVE  /\ next.pool.seat[i].fence = 0
             /\ dev[i].epoch = next.pool.seat[i].epoch
             /\ dev[i].tokens = next.pool.seat[i].tokens
  <2>1. CASE \A k \in Due(s) : k.seat # i
    <3>1. next.pool.seat[i] = s.pool.seat[i]
      BY <1>2, <2>1
    <3> QED BY <1>7, <3>1 DEF HotExact
  <2>2. ASSUME NEW k \in Due(s), k.seat = i
        PROVE  /\ next.pool.seat[i].fence = 0
               /\ dev[i].epoch = next.pool.seat[i].epoch
               /\ dev[i].tokens = next.pool.seat[i].tokens
    <3>1. KeptPages(s, k) # <<>>
      BY <1>3, <1>7, <2>2
    <3>2. /\ dev[i].epoch = s.pool.seat[i].epoch
          /\ dev[i].tokens = Observed(s, k)
      BY <2>2, <3>1, DueExact
    <3> QED BY <1>1, <1>2, <1>4, <2>2, <3>1, <3>2
  <2> QED BY <2>1, <2>2
<1>8. HotExact(next, dev)
  BY <1>7 DEF HotExact
<1>9. EpochsBelow(next, dev)
  BY <1>1 DEF EpochsBelow
<1> QED BY <1>6, <1>8, <1>9 DEF next

\* The frontiers after a request has left its seat.
LEMMA LeaveSeatFrontiers ==
  ASSUME NEW s \in State, NEW r \in Request, NEW finished \in BOOLEAN, NEW fence \in Nat
  PROVE  LET i    == SeatOf(s.pool, r)
             key  == [rid |-> r, seat |-> i, epoch |-> s.pool.seat[i].epoch]
             next == LeaveSeat(s, r, finished, fence)
         IN  /\ finished => next.frontiers = s.frontiers
             /\ ~finished => /\ DOMAIN next.frontiers = DOMAIN s.frontiers \ {key}
                             /\ \A k \in DOMAIN next.frontiers :
                                  next.frontiers[k] = s.frontiers[k]
<1> DEFINE i    == SeatOf(s.pool, r)
           key  == [rid |-> r, seat |-> i, epoch |-> s.pool.seat[i].epoch]
           entry == [fence |-> fence, salt |-> SaltOf[r], blocks |-> s.held[r]]
           pend == IF finished THEN Put(s.pending, key, entry) ELSE s.pending
           ref == IF finished THEN Pinned(s.ref, s.held[r]) ELSE s.ref
           D == DOMAIN s.frontiers \ {key}
           cut == Restrict(s.frontiers, D)
           front == IF finished THEN s.frontiers ELSE cut
           pool == Retire(s.pool, r, fence)
           offers == [s.offers EXCEPT ![r] = NoOffer]
           next == LeaveSeat(s, r, finished, fence)
<1>1. next = [s EXCEPT !.pending = pend, !.ref = ref, !.frontiers = front, !.pool = pool,
                       !.offers = offers]
  BY DEF LeaveSeat
<1>2. D \in SUBSET DOMAIN s.frontiers
  OBVIOUS
<1> HIDE DEF pend, ref, front, pool, offers, next, D
<1>3. DOMAIN cut = D /\ \A k \in D : cut[k] = s.frontiers[k]
  BY <1>2, StateFacts, RestrictType
<1>4. next.frontiers = front
  BY <1>1 DEF State
<1> HIDE DEF cut
<1> QED BY <1>3, <1>4, Zenon DEF front, D, next

LEMMA NativeFreeFrontiers ==
  ASSUME NEW s \in State, NEW r \in Request, NEW fence \in Nat
  PROVE  NativeFree(s, r, fence).frontiers = s.frontiers
  BY DEF NativeFree, State

\* A request that leaves its seat takes its lease with it, or leaves it pending.
LEMMA LeaveSeatTracked ==
  ASSUME NEW s \in State, NEW r \in Request, r \in Holders(s.pool),
         NEW finished \in BOOLEAN, NEW fence \in Nat,
         NEW H, Seated(s, H), PendingKept(s),
         NEW queue, NEW rows, NEW dev, NEW q, LeasesTracked(s, dev, queue, rows, q),
         NEW after, \A x \in Request \ {r} : after[x] = q[x]
  PROVE  LET next == LeaveSeat(s, r, finished, fence)
         IN  LeasesTracked(next, dev, queue, rows, after) /\ SeatsNarrow(s, next)
<1>0. SeatOf(s.pool, r) \in Seats /\ s.pool.seat[SeatOf(s.pool, r)].owner = r /\ r # Nobody
  BY SeatOfOwner
<1> SUFFICES ASSUME NEW i \in Seats, i = SeatOf(s.pool, r)
             PROVE  LET next == LeaveSeat(s, r, finished, fence)
                    IN  LeasesTracked(next, dev, queue, rows, after) /\ SeatsNarrow(s, next)
  BY <1>0
<1> DEFINE key  == [rid |-> r, seat |-> i, epoch |-> s.pool.seat[i].epoch]
           next == LeaveSeat(s, r, finished, fence)
<1>1. /\ next.pool = Retire(s.pool, r, fence)
      /\ finished => DOMAIN next.pending = DOMAIN s.pending \cup {key}
      /\ ~finished => next.pending = s.pending
  <2>1. /\ next.pool = Retire(s.pool, r, fence)
        /\ finished => /\ DOMAIN next.pending = DOMAIN s.pending \cup {key}
                       /\ next.pending[key].fence = fence
                       /\ \A k \in DOMAIN s.pending \ {key} : next.pending[k] = s.pending[k]
        /\ ~finished => next.pending = s.pending
    BY LeaveSeatFields
  <2> QED BY <2>1
<1>2. /\ finished => next.frontiers = s.frontiers
      /\ ~finished => /\ DOMAIN next.frontiers = DOMAIN s.frontiers \ {key}
                      /\ \A k \in DOMAIN next.frontiers : next.frontiers[k] = s.frontiers[k]
  BY LeaveSeatFrontiers
<1> HIDE DEF next
<1>3. /\ next.pool.seat[i].owner = Nobody
      /\ next.pool.seat[i].epoch = s.pool.seat[i].epoch
      /\ next.pool.seat[i].blocks = <<>>
      /\ \A j \in Seats \ {i} : next.pool.seat[j] = s.pool.seat[j]
  BY <1>1, StateFacts, RetireFields
<1>4. s.pool.seat[i].owner = r /\ \A j \in Seats : s.pool.seat[j].owner = r => j = i
  BY <1>0 DEF Seated
<1>5. ASSUME NEW k \in DOMAIN next.frontiers
      PROVE  LeaseNarrows(s, next, k, q, after)
  <2>1. /\ k \in DOMAIN s.frontiers /\ next.frontiers[k] = s.frontiers[k]
        /\ ~finished => k # key
    BY <1>2
  <2>2. /\ k.seat \in Seats /\ k.rid \in Request
        /\ k = [rid |-> k.rid, seat |-> k.seat, epoch |-> k.epoch]
    BY <2>1, FrontierKeys
  <2>3. Leased(s, k)
    BY <2>1, Zenon DEF LeasesTracked, LeaseTracked
  <2>4. CASE k.seat = i
    <3>1. k \notin DOMAIN s.pending
      BY <1>0, <1>4, <2>4 DEF PendingKept
    <3>2. k.rid = r /\ k.epoch = s.pool.seat[i].epoch
      BY <1>4, <2>3, <2>4, <3>1 DEF Leased
    <3>3. k = key
      BY <2>2, <2>4, <3>2
    <3>4. finished /\ k \in DOMAIN next.pending
      BY <1>1, <2>1, <3>3
    <3>5. next.pool.seat[k.seat].owner # k.rid
      BY <1>0, <1>3, <2>4, <3>2
    <3> QED BY <2>1, <3>4, <3>5 DEF LeaseNarrows, Leased
  <2>5. CASE k.seat # i
    <3>1. next.pool.seat[k.seat] = s.pool.seat[k.seat]
      BY <1>3, <2>2, <2>5
    <3>2. Leased(next, k)
      BY <1>1, <2>3, <3>1 DEF Leased
    <3>3. next.pool.seat[k.seat].owner = k.rid => k.rid # r
      BY <1>4, <2>2, <2>5, <3>1
    <3> HIDE DEF key
    <3> QED BY <2>1, <2>2, <3>1, <3>2, <3>3 DEF LeaseNarrows
  <2> QED BY <2>4, <2>5
<1>6. LeasesTracked(next, dev, queue, rows, after)
  BY <1>5, LeasesNarrowed
<1>7. SeatsNarrow(s, next)
  <2> SUFFICES ASSUME NEW j \in Seats
               PROVE  /\ next.pool.seat[j].epoch >= s.pool.seat[j].epoch
                      /\ next.pool.seat[j].blocks # <<>> =>
                           /\ s.pool.seat[j].blocks # <<>>
                           /\ next.pool.seat[j].epoch = s.pool.seat[j].epoch
                           /\ next.pool.seat[j].tokens = s.pool.seat[j].tokens
                           /\ s.pool.seat[j].fence = 0 => next.pool.seat[j].fence = 0
    BY DEF SeatsNarrow
  <2>1. s.pool.seat[j].epoch \in Nat
    BY StateFacts, PoolFacts
  <2> HIDE DEF key
  <2> QED BY <1>3, <2>1
<1> QED BY <1>6, <1>7 DEF next

\* The frontiers, the device and the checkpoints agree.
DeviceAgrees(s, dev, queue, rows, q) ==
  /\ LeasesTracked(s, dev, queue, rows, q)
  /\ HotExact(s, dev)
  /\ EpochsBelow(s, dev)

\* Steps that leave pool, pending checkpoints and frontiers alone.
LEMMA SameAgrees ==
  ASSUME NEW s, NEW next, next.pool = s.pool, next.pending = s.pending,
         next.frontiers = s.frontiers,
         NEW dev, NEW queue, NEW rows, NEW q, DeviceAgrees(s, dev, queue, rows, q)
  PROVE  DeviceAgrees(next, dev, queue, rows, q)
<1>1. LeasesTracked(next, dev, queue, rows, q)
  BY Zenon DEF DeviceAgrees, LeasesTracked, LeaseTracked, Leased
<1> QED BY <1>1, Zenon DEF DeviceAgrees, HotExact, EpochsBelow

LEMMA FreeRequestBlocksAgrees ==
  ASSUME NEW s \in State, NEW r \in Request,
         NEW finished \in BOOLEAN, NEW fence \in Nat,
         NEW H, Seated(s, H), PendingKept(s), Listed(s, H), Counted(s),
         NEW T, NEW queue \in Seq(T), Rowed(queue), RowsKept(s, queue),
         Covers(queue, r, fence),
         NEW rows, FrameOK(rows), RowsHeld(s, rows), r \notin DOMAIN rows,
         NEW dev, NEW q, DeviceAgrees(s, dev, queue, rows, q),
         NEW after, \A x \in Request \ {r} : after[x] = q[x]
  PROVE  DeviceAgrees(FreeRequestBlocks(s, r, finished, fence), dev, queue, rows, after)
<1> DEFINE left == IF r \in Holders(s.pool) THEN LeaveSeat(s, r, finished, fence) ELSE s
           freed == NativeFree(left, r, fence)
<1>0. FreeRequestBlocks(s, r, finished, fence) = Publish(freed)
  BY DEF FreeRequestBlocks
<1>1. /\ left \in State /\ PendingKept(left) /\ Listed(left, H) /\ Counted(left)
      /\ RowsKept(left, queue) /\ RowsHeld(left, rows)
      /\ DeviceAgrees(left, dev, queue, rows, after)
  <2>1. CASE r \notin Holders(s.pool)
    <3>1. left = s
      BY <2>1
    <3>2. ASSUME NEW k \in DOMAIN s.frontiers
          PROVE  LeaseNarrows(s, s, k, q, after)
      <4>1. k.seat \in Seats /\ k.rid \in Request /\ k.rid # Nobody
        BY FrontierKeys, SeatAssumption
      <4>2. s.pool.seat[k.seat].owner = k.rid => k.rid # r
        BY <2>1, <4>1 DEF Holders
      <4>3. Leased(s, k)
        BY Zenon DEF DeviceAgrees, LeasesTracked, LeaseTracked
      <4> QED BY <4>1, <4>2, <4>3 DEF LeaseNarrows
    <3>3. LeasesTracked(s, dev, queue, rows, after)
      BY <3>2, LeasesNarrowed, Zenon DEF DeviceAgrees
    <3> HIDE DEF left
    <3> QED BY <3>1, <3>3, Zenon DEF DeviceAgrees
  <2>2. CASE r \in Holders(s.pool)
    <3>1. left = LeaveSeat(s, r, finished, fence)
      BY <2>2
    <3> HIDE DEF left
    <3>2. left \in State
      BY <2>2, <3>1, LeaveSeatFields
    <3>3. PendingKept(left) /\ RowsKept(left, queue) /\ OthersStay(s, left, r)
      BY <2>2, <3>1, LeaveSeatKeeps, Zenon
    <3>4. Listed(left, H) /\ Counted(left)
      BY <2>2, <3>1, LeaveSeatPages, Zenon
    <3>5. LeasesTracked(left, dev, queue, rows, after) /\ SeatsNarrow(s, left)
      BY <2>2, <3>1, LeaveSeatTracked, Zenon DEF DeviceAgrees
    <3>6. HotExact(left, dev) /\ EpochsBelow(left, dev)
      BY <3>2, <3>5, SeatsNarrowed, Zenon DEF DeviceAgrees
    <3>7. RowsHeld(left, rows)
      <4> SUFFICES ASSUME NEW x \in DOMAIN rows
                   PROVE  /\ left.pool.seat[rows[x].seat].epoch = rows[x].epoch
                          /\ left.pool.seat[rows[x].seat].owner = x
        BY DEF RowsHeld
      <4>1. /\ s.pool.seat[rows[x].seat].epoch = rows[x].epoch
            /\ s.pool.seat[rows[x].seat].owner = x
            /\ rows[x].seat \in Seats /\ x \in Request /\ x # r
        BY DEF RowsHeld, FrameOK
      <4>2. x # Nobody
        BY <4>1, SeatAssumption
      <4> QED BY <3>3, <4>1, <4>2 DEF OthersStay
    <3> QED BY <3>2, <3>3, <3>4, <3>5, <3>6, <3>7 DEF DeviceAgrees
  <2> QED BY <2>1, <2>2
<1> HIDE DEF left
<1>2. /\ freed \in State /\ freed.pool = left.pool /\ freed.pending = left.pending
      /\ freed.frontiers = left.frontiers
  BY <1>1, NativeFreeFields, NativeFreeFrontiers
<1>3. Listed(freed, H \ {r})
  BY <1>1, NativeFreePages
<1> HIDE DEF freed
<1>4. PendingKept(freed) /\ RowsKept(freed, queue) /\ RowsHeld(freed, rows)
  BY <1>1, <1>2, SamePool
<1>5. DeviceAgrees(freed, dev, queue, rows, after)
  BY <1>1, <1>2, SameAgrees
<1>6. DeviceAgrees(Publish(freed), dev, queue, rows, after)
  BY <1>2, <1>3, <1>4, <1>5, PublishTracked, Zenon DEF DeviceAgrees
<1> QED BY <1>0, <1>6, Zenon

\* The device's state after a row.
LEMMA RowShape ==
  ASSUME NEW d, Shaped(d), NEW row, NEW role, NEW sampled
  PROVE  /\ Shaped(Prepared(d, row)) /\ Prepared(d, row).epoch = row.epoch
         /\ Shaped(Executed(Prepared(d, row), row, role, sampled))
         /\ Executed(Prepared(d, row), row, role, sampled).epoch = row.epoch
<1> DEFINE p == Prepared(d, row)
           e == Executed(p, row, role, sampled)
<1>1. Shaped(p) /\ p.epoch = row.epoch
  <2> DEFINE fresh == IF d.epoch = row.epoch THEN d
                      ELSE [d EXCEPT !.epoch = row.epoch, !.tokens = <<>>]
  <2>1. p = IF row.limit = NoLimit THEN fresh ELSE [fresh EXCEPT !.remaining = row.limit]
    BY DEF Prepared
  <2>2. Shaped(fresh) /\ fresh.epoch = row.epoch
    <3>1. CASE d.epoch = row.epoch
      BY <3>1
    <3>2. CASE d.epoch # row.epoch
      <4>1. fresh = [d EXCEPT !.epoch = row.epoch, !.tokens = <<>>]
        BY <3>2
      <4>2. fresh = [epoch |-> row.epoch, tokens |-> <<>>, remaining |-> d.remaining]
        BY <4>1 DEF Shaped
      <4> HIDE DEF fresh
      <4> QED BY <4>2 DEF Shaped
    <3> QED BY <3>1, <3>2
  <2> HIDE DEF fresh, p
  <2>3. CASE row.limit = NoLimit
    BY <2>1, <2>2, <2>3
  <2>4. CASE row.limit # NoLimit
    <3>1. p = [fresh EXCEPT !.remaining = row.limit]
      BY <2>1, <2>4
    <3>2. p = [epoch |-> fresh.epoch, tokens |-> fresh.tokens, remaining |-> row.limit]
      BY <2>2, <3>1 DEF Shaped
    <3> QED BY <2>2, <3>2 DEF Shaped
  <2> QED BY <2>3, <2>4
<1> HIDE DEF p
<1>2. Shaped(e) /\ e.epoch = p.epoch
  <2> DEFINE t == Ran(p, row) \o (IF role THEN Limited(p, sampled) ELSE sampled)
             m == p.remaining - Len(Limited(p, sampled))
  <2>1. e = IF role /\ p.remaining = 0 THEN p ELSE [p EXCEPT !.tokens = t, !.remaining = m]
    BY DEF Executed
  <2> HIDE DEF e, t, m
  <2>2. CASE role /\ p.remaining = 0
    BY <1>1, <2>1, <2>2
  <2>3. CASE ~(role /\ p.remaining = 0)
    <3>1. e = [p EXCEPT !.tokens = t, !.remaining = m]
      BY <2>1, <2>3
    <3>2. e = [epoch |-> p.epoch, tokens |-> t, remaining |-> m]
      BY <1>1, <3>1 DEF Shaped
    <3> QED BY <3>2 DEF Shaped
  <2> QED BY <2>2, <2>3
<1> QED BY <1>1, <1>2 DEF p, e

\* What the frontiers and tokens are when a frame has retired.
LEMMA ElapsedFrontiers ==
  ASSUME NEW s \in State
  PROVE  /\ Elapsed(s).frontiers = s.frontiers
         /\ \A i \in Seats : Elapsed(s).pool.seat[i].tokens = s.pool.seat[i].tokens
<1> DEFINE old == Expired(s)
           seat == [i \in Seats |-> Closer(s.pool.seat[i])]
           pend == [k \in DOMAIN s.pending |-> Closer(s.pending[k])]
           pool == [s.pool EXCEPT !.seat = seat]
           next == Elapsed(s)
<1>1. old \in State /\ old.pool = s.pool /\ old.pending = s.pending
  BY ExpiredFields
<1>2. old.frontiers = s.frontiers
  BY DEF Expired, State
<1>3. next = [old EXCEPT !.pool.seat = [i \in Seats |-> Closer(old.pool.seat[i])],
                         !.pending = [k \in DOMAIN old.pending |-> Closer(old.pending[k])]]
  BY DEF Elapsed
<1> HIDE DEF next, old
<1>4. next = [old EXCEPT !.pool = pool, !.pending = pend]
  BY <1>1, <1>3
<1>5. \A i \in Seats : seat[i].tokens = s.pool.seat[i].tokens
  <2> TAKE i \in Seats
  <2>1. s.pool.seat[i] \in SeatState
    BY StateFacts, PoolFacts
  <2>2. seat[i] = Closer(s.pool.seat[i])
    OBVIOUS
  <2> HIDE DEF seat
  <2> QED BY <2>1, <2>2 DEF Closer, SeatState
<1> HIDE DEF seat, pend
<1>6. pool.seat = seat
  BY StateFacts DEF Pool
<1> HIDE DEF pool
<1>7. next.pool = pool /\ next.frontiers = old.frontiers
  BY <1>1, <1>4 DEF State
<1> QED BY <1>2, <1>5, <1>6, <1>7 DEF next

LEMMA AdvancedFrontiers ==
  ASSUME NEW s \in State, NEW frame, NEW sampled
  PROVE  LET next == Advanced(s, frame, sampled)
         IN  /\ DOMAIN next.frontiers = DOMAIN s.frontiers
             /\ \A k \in DOMAIN s.frontiers :
                  next.frontiers[k] =
                    IF On(k, frame)
                    THEN Advance(s.frontiers[k], frame[k.rid].query, frame[k.rid].drafts,
                                 sampled[k.rid])
                    ELSE s.frontiers[k]
<1> DEFINE front == [k \in DOMAIN s.frontiers |->
                       IF /\ k.rid \in DOMAIN frame
                          /\ frame[k.rid].seat = k.seat /\ frame[k.rid].epoch = k.epoch
                       THEN Advance(s.frontiers[k], frame[k.rid].query,
                                    frame[k.rid].drafts, sampled[k.rid])
                       ELSE s.frontiers[k]]
           next == Advanced(s, frame, sampled)
<1>1. next = [s EXCEPT !.frontiers = front]
  BY DEF Advanced
<1>2. /\ DOMAIN front = DOMAIN s.frontiers
      /\ \A k \in DOMAIN s.frontiers :
           front[k] = IF On(k, frame)
                      THEN Advance(s.frontiers[k], frame[k.rid].query,
                                   frame[k.rid].drafts, sampled[k.rid])
                      ELSE s.frontiers[k]
  BY DEF On
<1> HIDE DEF front, next
<1>3. next.frontiers = front
  BY <1>1 DEF State
<1> QED BY <1>2, <1>3 DEF next

\* The rows of a frame that follow a sample run as verify rows.
Verified(frame) == \A r \in DOMAIN frame : frame[r].follows => VerifyRole(frame, r)

\* The oldest frame, as its rows change frontiers, device and counters.
LeaseStep(k, f, g, d, e, frame, sampled) ==
  /\ On(k, frame) => /\ g = Advance(f, frame[k.rid].query, frame[k.rid].drafts, sampled[k.rid])
                     /\ e = Executed(Prepared(d, frame[k.rid]), frame[k.rid],
                                     VerifyRole(frame, k.rid), sampled[k.rid])
  /\ ~On(k, frame) => g = f /\ e = d

\* The request's counters when its row is answered, or when the frame has none of it.
CountsStep(k, frame, q, after) ==
  /\ On(k, frame) => Answered(q, after, frame[k.rid])
  /\ ~On(k, frame) => after = q

\* A lease when the oldest frame retires.
LEMMA RetiredLease ==
  ASSUME NEW k, NEW T, NEW queue \in Seq(T), queue # <<>>, Rowed(queue),
         NEW rows, DOMAIN rows = {}, NEW none, DOMAIN none = {},
         NEW frame, frame = Head(queue),
         NEW f \in FrontierState, NEW g, NEW d, Shaped(d), NEW e, NEW sampled,
         On(k, frame) => sampled[k.rid] \in Samples(frame[k.rid]), Verified(frame),
         LeaseStep(k, f, g, d, e, frame, sampled),
         NEW q, NEW after, NEW live, live => CountsStep(k, frame, q, after),
         f.known => Tracked(f, k, Lane(k, queue, rows), Len(queue) + 1, q, d, live),
         g.known
  PROVE  Tracked(g, k, Lane(k, Tail(queue), none), Len(Tail(queue)) + 1, after, e, live)
<1> DEFINE L == Lane(k, queue, rows)
           M == Lane(k, Tail(queue), none)
           n == Len(queue) + 1
           row == frame[k.rid]
<1>1. /\ n \in Nat \ {0} /\ Len(Tail(queue)) + 1 = n - 1 /\ 1 \in DOMAIN queue
      /\ Head(queue) = queue[1]
  <2>1. Len(queue) \in Nat /\ Len(queue) # 0 /\ DOMAIN queue = 1 .. Len(queue)
    BY LenProperties, EmptySeq
  <2>2. Len(Tail(queue)) = Len(queue) - 1 /\ Head(queue) = queue[1]
    BY <2>1, HeadTailProperties
  <2> QED BY <2>1, <2>2
<1>2. /\ Shifted(L, M)
      /\ 1 \in DOMAIN L <=> On(k, frame)
      /\ On(k, frame) => L[1] = row
  BY LaneRetired, Zenon
<1> HIDE DEF L, M, n
<1>3. Shifted(L, M)
  BY <1>2
<1>4. f.known => Tracked(f, k, L, n, q, d, live)
  BY Zenon DEF L, n
<1>5. CASE ~On(k, frame)
  <2>1. g = f /\ e = d /\ 1 \notin DOMAIN L
    BY <1>2, <1>5 DEF LeaseStep
  <2>2. live => live /\ after = q
    BY <1>5 DEF CountsStep
  <2>3. Tracked(f, k, L, n, q, d, live)
    BY <1>4, <2>1
  <2>4. Tracked(f, k, M, n - 1, after, d, live)
    BY <1>1, <1>3, <2>1, <2>2, <2>3, TrackedPassed
  <2> QED BY <1>1, <2>1, <2>4, Zenon DEF M
<1>6. CASE On(k, frame)
  <2>1. /\ k.rid \in DOMAIN frame /\ row.epoch = k.epoch /\ row.query \in Int
        /\ row.drafts \in Int /\ row.sampling \in BOOLEAN
    BY <1>1, <1>6 DEF Rowed, FrameOK, On
  <2>2. /\ g = Advance(f, row.query, row.drafts, sampled[k.rid])
        /\ e = Executed(Prepared(d, row), row, VerifyRole(frame, k.rid), sampled[k.rid])
        /\ sampled[k.rid] \in Samples(row)
        /\ 1 \in DOMAIN L /\ row = L[1]
    BY <1>2, <1>6 DEF LeaseStep
  <2>3. live => live /\ Answered(q, after, row)
    BY <1>6 DEF CountsStep
  <2>4. Shaped(Prepared(d, row))
    BY RowShape
  <2> DEFINE x == sampled[k.rid]
             role == VerifyRole(frame, k.rid)
  <2>5. x \in Samples(row) /\ g = Advance(f, row.query, row.drafts, x)
        /\ e = Executed(Prepared(d, row), row, role, x) /\ (row.follows => role)
    BY <2>1, <2>2 DEF Verified
  <2> HIDE DEF row, x, role
  <2>6. f.known
    BY <2>5 DEF Advance
  <2>7. Tracked(f, k, L, n, q, d, live)
    BY <1>4, <2>6
  <2>8. Tracked(g, k, M, n - 1, after, Executed(Prepared(d, row), row, role, x), live)
    BY <1>1, <1>3, <2>1, <2>2, <2>3, <2>4, <2>5, <2>6, <2>7, TrackedStep
  <2> QED BY <1>1, <2>5, <2>8, Zenon DEF M
<1> QED BY <1>5, <1>6

\* The device after the oldest frame.
FrameRun(device0, frame, sampled) ==
  [i \in Seats |->
     LET rows == {r \in DOMAIN frame : frame[r].seat = i} IN
     IF rows = {} THEN device0[i]
     ELSE LET r == CHOOSE r \in rows : TRUE
          IN  Executed(Prepared(device0[i], frame[r]), frame[r], VerifyRole(frame, r), sampled[r])]

LEMMA FrameRunAt ==
  ASSUME NEW dev, NEW frame, NEW sampled, NEW i \in Seats
  PROVE  /\ (\A r \in DOMAIN frame : frame[r].seat # i) =>
              FrameRun(dev, frame, sampled)[i] = dev[i]
         /\ \A r \in DOMAIN frame :
              /\ frame[r].seat = i
              /\ \A x \in DOMAIN frame : frame[x].seat = i => x = r
              => FrameRun(dev, frame, sampled)[i]
                   = Executed(Prepared(dev[i], frame[r]), frame[r], VerifyRole(frame, r), sampled[r])
         /\ (\E r \in DOMAIN frame : frame[r].seat = i) =>
              \E r \in DOMAIN frame :
                /\ frame[r].seat = i
                /\ FrameRun(dev, frame, sampled)[i]
                     = Executed(Prepared(dev[i], frame[r]), frame[r], VerifyRole(frame, r), sampled[r])
<1> DEFINE rows == {r \in DOMAIN frame : frame[r].seat = i}
           c == CHOOSE r \in rows : TRUE
           e(r) == Executed(Prepared(dev[i], frame[r]), frame[r], VerifyRole(frame, r), sampled[r])
<1>1. FrameRun(dev, frame, sampled)[i] = IF rows = {} THEN dev[i] ELSE e(c)
  BY Zenon DEF FrameRun
<1>2. rows # {} => c \in rows
  BY Zenon
<1> HIDE DEF c, e
<1>3. (\A r \in DOMAIN frame : frame[r].seat # i) => rows = {}
  OBVIOUS
<1>4. ASSUME NEW r \in DOMAIN frame, frame[r].seat = i
      PROVE  rows # {} /\ c \in DOMAIN frame /\ frame[c].seat = i
  BY <1>2, <1>4
<1> HIDE DEF rows
<1>5. \A r \in DOMAIN frame :
        /\ frame[r].seat = i
        /\ \A x \in DOMAIN frame : frame[x].seat = i => x = r
        => FrameRun(dev, frame, sampled)[i] = e(r)
  <2> TAKE r \in DOMAIN frame
  <2> HAVE /\ frame[r].seat = i
           /\ \A x \in DOMAIN frame : frame[x].seat = i => x = r
  <2>1. rows # {} /\ c = r
    BY <1>4
  <2> QED BY <1>1, <2>1
<1>6. (\E r \in DOMAIN frame : frame[r].seat = i) =>
        \E r \in DOMAIN frame : /\ frame[r].seat = i
                                /\ FrameRun(dev, frame, sampled)[i] = e(r)
  <2> HAVE \E r \in DOMAIN frame : frame[r].seat = i
  <2>1. rows # {} /\ c \in DOMAIN frame /\ frame[c].seat = i
    BY <1>4
  <2>2. FrameRun(dev, frame, sampled)[i] = e(c)
    BY <1>1, <2>1
  <2> QED BY <2>1, <2>2
<1> QED BY <1>1, <1>3, <1>5, <1>6 DEF e

\* A result leaves a drafting request drafting.
LEMMA AfterAnswers ==
  ASSUME Typed, NEW r \in Request, NEW row, NEW sampled
  PROVE  After(req[r], r, row, sampled).drafting = req[r].drafting
<1> DEFINE q == req[r]
           out == q.out \o Kept(r, sampled)
           rejected == 1 + row.drafts - Len(sampled)
           status == CASE Last(out) = Stop -> "stopped"
                       [] Last(out) # Stop /\ Len(out) = MaxTokens[r] -> "capped"
                       [] OTHER -> q.status
           c == q.computed - rejected
           p == q.placeholders - rejected - Len(Kept(r, sampled))
           next == After(q, r, row, sampled)
<1>1. next = IF q.status = "waiting" THEN [q EXCEPT !.out = out, !.status = status]
             ELSE [q EXCEPT !.out = out, !.status = status, !.computed = c,
                            !.placeholders = p]
  BY DEF After
<1>2. q \in RequestState
  BY TypedFacts
<1> HIDE DEF q, out, status, c, p, next
<1>3. next.drafting = q.drafting
  <2>1. CASE q.status = "waiting"
    <3>1. next = [q EXCEPT !.out = out, !.status = status]
      BY <1>1, <2>1
    <3> QED BY <1>2, <3>1 DEF RequestState
  <2>2. CASE q.status # "waiting"
    <3>1. next = [q EXCEPT !.out = out, !.status = status, !.computed = c,
                           !.placeholders = p]
      BY <1>1, <2>2
    <3> QED BY <1>2, <3>1 DEF RequestState
  <2> QED BY <2>1, <2>2
<1> QED BY <1>3 DEF next, q

\* The native scheduler's counters of a lease when the oldest frame retires.
LEMMA CountsStepped ==
  ASSUME Inv, CountsInv, NEW k \in LeaseKey, st.pool.seat[k.seat].owner = k.rid,
         st.pool.seat[k.seat].epoch = k.epoch,
         NEW frame, FrameOK(frame), NEW sampled, NEW after,
         after = IF k.rid \in DOMAIN frame /\ Takes(k.rid, frame[k.rid])
                 THEN After(req[k.rid], k.rid, frame[k.rid], sampled[k.rid]) ELSE req[k.rid]
  PROVE  CountsStep(k, frame, req[k.rid], after)
<1>1. k.rid \in Request /\ k.seat \in Seats /\ k.rid # Nobody
  BY SeatAssumption DEF LeaseKey
<1>2. Typed
  BY DEF Inv
<1>3. ASSUME On(k, frame)
      PROVE  Answered(req[k.rid], after, frame[k.rid])
  <2>1. CASE Takes(k.rid, frame[k.rid])
    <3>1. after = After(req[k.rid], k.rid, frame[k.rid], sampled[k.rid])
      BY <1>3, <2>1 DEF On
    <3>2. frame[k.rid].sampling
      BY <2>1 DEF Takes
    <3> QED BY <1>1, <1>2, <3>1, <3>2, AfterAnswers DEF Answered
  <2>2. CASE ~Takes(k.rid, frame[k.rid])
    BY <2>2 DEF Answered
  <2> QED BY <2>1, <2>2
<1>4. ASSUME ~On(k, frame)
      PROVE  after = req[k.rid]
  <2>1. ASSUME k.rid \in DOMAIN frame, Takes(k.rid, frame[k.rid])
        PROVE  FALSE
    <3>1. k.rid \in Range(running)
      <4>1. k.rid \in Holders(st.pool)
        BY <1>1 DEF Holders
      <4> QED BY <4>1 DEF Inv, Seated
    <3>2. PICK i \in Seats : /\ st.pool.seat[i].owner = k.rid
                             /\ req[k.rid].lease = <<i, st.pool.seat[i].epoch>>
      BY <3>1 DEF CountsInv, Accounted, LeaseHeld
    <3>3. i = k.seat
      BY <1>1, <3>2 DEF Inv, Seated
    <3>4. req[k.rid].lease = <<frame[k.rid].seat, frame[k.rid].epoch>>
      BY <2>1 DEF Takes
    <3>5. frame[k.rid].seat = k.seat /\ frame[k.rid].epoch = k.epoch
      BY <3>2, <3>3, <3>4
    <3> QED BY <1>4, <2>1, <3>5 DEF On
  <2> QED BY <2>1
<1> QED BY <1>3, <1>4 DEF CountsStep

\* The device's state of a lease's seat after the oldest frame.
LEMMA LeaseRun ==
  ASSUME NEW s \in State, NEW k, k.seat \in Seats, s.pool.seat[k.seat].epoch = k.epoch,
         NEW queue, RowsKept(s, queue), Sole(k, queue), 1 \in DOMAIN queue,
         NEW frame, frame = queue[1], NEW dev, NEW sampled
  PROVE  FrameRun(dev, frame, sampled)[k.seat] =
           IF On(k, frame)
           THEN Executed(Prepared(dev[k.seat], frame[k.rid]), frame[k.rid],
                         VerifyRole(frame, k.rid), sampled[k.rid])
           ELSE dev[k.seat]
<1>1. \A r \in DOMAIN frame : frame[r].seat = k.seat => r = k.rid /\ frame[r].epoch = k.epoch
  BY DEF Sole, RowsKept
<1>2. CASE On(k, frame)
  <2>1. k.rid \in DOMAIN frame /\ frame[k.rid].seat = k.seat
    BY <1>2 DEF On
  <2>2. FrameRun(dev, frame, sampled)[k.seat]
          = Executed(Prepared(dev[k.seat], frame[k.rid]), frame[k.rid],
                     VerifyRole(frame, k.rid), sampled[k.rid])
    BY <1>1, <2>1, FrameRunAt
  <2> QED BY <1>2, <2>2
<1>3. CASE ~On(k, frame)
  <2>1. \A r \in DOMAIN frame : frame[r].seat # k.seat
    BY <1>1, <1>3 DEF On
  <2>2. FrameRun(dev, frame, sampled)[k.seat] = dev[k.seat]
    BY <2>1, FrameRunAt
  <2> QED BY <1>3, <2>2
<1> QED BY <1>2, <1>3

\* The oldest frame is executed and observed.
LEMMA ObservedAgrees ==
  ASSUME Inv, CountsInv, frames # <<>>, DOMAIN attempt.rows = {},
         DeviceAgrees(st, device, frames, attempt.rows, req),
         NEW frame, frame = Head(frames), Verified(frame),
         NEW sampled, \A r \in DOMAIN frame : sampled[r] \in Samples(frame[r]),
         NEW after, \A r \in Request :
           after[r] = IF r \in DOMAIN frame /\ Takes(r, frame[r])
                      THEN After(req[r], r, frame[r], sampled[r]) ELSE req[r],
         NEW none, DOMAIN none = {}
  PROVE  DeviceAgrees(Elapsed(Advanced(st, frame, sampled)), FrameRun(device, frame, sampled),
                      Tail(frames), none, after)
<1> DEFINE s1 == Advanced(st, frame, sampled)
           s2 == Elapsed(s1)
           dev == FrameRun(device, frame, sampled)
           rest == Tail(frames)
           T == Range(frames)
<1>1. /\ Typed /\ st \in State /\ Seated(st, Range(running)) /\ PendingKept(st)
      /\ RowsKept(st, frames) /\ frames \in Seq(T) /\ Rowed(frames)
  BY TypedFacts DEF Inv
<1>2. /\ 1 \in DOMAIN frames /\ frame = frames[1]
      /\ Len(frames) \in Nat /\ DOMAIN frames = 1 .. Len(frames)
      /\ Len(rest) = Len(frames) - 1
      /\ \A i \in 1 .. Len(rest) : rest[i] = frames[i + 1]
      /\ DOMAIN rest = 1 .. Len(rest)
  <2>1. Len(frames) \in Nat /\ Len(frames) # 0 /\ DOMAIN frames = 1 .. Len(frames)
    BY <1>1, LenProperties, EmptySeq
  <2>2. /\ rest \in Seq(T) /\ Len(rest) = Len(frames) - 1
        /\ \A i \in 1 .. Len(rest) : rest[i] = frames[i + 1]
        /\ frame = frames[1]
    BY <1>1, <2>1, HeadTailProperties
  <2>3. DOMAIN rest = 1 .. Len(rest)
    BY <2>2, LenProperties
  <2> HIDE DEF rest
  <2> QED BY <2>1, <2>2, <2>3
<1>3. FrameOK(frame)
  BY <1>1, <1>2 DEF Rowed
<1>4. \A r \in DOMAIN frame : sampled[r] \in Seq(Token)
  BY <1>3, SamplesType DEF FrameOK
<1>5. /\ s1 \in State /\ s1.pool = st.pool /\ s1.pending = st.pending
  BY <1>1, <1>3, <1>4, AdvancedFields
<1>6. /\ DOMAIN s1.frontiers = DOMAIN st.frontiers
      /\ \A k \in DOMAIN st.frontiers :
           s1.frontiers[k] =
             IF On(k, frame)
             THEN Advance(st.frontiers[k], frame[k.rid].query, frame[k.rid].drafts,
                          sampled[k.rid])
             ELSE st.frontiers[k]
  BY <1>1, AdvancedFrontiers
<1> HIDE DEF s1
<1>7. /\ s2.frontiers = s1.frontiers
      /\ \A i \in Seats : s2.pool.seat[i].tokens = s1.pool.seat[i].tokens
  BY <1>5, ElapsedFrontiers
<1>8. /\ s2 \in State
      /\ \A i \in Seats :
           /\ s2.pool.seat[i].owner = s1.pool.seat[i].owner
           /\ s2.pool.seat[i].epoch = s1.pool.seat[i].epoch
           /\ s2.pool.seat[i].fence =
                IF s1.pool.seat[i].fence >= 1 THEN s1.pool.seat[i].fence - 1 ELSE 0
           /\ s2.pool.seat[i].blocks = s1.pool.seat[i].blocks
      /\ DOMAIN s2.pending = DOMAIN s1.pending
  BY <1>5, ElapsedFields
<1> HIDE DEF s2, dev, rest, T
<1>9. ASSUME NEW k \in DOMAIN s2.frontiers
      PROVE  LeaseTracked(s2, k, dev, rest, none, after)
  <2> DEFINE f == st.frontiers[k]
             g == s2.frontiers[k]
             d == device[k.seat]
             e == dev[k.seat]
             live == st.pool.seat[k.seat].owner = k.rid
             q == req[k.rid]
             b == after[k.rid]
  <2>1. k \in DOMAIN st.frontiers
    BY <1>6, <1>7
  <2>2. k \in LeaseKey /\ k.seat \in Seats /\ k.rid \in Request /\ f \in FrontierState
    BY <1>1, <2>1, FrontierKeys
  <2>3. /\ Leased(st, k) /\ Sole(k, frames)
        /\ f.known => Tracked(f, k, Lane(k, frames, attempt.rows), Len(frames) + 1, q, d, live)
    BY <2>1, Zenon DEF DeviceAgrees, LeasesTracked, LeaseTracked
  <2>4. /\ st.pool.seat[k.seat].epoch = k.epoch
        /\ st.pool.seat[k.seat].owner \in {k.rid, Nobody}
    BY <1>1, <2>3, LeasedEpoch
  <2>5. e = IF On(k, frame)
            THEN Executed(Prepared(d, frame[k.rid]), frame[k.rid],
                          VerifyRole(frame, k.rid), sampled[k.rid])
            ELSE d
    BY <1>1, <1>2, <2>2, <2>3, <2>4, LeaseRun DEF dev
  <2>6. g = IF On(k, frame)
            THEN Advance(f, frame[k.rid].query, frame[k.rid].drafts, sampled[k.rid])
            ELSE f
    BY <1>6, <1>7, <2>1
  <2>7. live => CountsStep(k, frame, q, b)
    BY <1>3, <2>2, <2>4, CountsStepped
  <2>8. Shaped(d)
    BY <2>2 DEF DeviceAgrees, EpochsBelow
  <2>9. On(k, frame) => sampled[k.rid] \in Samples(frame[k.rid])
    BY DEF On
  <2>10. s2.pool.seat[k.seat].owner = st.pool.seat[k.seat].owner
    BY <1>5, <1>8, <2>2
  <2>11. Leased(s2, k)
    BY <1>5, <1>8, <2>2, <2>3 DEF Leased
  <2>12. Sole(k, rest)
    <3>1. \A i \in DOMAIN rest : i + 1 \in DOMAIN frames /\ rest[i] = frames[i + 1]
      BY <1>2
    <3> QED BY <2>3, <3>1 DEF Sole
  <2> HIDE DEF f, g, d, e, live, q, b
  <2>13. LeaseStep(k, f, g, d, e, frame, sampled)
    BY <2>5, <2>6 DEF LeaseStep
  <2>14. ASSUME g.known
         PROVE  Tracked(g, k, Lane(k, Tail(frames), none), Len(Tail(frames)) + 1, b, e, live)
    <3>1. frames \in Seq(Range(frames))
      BY <1>1 DEF T
    <3> QED BY <1>1, <2>2, <2>3, <2>7, <2>8, <2>9, <2>13, <2>14, <3>1, RetiredLease
  <2>15. ASSUME s2.frontiers[k].known
         PROVE  Tracked(s2.frontiers[k], k, Lane(k, rest, none), Len(rest) + 1, after[k.rid],
                        dev[k.seat], s2.pool.seat[k.seat].owner = k.rid)
    <3>1. Tracked(g, k, Lane(k, Tail(frames), none), Len(Tail(frames)) + 1, b, e, live)
      BY <2>14, <2>15 DEF g
    <3>2. Tracked(s2.frontiers[k], k, Lane(k, rest, none), Len(rest) + 1, after[k.rid],
                  dev[k.seat], st.pool.seat[k.seat].owner = k.rid)
      BY <3>1, Zenon DEF g, b, e, live, rest
    <3> QED BY <2>10, <3>2, Zenon
  <2> QED BY <2>11, <2>12, <2>15 DEF LeaseTracked
<1>10. LeasesTracked(s2, dev, rest, none, after)
  BY <1>9 DEF LeasesTracked
<1>11. ASSUME NEW i \in Seats, s2.pool.seat[i].blocks # <<>>
       PROVE  /\ s2.pool.seat[i].fence = 0
              /\ dev[i].epoch = s2.pool.seat[i].epoch
              /\ dev[i].tokens = s2.pool.seat[i].tokens
  <2>1. /\ st.pool.seat[i].blocks # <<>>
        /\ st.pool.seat[i].fence = 0
        /\ device[i].epoch = st.pool.seat[i].epoch
        /\ device[i].tokens = st.pool.seat[i].tokens
    BY <1>5, <1>8, <1>11 DEF DeviceAgrees, HotExact
  <2>2. st.pool.seat[i].owner = Nobody
    BY <1>1, <2>1 DEF Seated
  <2>3. \A r \in DOMAIN frame : frame[r].seat # i
    <3>1. ASSUME NEW r \in DOMAIN frame, frame[r].seat = i
          PROVE  FALSE
      <4>1. st.pool.seat[i].fence >= 1
        BY <1>1, <1>2, <2>2, <3>1 DEF RowsKept
      <4> QED BY <2>1, <4>1
    <3> QED BY <3>1
  <2>4. dev[i] = device[i]
    BY <2>3, FrameRunAt DEF dev
  <2> QED BY <1>5, <1>7, <1>8, <2>1, <2>4
<1>12. HotExact(s2, dev)
  BY <1>11 DEF HotExact
<1>13. ASSUME NEW i \in Seats
       PROVE  Shaped(dev[i]) /\ dev[i].epoch \in Nat /\ dev[i].epoch <= s2.pool.seat[i].epoch
  <2>1. /\ Shaped(device[i]) /\ device[i].epoch \in Nat
        /\ device[i].epoch <= st.pool.seat[i].epoch
    BY DEF DeviceAgrees, EpochsBelow
  <2>2. s2.pool.seat[i].epoch = st.pool.seat[i].epoch
    BY <1>5, <1>8
  <2>3. CASE \A r \in DOMAIN frame : frame[r].seat # i
    <3>1. dev[i] = device[i]
      BY <2>3, FrameRunAt DEF dev
    <3> QED BY <2>1, <2>2, <3>1
  <2>4. CASE \E r \in DOMAIN frame : frame[r].seat = i
    <3>1. PICK r \in DOMAIN frame :
            /\ frame[r].seat = i
            /\ dev[i] = Executed(Prepared(device[i], frame[r]), frame[r],
                                 VerifyRole(frame, r), sampled[r])
      BY <2>4, FrameRunAt DEF dev
    <3>2. Shaped(dev[i]) /\ dev[i].epoch = frame[r].epoch
      BY <2>1, <3>1, RowShape
    <3>3. frame[r].epoch = st.pool.seat[i].epoch
      BY <1>1, <1>2, <1>3, <3>1 DEF RowsKept
    <3>4. frame[r].epoch \in Nat
      BY <1>1, <1>2, <1>3, <3>1 DEF FrameOK
    <3> QED BY <2>2, <3>2, <3>3, <3>4
  <2> QED BY <2>3, <2>4
<1>14. EpochsBelow(s2, dev)
  BY <1>13 DEF EpochsBelow
<1>15. DeviceAgrees(s2, dev, rest, none, after)
  BY <1>10, <1>12, <1>14 DEF DeviceAgrees
<1> QED BY <1>15 DEF s2, s1, dev, rest

\* Requests end after their result.
LEMMA EndedAgrees ==
  ASSUME NEW s \in State, NEW H, Seated(s, H), PendingKept(s), Listed(s, H), Counted(s),
         NEW T, NEW queue \in Seq(T), Rowed(queue), RowsKept(s, queue),
         NEW none, DOMAIN none = {},
         NEW dev, NEW q, DeviceAgrees(s, dev, queue, none, q),
         NEW ended \in Seq(Request)
  PROVE  DeviceAgrees(Ended(s, ended, queue), dev, queue, none, q)
<1> DEFINE one(x, i) == EndedOne(x, ended, i, queue)
           A == {x \in State : /\ PendingKept(x) /\ Seated(x, Holders(x.pool))
                               /\ Counted(x) /\ Listed(x, Holders(x.pool))
                               /\ RowsKept(x, queue)
                               /\ DeviceAgrees(x, dev, queue, none, q)}
           n == Len(ended)
<1>1. n \in Nat /\ \A i \in 1 .. n : ended[i] \in Request
  BY LenProperties, ElementOfSeq
<1>2. s \in A
  BY DEF Seated
<1>3. ASSUME NEW x \in A, NEW i \in 1 .. n
      PROVE  one(x, i) \in A
  <2> DEFINE fence == LastFrame(queue, ended[i])
             next == one(x, i)
             G == Holders(x.pool)
  <2>1. /\ fence \in Nat /\ next = FreeRequestBlocks(x, ended[i], TRUE, fence)
        /\ Covers(queue, ended[i], fence)
    BY LastFrameCovers DEF EndedOne
  <2>2. /\ x \in State /\ PendingKept(x) /\ Seated(x, G)
        /\ Counted(x) /\ Listed(x, G) /\ RowsKept(x, queue)
        /\ DeviceAgrees(x, dev, queue, none, q) /\ ended[i] \in Request
    BY <1>1
  <2>3. RowsHeld(x, none) /\ FrameOK(none) /\ ended[i] \notin DOMAIN none
    BY DEF RowsHeld, FrameOK
  <2> HIDE DEF fence, next, G
  <2>4. /\ next \in State /\ PendingKept(next) /\ Seated(next, G \ {ended[i]})
        /\ RowsKept(next, queue)
    BY <2>1, <2>2, FreeRequestBlocksKeeps, Zenon
  <2>5. Counted(next) /\ Listed(next, G \ {ended[i]})
    BY <2>1, <2>2, FreeRequestBlocksPages, Zenon
  <2>6. Holders(next.pool) = G \ {ended[i]}
    BY <2>4 DEF Seated
  <2>7. DeviceAgrees(next, dev, queue, none, q)
    BY <2>1, <2>2, <2>3, FreeRequestBlocksAgrees
  <2>8. next \in A
    BY <2>4, <2>5, <2>6, <2>7, Zenon
  <2> HIDE DEF A
  <2> QED BY <2>8 DEF next
<1>4. PICK after : EndedBy(after, A, s, ended, queue)
  <2> HIDE DEF A
  <2>1. EndedIn(A, ended, queue)
    BY <1>3 DEF EndedIn
  <2>2. Len(ended) \in Nat /\ s \in A
    BY <1>1, <1>2
  <2> QED BY <2>1, <2>2, EndedRuns
<1>5. Ended(s, ended, queue) \in A
  <2>1. n \in 0 .. n
    BY <1>1
  <2> HIDE DEF A
  <2> QED BY <1>4, <2>1 DEF EndedBy
<1> QED BY <1>5

\* The oldest frame retires, requests end and checkpoints are published.
LEMMA RetiredAgrees ==
  ASSUME Inv, PagesInv, CountsInv, frames # <<>>, DOMAIN attempt.rows = {},
         DeviceAgrees(st, device, frames, attempt.rows, req),
         NEW frame, frame = Head(frames), Verified(frame),
         NEW sampled, \A r \in DOMAIN frame : sampled[r] \in Samples(frame[r]),
         NEW after, \A r \in Request :
           after[r] = IF r \in DOMAIN frame /\ Takes(r, frame[r])
                      THEN After(req[r], r, frame[r], sampled[r]) ELSE req[r],
         NEW none, DOMAIN none = {}, NEW ended \in Seq(Request)
  PROVE  DeviceAgrees(Publish(Ended(Elapsed(Advanced(st, frame, sampled)), ended, Tail(frames))),
                      FrameRun(device, frame, sampled), Tail(frames), none, after)
<1> DEFINE rest  == Tail(frames)
           s1    == Advanced(st, frame, sampled)
           s2    == Elapsed(s1)
           s3    == Ended(s2, ended, rest)
           H     == Range(running)
           dev   == FrameRun(device, frame, sampled)
           T     == Range(frames)
<1>0. DeviceAgrees(s2, dev, rest, none, after)
  BY ObservedAgrees
<1>1. /\ st \in State /\ frames \in Seq(T) /\ Rowed(frames)
      /\ Seated(st, H) /\ PendingKept(st) /\ RowsKept(st, frames)
      /\ Listed(st, H) /\ Counted(st)
  BY TypedFacts DEF Inv, PagesInv
<1>2. rest \in Seq(T) /\ frame = frames[1] /\ 1 \in DOMAIN frames
  <2>1. Len(frames) \in Nat /\ Len(frames) # 0 /\ DOMAIN frames = 1 .. Len(frames)
    BY <1>1, LenProperties, EmptySeq
  <2> QED BY <1>1, <2>1, HeadTailProperties
<1>3. FrameOK(frame)
  BY <1>1, <1>2 DEF Rowed
<1>4. \A r \in DOMAIN frame : sampled[r] \in Seq(Token)
  BY <1>3, SamplesType DEF FrameOK
<1> HIDE DEF rest, H, dev, T
<1>5. s1 \in State /\ s1.pool = st.pool /\ s1.pending = st.pending
  BY <1>1, <1>3, <1>4, AdvancedFields
<1>6. Counted(s1) /\ Listed(s1, H)
  BY <1>1, AdvancedPages
<1> HIDE DEF s1
<1>7. Seated(s1, H) /\ PendingKept(s1) /\ RowsKept(s1, frames)
  BY <1>1, <1>5, SamePool
<1>8. /\ s2 \in State /\ Seated(s2, H) /\ PendingKept(s2)
      /\ Rowed(rest) /\ RowsKept(s2, rest)
  BY <1>1, <1>5, <1>7, ElapsedKeeps DEF rest
<1>9. Counted(s2) /\ Listed(s2, H)
  BY <1>5, <1>6, ElapsedPagesKept
<1> HIDE DEF s2
<1>10. /\ s3 \in State /\ PendingKept(s3) /\ RowsKept(s3, rest)
       /\ Seated(s3, H \ Range(ended))
  BY <1>2, <1>8, EndedKeeps
<1>11. Counted(s3) /\ Listed(s3, Holders(s3.pool))
  BY <1>2, <1>8, <1>9, EndedPages
<1>12. DeviceAgrees(s3, dev, rest, none, after)
  BY <1>0, <1>2, <1>8, <1>9, EndedAgrees
<1> HIDE DEF s3
<1>13. RowsHeld(s3, none) /\ FrameOK(none)
  BY DEF RowsHeld, FrameOK
<1>14. DeviceAgrees(Publish(s3), dev, rest, none, after)
  BY <1>2, <1>8, <1>10, <1>11, <1>12, <1>13, PublishTracked, Zenon DEF DeviceAgrees
<1> QED BY <1>14 DEF s3, s2, s1, rest, dev

-----------------------------------------------------------------------------
\* One lemma per action: the device agrees.

\* In every queued frame, the rows that follow a sample run as verify rows.  A decode
\* that was cut to its one sampled token may not: in a frame that is no decode frame it
\* is a prefill row, which the length limit does not keep from the seat.  It takes a
\* wave in which the decodes use up the budget and a resumed request computes its
\* prompt, or more than 1 + Drafts tokens, again.
SamplesVerified == \A i \in DOMAIN frames : Verified(frames[i])

\* The state between two actions: the frames of the queue, then the rows of the attempt.
AgreesInv == DeviceAgrees(st, device, frames, attempt.rows, req)

LEMMA InitAgrees ==
  ASSUME Init
  PROVE  AgreesInv
<1>1. /\ st.pool = NewPool /\ st.frontiers = <<>>
      /\ device = [i \in Seats |-> [epoch |-> 0, tokens |-> <<>>, remaining |-> 1]]
  BY DEF Init
<1>2. \A i \in Seats : st.pool.seat[i] = EmptySeat
  BY <1>1, NewPoolType
<1>3. DOMAIN <<>> = {}
  BY EmptyPartial
<1>4. LeasesTracked(st, device, frames, attempt.rows, req)
  BY <1>1, <1>3 DEF LeasesTracked
<1>5. HotExact(st, device)
  BY <1>2 DEF HotExact, EmptySeat
<1>6. EpochsBelow(st, device)
  BY <1>1, <1>2 DEF EpochsBelow, EmptySeat, Shaped
<1> QED BY <1>4, <1>5, <1>6 DEF AgreesInv, DeviceAgrees

\* Two attempts without rows have the same lanes.
LEMMA NoRowAgrees ==
  ASSUME NEW s, NEW dev, NEW T, NEW queue \in Seq(T), NEW rows, DOMAIN rows = {},
         NEW none, DOMAIN none = {}, NEW q, DeviceAgrees(s, dev, queue, rows, q)
  PROVE  DeviceAgrees(s, dev, queue, none, q)
<1>1. ASSUME NEW k
      PROVE  Lane(k, queue, rows) = Lane(k, queue, none)
  <2> DEFINE L == Lane(k, queue, rows)
             M == Lane(k, queue, none)
             n == Len(queue)
  <2>1. LaneBy(L, k, queue, rows) /\ LaneBy(M, k, queue, none)
    BY LaneIs, Zenon
  <2>2. ~On(k, rows) /\ ~On(k, none)
    BY DEF On
  <2>3. n \in Nat
    BY LenProperties
  <2> HIDE DEF L, M
  <2>4. /\ IsMap(L) /\ IsMap(M)
        /\ DOMAIN L \subseteq 1 .. n + 1 /\ DOMAIN M \subseteq 1 .. n + 1
        /\ n + 1 \notin DOMAIN L /\ n + 1 \notin DOMAIN M
        /\ \A i \in 1 .. n : /\ i \in DOMAIN L <=> i \in DOMAIN M
                             /\ i \in DOMAIN L => L[i] = M[i]
    BY <2>1, <2>2, Zenon DEF LaneBy, n
  <2> HIDE DEF n
  <2>5. \A i \in DOMAIN L \cup DOMAIN M : i \in 1 .. n
    <3> SUFFICES ASSUME NEW i \in DOMAIN L \cup DOMAIN M
                 PROVE  i \in 1 .. n
      OBVIOUS
    <3>1. i \in 1 .. n + 1 /\ i # n + 1
      BY <2>4
    <3> QED BY <2>3, <3>1
  <2>6. DOMAIN L = DOMAIN M /\ \A i \in DOMAIN L : L[i] = M[i]
    BY <2>4, <2>5, Zenon
  <2> QED BY <2>4, <2>6, SameMap DEF L, M
<1>2. ASSUME NEW k \in DOMAIN s.frontiers
      PROVE  LeaseTracked(s, k, dev, queue, none, q)
  <2>1. LeaseTracked(s, k, dev, queue, rows, q)
    BY Zenon DEF DeviceAgrees, LeasesTracked
  <2> QED BY <1>1, <2>1, Zenon DEF LeaseTracked
<1> QED BY <1>2, Zenon DEF DeviceAgrees, LeasesTracked

\* A lease's seat is owned, or waits for a frame.
LEMMA LeaseElsewhere ==
  ASSUME NEW s, PendingKept(s), NoneDue(s), NEW k, Leased(s, k), k.rid # Nobody,
         NEW i, s.pool.seat[i].owner = Nobody, s.pool.seat[i].fence = 0
  PROVE  k.seat # i
<1>1. SUFFICES ASSUME k.seat = i
               PROVE  FALSE
  OBVIOUS
<1>2. k \in DOMAIN s.pending
  BY <1>1 DEF Leased
<1>3. s.pending[k].fence = 0
  BY <1>1, <1>2, Zenon DEF PendingKept
<1> QED BY <1>2, <1>3 DEF NoneDue

\* A seat that nobody owns or waits for loses its checkpoint.
LEMMA SeatVacated ==
  ASSUME NEW s \in State, PendingKept(s), NoneDue(s), NEW next \in State,
         next.pending = s.pending, next.frontiers = s.frontiers,
         NEW i \in Seats, s.pool.seat[i].owner = Nobody, s.pool.seat[i].fence = 0,
         \A j \in Seats \ {i} : next.pool.seat[j] = s.pool.seat[j],
         next.pool.seat[i].blocks = <<>>,
         next.pool.seat[i].epoch >= s.pool.seat[i].epoch,
         NEW dev, NEW queue, NEW rows, NEW q, DeviceAgrees(s, dev, queue, rows, q)
  PROVE  DeviceAgrees(next, dev, queue, rows, q)
<1>1. ASSUME NEW k \in DOMAIN next.frontiers
      PROVE  LeaseNarrows(s, next, k, q, q)
  <2>1. k.seat \in Seats /\ k.rid \in Request /\ k.rid # Nobody
    BY <1>1, FrontierKeys, SeatAssumption
  <2>2. Leased(s, k)
    BY Zenon DEF DeviceAgrees, LeasesTracked, LeaseTracked
  <2>3. k.seat # i
    BY <2>1, <2>2, LeaseElsewhere
  <2>4. next.pool.seat[k.seat] = s.pool.seat[k.seat]
    BY <2>1, <2>3
  <2> QED BY <2>2, <2>4 DEF LeaseNarrows, Leased
<1>2. LeasesTracked(next, dev, queue, rows, q)
  BY <1>1, LeasesNarrowed, Zenon DEF DeviceAgrees
<1>3. SeatsNarrow(s, next)
  <2> SUFFICES ASSUME NEW j \in Seats
               PROVE  /\ next.pool.seat[j].epoch >= s.pool.seat[j].epoch
                      /\ next.pool.seat[j].blocks # <<>> =>
                           /\ s.pool.seat[j].blocks # <<>>
                           /\ next.pool.seat[j].epoch = s.pool.seat[j].epoch
                           /\ next.pool.seat[j].tokens = s.pool.seat[j].tokens
                           /\ s.pool.seat[j].fence = 0 => next.pool.seat[j].fence = 0
    BY DEF SeatsNarrow
  <2>1. s.pool.seat[j].epoch \in Nat
    BY StateFacts, PoolFacts
  <2> QED BY <2>1
<1> QED BY <1>2, <1>3, SeatsNarrowed, Zenon DEF DeviceAgrees

\* A seat's new incarnation has a later epoch.
LEMMA EvictedEpoch ==
  ASSUME NEW pool \in Pool, NEW i \in Seats
  PROVE  /\ Evicted(pool, i).seat[i].epoch >= pool.seat[i].epoch
         /\ pool.seat[i].epoch \in Nat
<1> DEFINE seat == Renewed(Forgotten(pool.seat[i]))
<1>0. pool.seat[i] \in SeatState /\ pool.seat[i].epoch \in Nat
  BY PoolFacts, Zenon
<1>1. seat \in SeatState /\ seat.epoch = pool.seat[i].epoch + 1
  <2>1. /\ Forgotten(pool.seat[i]) \in SeatState
        /\ Forgotten(pool.seat[i]).epoch = pool.seat[i].epoch
    BY <1>0, ForgottenType, Zenon
  <2>2. seat \in SeatState /\ seat.epoch = Forgotten(pool.seat[i]).epoch + 1
    BY <2>1, RenewedType, Zenon
  <2> QED BY <2>1, <2>2
<1>2. Evicted(pool, i) = [pool EXCEPT !.seat[i] = seat]
  BY DEF Evicted
<1> HIDE DEF seat
<1>3. Evicted(pool, i).seat[i] = seat
  BY <1>1, <1>2, PoolNext
<1> QED BY <1>0, <1>1, <1>3

LEMMA DiscardEpoch ==
  ASSUME NEW pool \in Pool, NEW offer \in OfferState
  PROVE  Discard(pool, offer).seat[offer.seat].epoch >= pool.seat[offer.seat].epoch
<1>1. offer.seat \in Seats
  BY DEF OfferState
<1>2. CASE pool.seat[offer.seat].blocks = <<>>
  <2>1. Discard(pool, offer) = pool /\ pool.seat[offer.seat].epoch \in Nat
    BY <1>1, <1>2, PoolFacts DEF Discard
  <2> QED BY <2>1
<1>3. CASE pool.seat[offer.seat].blocks # <<>>
  <2>1. Discard(pool, offer) = Evicted(pool, offer.seat)
    BY <1>3, Zenon DEF Discard, Evicted
  <2> QED BY <1>1, <2>1, EvictedEpoch
<1> QED BY <1>2, <1>3

LEMMA EvictHotAgrees ==
  ASSUME Inv, AgreesInv, NEW exclude, EvictHot(exclude),
         UNCHANGED <<req, frames, device, attempt>>
  PROVE  AgreesInv'
<1> DEFINE i == Head(Evictable(st.pool, exclude))
           pool == Evicted(st.pool, i)
           ref == Unpinned(st.ref, st.pool.seat[i].blocks)
<1>1. /\ Evictable(st.pool, exclude) # <<>>
      /\ st' = [st EXCEPT !.pool = pool, !.ref = ref]
  BY DEF EvictHot
<1>2. /\ st \in State /\ st.pool \in Pool /\ PendingKept(st) /\ NoneDue(st)
  BY TypedFacts, StateFacts DEF Inv
<1>3. i \in Seats /\ st.pool.seat[i].owner = Nobody /\ st.pool.seat[i].fence = 0
  BY <1>1, <1>2, VictimOf
<1> HIDE DEF i
<1>4. /\ \A j \in Seats \ {i} : pool.seat[j] = st.pool.seat[j]
      /\ pool.seat[i].blocks = <<>> /\ pool.seat[i].epoch >= st.pool.seat[i].epoch
  BY <1>2, <1>3, EvictedFields, EvictedEpoch
<1> HIDE DEF pool, ref
<1>5. /\ st' \in State
  BY EvictHotFields
<1> DEFINE next == st'
<1>6. next.pool = pool /\ next.pending = st.pending /\ next.frontiers = st.frontiers
      /\ next \in State
  BY <1>1, <1>2, <1>5 DEF State
<1> HIDE DEF next
<1>7. DeviceAgrees(st, device, frames, attempt.rows, req)
  BY DEF AgreesInv
<1>8. DeviceAgrees(next, device, frames, attempt.rows, req)
  BY <1>2, <1>3, <1>4, <1>6, <1>7, SeatVacated
<1> QED BY <1>8 DEF AgreesInv, next

\* The counters of the requests that own no seat do not matter.
LEMMA CountersAgree ==
  ASSUME NEW s \in State, NEW dev, NEW queue, NEW rows, NEW q,
         DeviceAgrees(s, dev, queue, rows, q),
         NEW after, \A r \in Holders(s.pool) : after[r] = q[r]
  PROVE  DeviceAgrees(s, dev, queue, rows, after)
<1>1. ASSUME NEW k \in DOMAIN s.frontiers
      PROVE  LeaseNarrows(s, s, k, q, after)
  <2>1. k.seat \in Seats /\ k.rid \in Request /\ k.rid # Nobody
    BY <1>1, FrontierKeys, SeatAssumption
  <2>2. Leased(s, k)
    BY Zenon DEF DeviceAgrees, LeasesTracked, LeaseTracked
  <2>3. s.pool.seat[k.seat].owner = k.rid => after[k.rid] = q[k.rid]
    BY <2>1 DEF Holders
  <2> QED BY <2>2, <2>3 DEF LeaseNarrows
<1>2. LeasesTracked(s, dev, queue, rows, after)
  BY <1>1, LeasesNarrowed, Zenon DEF DeviceAgrees
<1> QED BY <1>2, Zenon DEF DeviceAgrees

LEMMA ArriveAgrees ==
  ASSUME Inv, AgreesInv, NEW r \in Request, Arrive(r)
  PROVE  AgreesInv'
<1>1. /\ req[r].status = "absent"
      /\ req' = [req EXCEPT ![r].status = "waiting"]
      /\ UNCHANGED <<st, frames, device, attempt>>
  BY DEF Arrive
<1>2. /\ st \in State /\ req \in [Request -> RequestState] /\ Placed
      /\ Holders(st.pool) = Range(running) /\ running \in Seq(Request)
  BY TypedFacts DEF Inv, Seated
<1>3. \A x \in Holders(st.pool) : req'[x] = req[x]
  <2>1. Holders(st.pool) \subseteq Request
    BY <1>2, RangeOfSeq
  <2>2. r \notin Holders(st.pool)
    BY <1>1, <1>2 DEF Placed
  <2> QED BY <1>1, <1>2, <2>1, <2>2
<1> DEFINE q == req'
<1>4. \A x \in Holders(st.pool) : q[x] = req[x]
  BY <1>3
<1> HIDE DEF q
<1>5. DeviceAgrees(st, device, frames, attempt.rows, q)
  BY <1>2, <1>4, CountersAgree, Zenon DEF AgreesInv
<1> QED BY <1>1, <1>5 DEF AgreesInv, q

LEMMA BeginScheduleAgrees ==
  ASSUME Inv, AgreesInv, BeginSchedule
  PROVE  AgreesInv'
<1>1. /\ attempt.phase = "idle" /\ attempt'.rows = <<>>
      /\ UNCHANGED <<st, req, frames, device>>
  BY DEF BeginSchedule, Idle
<1> DEFINE none == attempt'.rows
<1>2. /\ DOMAIN attempt.rows = {} /\ DOMAIN none = {} /\ frames \in Seq(Range(frames))
  BY <1>1, EmptyPartial, TypedFacts DEF Inv, AttemptKept
<1> HIDE DEF none
<1>3. DeviceAgrees(st, device, frames, none, req)
  BY <1>2, NoRowAgrees, Zenon DEF AgreesInv
<1> QED BY <1>1, <1>3 DEF AgreesInv, none

LEMMA ConsiderWaitingAgrees ==
  ASSUME Inv, AgreesInv, ConsiderWaiting
  PROVE  AgreesInv'
<1>1. Typed /\ Candidate \in Request
  BY CandidateIs DEF Inv, ConsiderWaiting, Admitting
<1> SUFFICES ASSUME NEW r \in Request, r = Candidate
             PROVE  AgreesInv'
  BY <1>1
<1> DEFINE offer == OfferFor(r)
           i == offer.seat
           pool == IF offer.warm THEN st.pool ELSE Discard(st.pool, offer)
           ref == IF offer.warm THEN st.ref ELSE Unpinned(st.ref, st.pool.seat[i].blocks)
           offers == [st.offers EXCEPT ![r] = [offer EXCEPT !.epoch = pool.seat[i].epoch]]
<1>2. /\ offer # NoOffer
      /\ st' = [st EXCEPT !.pool = pool, !.ref = ref, !.offers = offers]
      /\ attempt' = [attempt EXCEPT !.phase = "allocate"]
      /\ UNCHANGED <<req, frames, device>>
  BY DEF ConsiderWaiting, Admitting
<1>3. /\ st \in State /\ st.pool \in Pool /\ PendingKept(st) /\ NoneDue(st)
      /\ AllTokens(r) \in Seq(Token)
  BY <1>1, TypedFacts, StateFacts, TokensType DEF Inv
<1>4. OfferGood(st.pool, offer, AllTokens(r))
  BY <1>2, <1>3, OfferedGood DEF OfferFor
<1> HIDE DEF offer
<1>5. /\ offer \in OfferState /\ i \in Seats /\ st.pool.seat[i].owner = Nobody
      /\ st.pool.seat[i].fence = 0 /\ offer.warm \in BOOLEAN
  BY <1>4 DEF OfferGood, Current, OfferState
<1>6. /\ offer.warm => pool = st.pool
      /\ ~offer.warm => /\ \A j \in Seats \ {i} : pool.seat[j] = st.pool.seat[j]
                        /\ pool.seat[i].blocks = <<>>
                        /\ pool.seat[i].epoch >= st.pool.seat[i].epoch
  BY <1>3, <1>5, DiscardFields, DiscardEpoch
<1> HIDE DEF pool, ref, offers
<1>7. st' \in State
  BY ConsiderWaitingKeeps DEF Inv, Typed
<1> DEFINE next == st'
<1>8. /\ next.pool = pool /\ next.pending = st.pending /\ next.frontiers = st.frontiers
      /\ next \in State
  BY <1>2, <1>3, <1>7 DEF State
<1> HIDE DEF next
<1>9. attempt'.rows = attempt.rows
  BY <1>1, <1>2 DEF Typed
<1>10. DeviceAgrees(st, device, frames, attempt.rows, req)
  BY DEF AgreesInv
<1>11. DeviceAgrees(next, device, frames, attempt.rows, req)
  <2>1. CASE offer.warm
    BY <1>6, <1>8, <1>10, <2>1, SameAgrees
  <2>2. CASE ~offer.warm
    <3>1. /\ \A j \in Seats \ {i} : next.pool.seat[j] = st.pool.seat[j]
          /\ next.pool.seat[i].blocks = <<>>
          /\ next.pool.seat[i].epoch >= st.pool.seat[i].epoch
      BY <1>6, <1>8, <2>2
    <3> QED BY <1>3, <1>5, <1>8, <1>10, <3>1, SeatVacated
  <2> QED BY <1>5, <2>1, <2>2
<1> QED BY <1>2, <1>9, <1>11 DEF AgreesInv, next

LEMMA ResetPrefixCacheAgrees ==
  ASSUME Inv, AgreesInv, ResetPrefixCache
  PROVE  AgreesInv'
<1> DEFINE pool == Invalidated(st.pool)
           ref == UnpinnedEach(st.ref, [i \in Hot(st.pool) |-> st.pool.seat[i].blocks])
           front == [k \in DOMAIN st.frontiers |->
                       IF k \in DOMAIN st.pending THEN Lost(st.frontiers[k])
                       ELSE st.frontiers[k]]
<1>1. /\ st' = [st EXCEPT !.pool = pool, !.ref = ref, !.frontiers = front]
      /\ UNCHANGED <<req, frames, device, attempt>>
  BY DEF ResetPrefixCache
<1>2. /\ st \in State /\ st.pool \in Pool /\ Seated(st, Range(running))
  BY TypedFacts, StateFacts DEF Inv
<1>3. \A i \in Seats : /\ pool.seat[i].owner = st.pool.seat[i].owner
                       /\ pool.seat[i].fence = st.pool.seat[i].fence
                       /\ pool.seat[i].epoch = st.pool.seat[i].epoch
                       /\ pool.seat[i].owner = Nobody => pool.seat[i].blocks = <<>>
                       /\ pool.seat[i].owner # Nobody => pool.seat[i] = st.pool.seat[i]
  BY <1>2, InvalidatedFields
<1>4. /\ DOMAIN front = DOMAIN st.frontiers
      /\ \A k \in DOMAIN st.frontiers :
           front[k].known => front[k] = st.frontiers[k]
  <2>1. ASSUME NEW k \in DOMAIN st.frontiers
        PROVE  ~Lost(st.frontiers[k]).known
    <3>1. st.frontiers[k] \in FrontierState
      BY <1>2, FrontierKeys
    <3> QED BY <3>1 DEF Lost, FrontierState
  <2> QED BY <2>1
<1> HIDE DEF pool, ref, front
<1>5. st' \in State
  BY ResetPrefixCacheKeeps DEF Inv, Typed
<1> DEFINE next == st'
<1>6. /\ next.pool = pool /\ next.pending = st.pending /\ next.frontiers = front
      /\ next \in State
  BY <1>1, <1>2, <1>5 DEF State
<1> HIDE DEF next
<1>7. DeviceAgrees(st, device, frames, attempt.rows, req)
  BY DEF AgreesInv
<1>8. ASSUME NEW k \in DOMAIN next.frontiers
      PROVE  LeaseNarrows(st, next, k, req, req)
  <2>1. k \in DOMAIN st.frontiers /\ (next.frontiers[k].known => next.frontiers[k] = st.frontiers[k])
    BY <1>4, <1>6
  <2>2. k.seat \in Seats
    BY <1>2, <2>1, FrontierKeys
  <2>3. /\ next.pool.seat[k.seat].owner = st.pool.seat[k.seat].owner
        /\ next.pool.seat[k.seat].epoch = st.pool.seat[k.seat].epoch
    BY <1>3, <1>6, <2>2
  <2>4. Leased(st, k)
    BY <1>7, <2>1, Zenon DEF DeviceAgrees, LeasesTracked, LeaseTracked
  <2> QED BY <1>6, <2>1, <2>3, <2>4 DEF LeaseNarrows, Leased
<1>9. LeasesTracked(next, device, frames, attempt.rows, req)
  BY <1>7, <1>8, LeasesNarrowed, Zenon DEF DeviceAgrees
<1>10. SeatsNarrow(st, next)
  <2> SUFFICES ASSUME NEW j \in Seats
               PROVE  /\ next.pool.seat[j].epoch >= st.pool.seat[j].epoch
                      /\ next.pool.seat[j].blocks = <<>>
    BY DEF SeatsNarrow
  <2>1. st.pool.seat[j].epoch \in Nat
    BY <1>2, PoolFacts
  <2>2. next.pool.seat[j].epoch = st.pool.seat[j].epoch
    BY <1>3, <1>6
  <2>3. next.pool.seat[j].blocks = <<>>
    BY <1>2, <1>3, <1>6 DEF Seated
  <2> QED BY <2>1, <2>2, <2>3
<1>11. DeviceAgrees(next, device, frames, attempt.rows, req)
  BY <1>2, <1>6, <1>7, <1>9, <1>10, SeatsNarrowed, Zenon DEF DeviceAgrees
<1> QED BY <1>1, <1>11 DEF AgreesInv, next

LEMMA AbortAgrees ==
  ASSUME Inv, PagesInv, AgreesInv, NEW r \in Request, Abort(r)
  PROVE  AgreesInv'
<1> DEFINE fence == LastFrame(frames, r)
           next == FreeRequestBlocks(st, r, FALSE, fence)
           rows == attempt.rows
           q == req'
<1>1. /\ attempt.phase = "idle"
      /\ req' = [req EXCEPT ![r].status = "aborted"]
      /\ st' = next
      /\ UNCHANGED <<frames, device, attempt>>
  BY DEF Abort, Idle
<1>2. /\ st \in State /\ Seated(st, Range(running)) /\ PendingKept(st)
      /\ Listed(st, Range(running)) /\ Counted(st)
  BY InvFacts
<1>3. /\ frames \in Seq(Range(frames)) /\ Rowed(frames) /\ RowsKept(st, frames)
      /\ FrameOK(rows) /\ RowsHeld(st, rows) /\ req \in [Request -> RequestState]
  BY TypedFacts DEF Inv
<1>4. r \notin DOMAIN rows
  BY <1>1 DEF Inv, AttemptKept
<1>5. fence \in Nat /\ Covers(frames, r, fence)
  BY <1>3, LastFrameCovers
<1>6. \A x \in Request \ {r} : q[x] = req[x]
  BY <1>1, <1>3
<1>7. DeviceAgrees(st, device, frames, rows, req)
  BY DEF AgreesInv
<1> HIDE DEF fence, rows, q
<1>8. DeviceAgrees(next, device, frames, rows, q)
  BY <1>2, <1>3, <1>4, <1>5, <1>6, <1>7, FreeRequestBlocksAgrees, Zenon
<1> HIDE DEF next
<1> QED BY <1>1, <1>8 DEF AgreesInv, rows, q

LEMMA PreemptLastAgrees ==
  ASSUME Inv, PagesInv, AgreesInv, PreemptLast
  PROVE  AgreesInv'
<1> DEFINE victim == Last(running)
           fence == LastFrame(frames, victim)
           next == FreeRequestBlocks(st, victim, FALSE, fence)
           rows == attempt.rows
           q == req'
           p == Min(ToServe)
<1>1. /\ Serving
      /\ st' = next
      /\ req' = [req EXCEPT ![victim] = [@ EXCEPT !.status = "waiting", !.computed = 0,
                                          !.placeholders = 0, !.drafting = FALSE]]
      /\ attempt' = [attempt EXCEPT !.preempted = TRUE]
      /\ UNCHANGED <<frames, device>>
  BY DEF PreemptLast
<1>2. /\ st \in State /\ Seated(st, Range(running)) /\ PendingKept(st)
      /\ Listed(st, Range(running)) /\ Counted(st)
  BY InvFacts
<1>3. /\ frames \in Seq(Range(frames)) /\ Rowed(frames) /\ RowsKept(st, frames)
      /\ FrameOK(rows) /\ RowsHeld(st, rows) /\ req \in [Request -> RequestState]
      /\ running \in Seq(Request) /\ Once(running) /\ AttemptKept /\ Typed
      /\ attempt.next \in Nat /\ Len(running) \in Nat
  BY TypedFacts DEF Inv, Placed
<1>4. p \in attempt.next .. Len(running) /\ attempt.next >= 1
  BY <1>1, <1>3, ServedOne DEF AttemptKept
<1> HIDE DEF p
<1>5. running # <<>> /\ attempt.next <= Len(running)
  <2>1. Len(running) # 0 /\ attempt.next <= Len(running)
    BY <1>3, <1>4
  <2> QED BY <2>1, EmptySeq
<1>6. /\ DOMAIN running = 1 .. Len(running) /\ Len(running) \in Nat \ {0}
      /\ victim = running[Len(running)] /\ victim \in Request
  BY <1>3, <1>5, FrontList
<1>7. victim \notin DOMAIN rows
  <2>1. SUFFICES ASSUME victim \in DOMAIN rows
                 PROVE  FALSE
    OBVIOUS
  <2>2. PICK i \in 1 .. attempt.next - 1 : running[i] = victim
    BY <1>3, <2>1 DEF AttemptKept
  <2> DEFINE n == Len(running)
             m == attempt.next
  <2>3. i \in 1 .. n /\ n \in 1 .. n /\ i # n
    <3>1. i \in 1 .. m - 1 /\ m <= n /\ m \in Nat /\ n \in Nat \ {0}
      BY <1>3, <1>5, <1>6, <2>2
    <3> HIDE DEF n, m
    <3> QED BY <3>1
  <2> QED BY <1>3, <1>6, <2>2, <2>3 DEF Once
<1> HIDE DEF victim
<1>8. fence \in Nat /\ Covers(frames, victim, fence)
  BY <1>3, LastFrameCovers
<1>9. \A x \in Request \ {victim} : q[x] = req[x]
  BY <1>1, <1>3
<1>10. DeviceAgrees(st, device, frames, rows, req)
  BY DEF AgreesInv
<1>11. attempt'.rows = rows
  BY <1>1, <1>3 DEF Typed
<1> HIDE DEF fence, rows, q
<1>12. DeviceAgrees(next, device, frames, rows, q)
  BY <1>2, <1>3, <1>6, <1>7, <1>8, <1>9, <1>10, FreeRequestBlocksAgrees, Zenon
<1> HIDE DEF next
<1> QED BY <1>1, <1>11, <1>12 DEF AgreesInv, q

LEMMA UpdateFromOutputAgrees ==
  ASSUME Inv, PagesInv, CountsInv, AgreesInv, SamplesVerified, UpdateFromOutput
  PROVE  AgreesInv'
<1> DEFINE frame == Head(frames)
           same == {r \in Request : req'[r].status = req[r].status}
           both == running \o waiting
           ended == Only(both, Request \ same)
           after == req'
           none == attempt'.rows
<1>1. /\ frames # <<>> /\ attempt' = Resting /\ frames' = Tail(frames)
      /\ attempt.phase \in {"idle", "collect"}
  BY DEF UpdateFromOutput
<1>2. PICK sampled :
        /\ \A r \in DOMAIN frame : sampled[r] \in Samples(frame[r])
        /\ device' = FrameRun(device, frame, sampled)
        /\ req' = [r \in Request |-> IF r \in DOMAIN frame /\ Takes(r, frame[r])
                                     THEN After(req[r], r, frame[r], sampled[r]) ELSE req[r]]
        /\ st' = Publish(Ended(Elapsed(Advanced(st, frame, sampled)), ended, Tail(frames)))
  BY DEF UpdateFromOutput, FrameRun
<1>3. running \in Seq(Request) /\ waiting \in Seq(Request)
  BY TypedFacts DEF Inv
<1>4. both \in Seq(Request)
  BY <1>3, ConcatProperties
<1> HIDE DEF both
<1>5. ended \in Seq(Request)
  BY <1>4, OnlyMembers
<1>6. DOMAIN attempt.rows = {} /\ DOMAIN none = {}
  BY <1>1, EmptyPartial DEF Inv, AttemptKept, Resting
<1>7. \A r \in Request : after[r] = IF r \in DOMAIN frame /\ Takes(r, frame[r])
                                    THEN After(req[r], r, frame[r], sampled[r]) ELSE req[r]
  BY <1>2
<1> HIDE DEF frame, ended, after, none
<1>8. DeviceAgrees(Publish(Ended(Elapsed(Advanced(st, frame, sampled)), ended, Tail(frames))),
                   FrameRun(device, frame, sampled), Tail(frames), none, after)
  <2>1. frame = Head(frames)
    BY DEF frame
  <2>2. DeviceAgrees(st, device, frames, attempt.rows, req)
    BY DEF AgreesInv
  <2>3. Verified(frame)
    <3>1. frames \in Seq(Range(frames))
      BY TypedFacts DEF Inv
    <3>2. Len(frames) \in Nat /\ Len(frames) # 0 /\ DOMAIN frames = 1 .. Len(frames)
      BY <1>1, <3>1, LenProperties, EmptySeq
    <3>3. 1 \in DOMAIN frames /\ frame = frames[1]
      BY <2>1, <3>1, <3>2, HeadTailProperties
    <3> QED BY <3>3 DEF SamplesVerified
  <2> QED BY <1>1, <1>2, <1>5, <1>6, <1>7, <2>1, <2>2, <2>3, RetiredAgrees, Zenon
<1> QED BY <1>1, <1>2, <1>8, Zenon DEF AgreesInv, after, none

\* The attempt's rows become the last frame of the queue.
LEMMA QueuedAgrees ==
  ASSUME NEW s \in State, PendingKept(s), NEW T, NEW queue \in Seq(T), NEW rows \in T,
         FrameOK(rows), RowsHeld(s, rows), NEW none, DOMAIN none = {},
         NEW dev, NEW q, DeviceAgrees(s, dev, queue, rows, q)
  PROVE  DeviceAgrees(s, dev, Append(queue, rows), none, q)
<1> DEFINE more == Append(queue, rows)
           m == Len(queue) + 1
<1>1. /\ more \in Seq(T) /\ Len(more) = m /\ Len(queue) \in Nat /\ m \in Nat
      /\ \A i \in 1 .. Len(queue) : more[i] = queue[i]
      /\ more[m] = rows
      /\ DOMAIN more = 1 .. m /\ DOMAIN queue = 1 .. Len(queue)
  BY AppendProperties, LenProperties
<1>2. ASSUME NEW k \in DOMAIN s.frontiers
      PROVE  LeaseTracked(s, k, dev, more, none, q)
  <2> DEFINE L == Lane(k, queue, rows)
             f == s.frontiers[k]
             live == s.pool.seat[k.seat].owner = k.rid
             a == q[k.rid]
             d == dev[k.seat]
  <2>1. /\ Leased(s, k) /\ Sole(k, queue)
        /\ f.known => Tracked(f, k, L, m, a, d, live)
    BY Zenon DEF DeviceAgrees, LeasesTracked, LeaseTracked
  <2>2. Lane(k, more, none) = L
    BY LaneQueued
  <2>3. DOMAIN L \subseteq 1 .. m
    BY LaneIs, Zenon DEF LaneBy
  <2>4. Sole(k, more)
    <3> SUFFICES ASSUME NEW i \in DOMAIN more, NEW r \in DOMAIN more[i], more[i][r].seat = k.seat
                 PROVE  r = k.rid
      BY DEF Sole
    <3>1. i \in 1 .. Len(queue) \/ i = m
      BY <1>1
    <3>2. CASE i \in 1 .. Len(queue)
      BY <1>1, <2>1, <3>2 DEF Sole
    <3>3. CASE i = m
      <4>1. r \in DOMAIN rows /\ rows[r].seat = k.seat /\ r \in Request
        BY <1>1, <3>3 DEF FrameOK
      <4>2. s.pool.seat[k.seat].owner = r /\ r # Nobody
        BY <4>1, SeatAssumption DEF RowsHeld
      <4> QED BY <2>1, <4>2, LeasedEpoch
    <3> QED BY <3>1, <3>2, <3>3
  <2>5. LeaseTracked(s, k, dev, more, none, q)
          <=> /\ Leased(s, k) /\ Sole(k, more)
              /\ f.known => Tracked(f, k, Lane(k, more, none), Len(more) + 1, a, d, live)
    BY DEF LeaseTracked
  <2> HIDE DEF L, f, live, a, d, more
  <2>6. f.known => Tracked(f, k, L, m + 1, a, d, live)
    <3> HIDE DEF m
    <3> QED BY <1>1, <2>1, <2>3, TrackedQueued, Zenon
  <2> QED BY <1>1, <2>1, <2>2, <2>4, <2>5, <2>6
<1> HIDE DEF more
<1>3. DeviceAgrees(s, dev, more, none, q)
  BY <1>2, Zenon DEF DeviceAgrees, LeasesTracked
<1> QED BY <1>3 DEF more

LEMMA QueueFrameAgrees ==
  ASSUME Inv, AgreesInv, QueueFrame
  PROVE  AgreesInv'
<1>1. PICK phase \in {"idle", "collect"} : attempt' = [Resting EXCEPT !.phase = phase]
  BY DEF QueueFrame
<1>2. /\ frames' = IF attempt.rows = <<>> THEN frames ELSE Append(frames, attempt.rows)
      /\ UNCHANGED <<st, req, device>>
  BY DEF QueueFrame
<1> DEFINE none == attempt'.rows
           T == Range(frames) \cup {attempt.rows}
           rows == attempt.rows
           queue == frames'
<1>3. DOMAIN none = {}
  BY <1>1, RestingType
<1>4. /\ frames \in Seq(T) /\ rows \in T /\ FrameOK(rows)
      /\ st \in State /\ PendingKept(st) /\ RowsHeld(st, rows)
  <2>1. /\ frames \in Seq(Range(frames)) /\ FrameOK(attempt.rows) /\ st \in State
        /\ PendingKept(st) /\ RowsHeld(st, rows)
    BY TypedFacts DEF Inv
  <2>2. frames \in Seq(T)
    <3>1. Len(frames) \in Nat /\ DOMAIN frames = 1 .. Len(frames)
          /\ frames \in [1 .. Len(frames) -> Range(frames)]
      BY <2>1, LenProperties
    <3>2. frames \in [1 .. Len(frames) -> T]
      BY <3>1
    <3> HIDE DEF T
    <3> QED BY <3>1, <3>2, SeqDef
  <2> QED BY <2>1, <2>2
<1>5. DeviceAgrees(st, device, frames, rows, req)
  BY DEF AgreesInv
<1>6. queue = IF rows = <<>> THEN frames ELSE Append(frames, rows)
  BY <1>2
<1> HIDE DEF none, T, rows, queue
<1>7. DeviceAgrees(st, device, queue, none, req)
  <2>1. CASE rows = <<>>
    <3>1. DOMAIN rows = {} /\ queue = frames
      BY <1>6, <2>1, EmptyPartial
    <3> QED BY <1>3, <1>4, <1>5, <3>1, NoRowAgrees, Zenon
  <2>2. CASE rows # <<>>
    <3>1. queue = Append(frames, rows)
      BY <1>6, <2>2
    <3> HIDE DEF queue
    <3>2. DeviceAgrees(st, device, Append(frames, rows), none, req)
      BY <1>3, <1>4, <1>5, QueuedAgrees
    <3> QED BY <3>1, <3>2, Zenon
  <2> QED BY <2>1, <2>2
<1> QED BY <1>2, <1>7 DEF AgreesInv, none, queue

-----------------------------------------------------------------------------
\* The rows that an attempt schedules.

\* The fields of a row.
LEMMA RowFields ==
  ASSUME NEW r, NEW lease, NEW query, NEW drafts, NEW from, NEW sampling, NEW limit,
         NEW row, row = Row(r, lease, query, drafts, from, sampling, limit)
  PROVE  /\ row.seat = lease.seat /\ row.epoch = lease.epoch
         /\ row.query = query /\ row.drafts = drafts
         /\ row.sampling = sampling /\ row.limit = limit
         /\ row.follows = (req[r].drafting \/ drafts > 0)
         /\ row.inputs = Slice(AllTokens(r), from + 1, from + query)
         /\ row.ahead = Slice(AllTokens(r), from + query + 1, from + query + 1)
<1> DEFINE v == req[r].drafting \/ drafts > 0
           e == from >= Len(Prompt[r])
           i == Slice(AllTokens(r), from + 1, from + query)
           a == Slice(AllTokens(r), from + query + 1, from + query + 1)
<1>1. row = [seat |-> lease.seat, epoch |-> lease.epoch, query |-> query, drafts |-> drafts,
             sampling |-> sampling, follows |-> v, decode |-> e,
             limit |-> limit, inputs |-> i, ahead |-> a]
  BY DEF Row
<1> HIDE DEF v, e, i, a
<1>2. /\ row.seat = lease.seat /\ row.epoch = lease.epoch
      /\ row.query = query /\ row.drafts = drafts
      /\ row.sampling = sampling /\ row.limit = limit
      /\ row.follows = v /\ row.inputs = i /\ row.ahead = a
  BY <1>1
<1> QED BY <1>2 DEF v, i, a

\* A chunk of the prompt that ends where its row says.
LEMMA ChunkLeads ==
  ASSUME Typed, NEW r \in Request, req[r].drafting = FALSE,
         NEW n \in Nat \ {0}, NEW from \in Nat, NEW f, f.tokens = AllTokens(r),
         f.prompt = Len(AllTokens(r)), from + n <= f.prompt,
         NEW lease, NEW sampling \in BOOLEAN, sampling <=> from + n = f.prompt, NEW limit
  PROVE  Leads(f, from, from + n, Row(r, lease, n, 0, from, sampling, limit))
<1> DEFINE row == Row(r, lease, n, 0, from, sampling, limit)
           tokens == AllTokens(r)
           p == f.prompt
           b == from + n
           inputs == Slice(tokens, from + 1, from + n)
           ahead == Slice(tokens, from + n + 1, from + n + 1)
<1>1. tokens \in Seq(Token) /\ Len(tokens) \in Nat /\ p = Len(tokens)
  BY TokensType
<1>2. /\ ~row.follows /\ row.drafts = 0 /\ row.query = n /\ row.sampling = sampling
      /\ row.inputs = inputs /\ row.ahead = ahead
  <2>1. /\ row.follows = (req[r].drafting \/ 0 > 0)
        /\ row.drafts = 0 /\ row.query = n /\ row.sampling = sampling
        /\ row.inputs = inputs /\ row.ahead = ahead
    BY RowFields
  <2>2. ~(req[r].drafting \/ 0 > 0)
    OBVIOUS
  <2> QED BY <2>1, <2>2, Zenon
<1>3. b \in Nat /\ b = from + n /\ b <= p /\ from < b
  BY <1>1
<1>4. inputs = SubSeq(tokens, from + 1, b)
  <2>1. Min({from + n, Len(tokens)}) = b
    BY <1>1, <1>3, MinOfTwo
  <2> QED BY <2>1, Zenon DEF Slice
<1>5. ASSUME ~sampling
      PROVE  ahead = SubSeq(tokens, b + 1, b + 1)
  <2>1. b + 1 <= Len(tokens) /\ b + 1 \in Int /\ from + n + 1 = b + 1
    BY <1>1, <1>3, <1>5
  <2>2. Min({b + 1, Len(tokens)}) = b + 1
    BY <1>1, <2>1, MinOfTwo
  <2> QED BY <2>1, <2>2 DEF Slice
<1>6. sampling <=> b = p
  OBVIOUS
<1> HIDE DEF row, inputs, ahead, p, b
<1>7. Leads(f, from, b, row)
  BY <1>2, <1>3, <1>4, <1>5, <1>6 DEF Leads, p, tokens
<1> QED BY <1>7 DEF b, row

\* The native counters after a row.
LEMMA ScheduledFields ==
  ASSUME NEW q \in RequestState, NEW computed, NEW row, row.sampling \in BOOLEAN,
         NEW next, next = Scheduled(q, computed, row)
  PROVE  /\ next.computed = computed + row.query
         /\ row.sampling \/ q.drafting <=> next.drafting
         /\ ~row.sampling => next.placeholders = q.placeholders + 0
         /\ next.out = q.out
<1> DEFINE c == computed + row.query
           p == q.placeholders + (IF row.sampling THEN 1 + row.drafts ELSE 0)
           d == q.drafting \/ row.sampling
           l == <<row.seat, row.epoch>>
<1>1. next = [q EXCEPT !.computed = c, !.placeholders = p, !.drafting = d, !.lease = l]
  BY DEF Scheduled
<1>2. ~row.sampling => p = q.placeholders + 0
  OBVIOUS
<1> HIDE DEF c, p, l
<1>3. /\ next.computed = c /\ next.placeholders = p /\ next.drafting = d /\ next.out = q.out
  BY <1>1, Zenon DEF RequestState
<1> QED BY <1>2, <1>3 DEF c

\* A row of a running request takes its lease on.
LEMMA RunningLeads ==
  ASSUME Typed, NEW r \in Request, NEW n \in Nat \ {0}, n = Query(r),
         NEW due, due = Len(AllTokens(r)) + req[r].placeholders - req[r].computed,
         NEW drafts, drafts = IF req[r].drafting THEN Max({0, n - due}) ELSE 0,
         NEW lease,
         NEW row, row = Row(r, lease, n, drafts, req[r].computed, n >= due, NoLimit),
         NEW k, k.rid = r, NEW f, f.prompt \in Nat,
         NEW e \in Int, Ends(e, f, k, req[r])
  PROVE  \E b \in Int : Leads(f, e, b, row)
                        /\ Ends(b, f, k, Scheduled(req[r], req[r].computed, row))
<1> DEFINE q == req[r]
           next == Scheduled(q, q.computed, row)
           p == f.prompt
<1>1. q \in RequestState /\ q.computed \in Int /\ q.placeholders \in Int /\ q.drafting \in BOOLEAN
  BY TypedFacts, CountsType DEF RequestState
<1>2. due \in Int /\ Len(AllTokens(r)) \in Nat
  BY <1>1, TokensType
<1>3. /\ row.sampling = (n >= due) /\ (n >= due) \in BOOLEAN /\ row.query = n
      /\ row.follows = (q.drafting \/ drafts > 0)
  <2>1. /\ row.sampling = (n >= due) /\ row.query = n
        /\ row.follows = (q.drafting \/ drafts > 0)
    BY RowFields
  <2>2. (n >= due) \in BOOLEAN
    BY <1>2
  <2> QED BY <2>1, <2>2, Zenon
<1>4. /\ next.computed = q.computed + row.query
      /\ row.sampling \/ q.drafting <=> next.drafting
      /\ ~row.sampling => next.placeholders = q.placeholders + 0
      /\ next.out = q.out
  <2>1. row.sampling \in BOOLEAN
    BY <1>3
  <2>2. next = Scheduled(q, q.computed, row)
    OBVIOUS
  <2> HIDE DEF next, q
  <2> QED BY <1>1, <2>1, <2>2, ScheduledFields
<1> HIDE DEF next
<1>5. CASE e = p
  <2>1. q.drafting
    BY <1>5 DEF Ends
  <2>2. Leads(f, e, p, row)
    <3>1. row.follows /\ ~(e < p)
      <4>1. ~(e < p)
        BY <1>5
      <4> QED BY <1>3, <2>1, <4>1, Zenon
    <3> QED BY <3>1, Zenon DEF Leads
  <2>3. Ends(p, f, k, next)
    <3>1. p \in 0 .. p /\ ~(p < p) /\ next.drafting
      BY <1>4, <2>1
    <3> QED BY <3>1, Zenon DEF Ends
  <2> QED BY <2>2, <2>3 DEF next
<1>6. CASE e # p
  <2>1. /\ e \in Nat /\ e < p
        /\ q.computed = e /\ q.placeholders = 0 /\ ~q.drafting
        /\ AllTokens(r) = f.tokens /\ Len(f.tokens) = p
    <3>1. e \in Nat /\ e < p
      BY <1>6 DEF Ends
    <3> QED BY <3>1, Zenon DEF Ends, AllTokens
  <2>2. due = p - e /\ drafts = 0
    BY <1>2, <2>1
  <2>3. n <= p - e
    <3>1. Demand(r) = p - e
      <4>1. Demand(r) = Max({0, p - e})
        <5>1. Len(AllTokens(r)) + q.placeholders - q.computed + 0 = p - e
          BY <1>2, <2>1
        <5> QED BY <2>1, <5>1 DEF Demand
      <4>2. Max({0, p - e}) = IF 0 >= p - e THEN 0 ELSE p - e
        <5>1. p - e \in Int /\ 0 \in Int
          BY <2>1
        <5> QED BY <5>1, MaxOfTwo, Zenon
      <4> QED BY <2>1, <4>1, <4>2
    <3>2. n = Min({Demand(r), attempt.left, Granted(r)})
      BY DEF Query
    <3>3. Demand(r) \in Int /\ attempt.left \in Int /\ Granted(r) \in Int
      BY CountsType, TypedFacts
    <3>4. Min({Demand(r), attempt.left, Granted(r)}) <= Demand(r)
      BY <3>3, MinOfThree
    <3> QED BY <3>1, <3>2, <3>4
  <2> DEFINE b == e + n
             s == n >= due
  <2>3a. (n >= due) \in BOOLEAN
    BY <1>2
  <2>4. /\ b \in 0 .. p /\ b \in Int /\ s \in BOOLEAN /\ (s <=> e + n = p)
        /\ e + n <= p
    BY <2>1, <2>2, <2>3, <2>3a
  <2>5. row = Row(r, lease, n, 0, e, s, NoLimit)
    BY <2>1, <2>2
  <2> HIDE DEF s
  <2>6. Leads(f, e, b, row)
    <3>1. req[r].drafting = FALSE /\ p = Len(AllTokens(r)) /\ f.tokens = AllTokens(r)
      BY <1>1, <2>1
    <3>2. Leads(f, e, e + n, Row(r, lease, n, 0, e, s, NoLimit))
      BY <2>1, <2>4, <3>1, ChunkLeads, Zenon
    <3> QED BY <2>5, <3>2
  <2>7. row.sampling = s
    BY <1>3 DEF s
  <2>8. next.computed = b
    BY <1>3, <1>4, <2>1
  <2>9. ~s => next.placeholders = 0 /\ ~next.drafting
    BY <1>4, <2>1, <2>7
  <2>10. s => next.drafting
    BY <1>4, <2>7
  <2>11. Prompt[k.rid] \o next.out = f.tokens
    BY <1>4, <2>1 DEF AllTokens
  <2>12. s <=> b = p
    BY <2>4
  <2> HIDE DEF b, s
  <2>13. Ends(b, f, k, next)
    BY <2>1, <2>4, <2>8, <2>9, <2>10, <2>11, <2>12 DEF Ends
  <2> QED BY <2>4, <2>6, <2>13 DEF next
<1> QED BY <1>5, <1>6

\* A further row of a running request joins the attempt.
LEMMA RowAgrees ==
  ASSUME NEW s \in State, NEW H, Seated(s, H), PendingKept(s),
         NEW T, NEW queue \in Seq(T), NEW rows, NEW r \in Request, r \notin DOMAIN rows,
         NEW row, row.seat \in Seats, s.pool.seat[row.seat].owner = r,
         s.pool.seat[row.seat].epoch = row.epoch, row.limit = NoLimit,
         NEW dev, NEW q, DeviceAgrees(s, dev, queue, rows, q),
         NEW after, \A x \in Request \ {r} : after[x] = q[x],
         \A k \in DOMAIN s.frontiers : k.rid = r =>
           \A e \in Int : Ends(e, s.frontiers[k], k, q[r]) =>
             \E b \in Int : Leads(s.frontiers[k], e, b, row)
                            /\ Ends(b, s.frontiers[k], k, after[r])
  PROVE  DeviceAgrees(s, dev, queue, Put(rows, r, row), after)
<1> DEFINE more == Put(rows, r, row)
<1>1. ASSUME NEW k \in DOMAIN s.frontiers
      PROVE  LeaseTracked(s, k, dev, queue, more, after)
  <2> DEFINE L == Lane(k, queue, rows)
             M == Lane(k, queue, more)
             n == Len(queue) + 1
             f == s.frontiers[k]
             live == s.pool.seat[k.seat].owner = k.rid
             a == q[k.rid]
             c == after[k.rid]
             d == dev[k.seat]
  <2>1. /\ Leased(s, k) /\ Sole(k, queue)
        /\ f.known => Tracked(f, k, L, n, a, d, live)
    BY Zenon DEF DeviceAgrees, LeasesTracked, LeaseTracked
  <2>2. /\ k.seat \in Seats /\ k.rid \in Request /\ k.rid # Nobody
        /\ s.pool.seat[k.seat].epoch = k.epoch
    BY <2>1, FrontierKeys, LeasedEpoch, SeatAssumption
  <2>3. LeaseTracked(s, k, dev, queue, more, after)
          <=> /\ Leased(s, k) /\ Sole(k, queue)
              /\ f.known => Tracked(f, k, M, n, c, d, live)
    BY DEF LeaseTracked
  <2>4. /\ k.rid = r /\ k.seat = row.seat /\ k.epoch = row.epoch => Joined(L, M, n, row)
        /\ ~(k.rid = r /\ k.seat = row.seat /\ k.epoch = row.epoch) => M = L
    <3> HIDE DEF L, M
    <3>1. L = Lane(k, queue, rows) /\ M = Lane(k, queue, Put(rows, r, row))
      BY DEF L, M
    <3> QED BY <3>1, LanePut
  <2>5. \A e \in Int : k.rid = r /\ Ends(e, f, k, a) =>
          \E b \in Int : Leads(f, e, b, row) /\ Ends(b, f, k, c)
    OBVIOUS
  <2>6. k.rid # r => c = a
    BY <2>2
  <2> HIDE DEF L, M, n, f, a, c, d
  <2>7. CASE k.rid = r /\ k.seat = row.seat /\ k.epoch = row.epoch
    <3>1. live
      BY <2>7
    <3>2. f.known => Tracked(f, k, M, n, c, d, live)
      BY <2>1, <2>4, <2>5, <2>7, <3>1, TrackedRow
    <3> QED BY <2>1, <2>3, <3>2
  <2>8. CASE ~(k.rid = r /\ k.seat = row.seat /\ k.epoch = row.epoch)
    <3>1. live => c = a
      <4> SUFFICES ASSUME live, k.rid = r
                   PROVE  FALSE
        BY <2>6
      <4>1. k.seat = row.seat
        BY <2>2 DEF Seated
      <4> QED BY <2>2, <2>8, <4>1
    <3> HIDE DEF live
    <3>2. M = L
      BY <2>4, <2>8
    <3>3. f.known => Tracked(f, k, L, n, c, d, live)
      BY <2>1, <3>1, TrackedStays, Zenon
    <3>4. f.known => Tracked(f, k, M, n, c, d, live)
      BY <3>2, <3>3
    <3> QED BY <2>1, <2>3, <3>4
  <2> QED BY <2>7, <2>8
<1> HIDE DEF more
<1>2. DeviceAgrees(s, dev, queue, more, after)
  BY <1>1, Zenon DEF DeviceAgrees, LeasesTracked
<1> QED BY <1>2 DEF more

LEMMA ScheduleRunningAgrees ==
  ASSUME Inv, AgreesInv, ScheduleRunning
  PROVE  AgreesInv'
<1> DEFINE r == Served
           n == Query(r)
           seat == SeatOf(st.pool, r)
           due == Len(AllTokens(r)) + req[r].placeholders - req[r].computed
           drafts == IF req[r].drafting THEN Max({0, n - due}) ELSE 0
           lease == [seat |-> seat, epoch |-> st.pool.seat[seat].epoch]
           row == Row(r, lease, n, drafts, req[r].computed, n >= due, NoLimit)
           pages == NewPages(st.held[r], req[r].computed + n)
           p == Min(ToServe)
           held == [st.held EXCEPT ![r] = @ \o pages]
           ref == Pinned(st.ref, pages)
           rows == Put(attempt.rows, r, row)
           q == Scheduled(req[r], req[r].computed, row)
<1>1. /\ Serving
      /\ st' = [st EXCEPT !.held = held, !.ref = ref]
      /\ req' = [req EXCEPT ![r] = q]
      /\ attempt' = [attempt EXCEPT !.next = p + 1, !.left = attempt.left - n,
                                    !.rows = rows]
      /\ UNCHANGED <<running, waiting, frames, device>>
  BY DEF ScheduleRunning
<1>2. /\ Typed /\ Placed /\ AttemptKept /\ Once(running)
      /\ Seated(st, Range(running)) /\ PendingKept(st)
  BY DEF Inv, Placed
<1>3. /\ p \in attempt.next .. Len(running) /\ r = running[p] /\ attempt.next \in Nat
      /\ attempt.next >= 1 /\ Len(running) \in Nat /\ DOMAIN running = 1 .. Len(running)
  BY <1>1, <1>2, ServedOne, TypedFacts DEF AttemptKept
<1>4. r \in Range(running) /\ r \in Request
  BY <1>2, <1>3, TypedFacts DEF Range
<1>5. seat \in Seats /\ st.pool.seat[seat].owner = r
  <2>1. r \in Holders(st.pool)
    BY <1>2, <1>4 DEF Seated
  <2> QED BY <2>1, SeatOfOwner
<1>6. st \in State /\ req \in [Request -> RequestState] /\ frames \in Seq(Range(frames))
  BY <1>2, TypedFacts
<1>7. n \in Nat \ {0}
  <2>1. n \in Int
    BY <1>2, <1>4, CountsType
  <2>2. p \in ToServe
    <3>1. ToServe # {}
      BY <1>1 DEF Serving
    <3>2. ToServe \in SUBSET Nat
      BY <1>3 DEF ToServe
    <3> QED BY <3>1, <3>2, LeastOf
  <2>3. n > 0
    BY <1>3, <2>2 DEF ToServe
  <2> QED BY <2>1, <2>3
<1>8. r \notin DOMAIN attempt.rows
  <2> SUFFICES ASSUME r \in DOMAIN attempt.rows
               PROVE  FALSE
    OBVIOUS
  <2> HIDE DEF r, p
  <2>1. PICK i \in 1 .. attempt.next - 1 : running[i] = r
    BY <1>2 DEF AttemptKept
  <2>2. i \in DOMAIN running /\ p \in DOMAIN running /\ i # p
    BY <1>3
  <2> QED BY <1>2, <1>3, <2>1, <2>2 DEF Once
<1>9. n = Query(r) /\ due = Len(AllTokens(r)) + req[r].placeholders - req[r].computed
      /\ drafts = (IF req[r].drafting THEN Max({0, n - due}) ELSE 0)
  OBVIOUS
<1>10. row = Row(r, lease, n, drafts, req[r].computed, n >= due, NoLimit)
       /\ q = Scheduled(req[r], req[r].computed, row)
  OBVIOUS
<1>11. lease.seat = seat /\ lease.epoch = st.pool.seat[seat].epoch
  OBVIOUS
<1> HIDE DEF r, n, p, pages, seat, due, drafts, lease, row, q
<1>12. row.seat = seat /\ row.epoch = st.pool.seat[seat].epoch /\ row.limit = NoLimit
  BY <1>10, <1>11, RowFields
<1>13. ASSUME NEW k \in DOMAIN st.frontiers, k.rid = r,
              NEW e \in Int, Ends(e, st.frontiers[k], k, req[r])
       PROVE  \E b \in Int : Leads(st.frontiers[k], e, b, row)
                             /\ Ends(b, st.frontiers[k], k, q)
  <2> DEFINE f == st.frontiers[k]
  <2>1. f.prompt \in Nat
    <3>1. f \in FrontierState
      BY <1>6, FrontierKeys
    <3> HIDE DEF f
    <3> QED BY <3>1, FrontierFacts
  <2> HIDE DEF f
  <2>2. \E b \in Int : Leads(f, e, b, row) /\ Ends(b, f, k, Scheduled(req[r], req[r].computed, row))
    <3>1. Ends(e, f, k, req[r])
      BY <1>13 DEF f
    <3> QED BY <1>2, <1>4, <1>7, <1>9, <1>10, <1>13, <2>1, <3>1, RunningLeads
  <2> QED BY <1>10, <2>2 DEF f
<1>14. req'[r] = q /\ \A x \in Request \ {r} : req'[x] = req[x]
  BY <1>1, <1>4, <1>6
<1> DEFINE after == req'
<1>15. DeviceAgrees(st, device, frames, rows, after)
  <2>1. DeviceAgrees(st, device, frames, attempt.rows, req)
    BY DEF AgreesInv
  <2>2. row.seat \in Seats /\ st.pool.seat[row.seat].owner = r
        /\ st.pool.seat[row.seat].epoch = row.epoch
    BY <1>5, <1>12
  <2>3. after[r] = q /\ \A x \in Request \ {r} : after[x] = req[x]
    BY <1>14
  <2> HIDE DEF after
  <2>4. \A k \in DOMAIN st.frontiers : k.rid = r =>
          \A e \in Int : Ends(e, st.frontiers[k], k, req[r]) =>
            \E b \in Int : Leads(st.frontiers[k], e, b, row)
                           /\ Ends(b, st.frontiers[k], k, after[r])
    BY <1>13, <2>3
  <2>5. DeviceAgrees(st, device, frames, Put(attempt.rows, r, row), after)
    BY <1>2, <1>4, <1>6, <1>8, <1>12, <2>1, <2>2, <2>3, <2>4, RowAgrees
  <2> QED BY <2>5
<1> HIDE DEF rows, held, ref
<1>16. st'.pool = st.pool /\ st'.pending = st.pending /\ st'.frontiers = st.frontiers
  BY <1>1, <1>6 DEF State
<1>17. attempt'.rows = rows
  <2> DEFINE a == p + 1
             b == attempt.left - n
  <2> HIDE DEF a, b
  <2>1. attempt' = [attempt EXCEPT !.next = a, !.left = b, !.rows = rows]
    BY <1>1 DEF a, b
  <2> QED BY <1>2, <2>1 DEF Typed
<1> DEFINE next == st'
<1>18. DeviceAgrees(next, device, frames, rows, after)
  <2> HIDE DEF after, next
  <2> QED BY <1>15, <1>16, SameAgrees DEF next
<1> QED BY <1>1, <1>17, <1>18 DEF AgreesInv

\* The row takes the frontier from a prompt tokens to where the counters are then.
TakesOn(f, a, row, k, q) == \E b \in Int : Leads(f, a, b, row) /\ Ends(b, f, k, q)

\* The first row of a request takes its frontier on.
LEMMA FirstLeads ==
  ASSUME Typed, NEW r \in Request, req[r].drafting = FALSE,
         NEW c \in Nat, NEW n \in Nat \ {0}, NEW m \in Nat \ {0},
         c + m = Len(AllTokens(r)), n <= m \/ m = 1,
         NEW drafts, drafts = IF m = 1 THEN n - 1 ELSE 0, NEW lease, NEW limit,
         NEW row, row = Row(r, lease, n, drafts, c, n >= m, limit),
         NEW q \in RequestState, q.out = req[r].out, q.placeholders = 0, q.drafting = FALSE,
         NEW k, k.rid = r,
         NEW f, f.tokens = AllTokens(r), f.prompt = Len(AllTokens(r))
  PROVE  TakesOn(f, c, row, k, Scheduled(q, c, row))
<1> SUFFICES \E b \in Int : Leads(f, c, b, row) /\ Ends(b, f, k, Scheduled(q, c, row))
  BY DEF TakesOn
<1> DEFINE next == Scheduled(q, c, row)
           p == f.prompt
<1>1. p \in Nat /\ p = Len(AllTokens(r)) /\ c + m = p /\ c < p
  <2>1. Len(AllTokens(r)) \in Nat
    BY TokensType
  <2> QED BY <2>1
<1>2. /\ row.sampling = (n >= m) /\ (n >= m) \in BOOLEAN /\ row.query = n
      /\ row.follows = (req[r].drafting \/ drafts > 0) /\ row.drafts = drafts
  <2>1. /\ row.sampling = (n >= m) /\ row.query = n
        /\ row.follows = (req[r].drafting \/ drafts > 0) /\ row.drafts = drafts
    BY RowFields
  <2>2. (n >= m) \in BOOLEAN
    OBVIOUS
  <2> QED BY <2>1, <2>2, Zenon
<1>3. /\ next.computed = c + row.query
      /\ row.sampling \/ q.drafting <=> next.drafting
      /\ ~row.sampling => next.placeholders = q.placeholders + 0
      /\ next.out = q.out
  <2>1. row.sampling \in BOOLEAN
    BY <1>2
  <2>2. next = Scheduled(q, c, row)
    OBVIOUS
  <2> HIDE DEF next
  <2> QED BY <2>1, <2>2, ScheduledFields
<1> HIDE DEF next
<1>4. CASE n <= m
  <2> DEFINE b == c + n
             s == n >= m
  <2>1. drafts = 0
    BY <1>4
  <2>2. /\ b \in 0 .. p /\ b \in Int /\ s \in BOOLEAN /\ (s <=> c + n = p)
        /\ c + n <= p
    BY <1>1, <1>2, <1>4
  <2>3. row = Row(r, lease, n, 0, c, s, limit)
    BY <2>1
  <2> HIDE DEF s
  <2>4. Leads(f, c, b, row)
    <3>1. Leads(f, c, c + n, Row(r, lease, n, 0, c, s, limit))
      BY <1>1, <2>2, ChunkLeads, Zenon
    <3> QED BY <2>3, <3>1
  <2>5. row.sampling = s
    BY <1>2 DEF s
  <2>6. next.computed = b
    BY <1>2, <1>3
  <2>7. ~s => next.placeholders = 0 /\ ~next.drafting
    BY <1>3, <2>5
  <2>8. s => next.drafting
    BY <1>3, <2>5
  <2>9. Prompt[k.rid] \o next.out = f.tokens /\ Len(f.tokens) = p
    BY <1>1, <1>3 DEF AllTokens
  <2>10. s <=> b = p
    BY <2>2
  <2> HIDE DEF b, s
  <2>11. Ends(b, f, k, next)
    BY <1>1, <2>2, <2>6, <2>7, <2>8, <2>9, <2>10 DEF Ends
  <2> QED BY <2>2, <2>4, <2>11 DEF next
<1>5. CASE ~(n <= m)
  <2>1. m = 1 /\ drafts = n - 1 /\ drafts > 0 /\ (n >= m)
    BY <1>5
  <2>2. Leads(f, c, p, row)
    <3>1. row.follows /\ row.drafts > 0
      BY <1>2, <2>1
    <3> QED BY <3>1, Zenon DEF Leads
  <2>3. Ends(p, f, k, next)
    <3>1. p \in 0 .. p /\ ~(p < p)
      BY <1>1
    <3>2. next.drafting
      BY <1>2, <1>3, <2>1
    <3> QED BY <3>1, <3>2, Zenon DEF Ends
  <2> QED BY <1>1, <2>2, <2>3 DEF next
<1> QED BY <1>4, <1>5

\* The seat of a request that is admitted, and its frontier.
Seating(s, next, r, i, epoch, f) ==
  /\ s.pool.seat[i].owner = Nobody /\ s.pool.seat[i].fence = 0
  /\ \A j \in Seats \ {i} : next.pool.seat[j] = s.pool.seat[j]
  /\ next.pool.seat[i].owner = r /\ next.pool.seat[i].epoch = epoch
  /\ next.pool.seat[i].blocks = <<>>
  /\ next.pending = s.pending
  /\ next.frontiers = Put(s.frontiers, [rid |-> r, seat |-> i, epoch |-> epoch], f)

\* The checkpoints of the other seats stay what the device holds.
LEMMA SeatingHot ==
  ASSUME NEW s \in State, NEW next \in State, NEW r, NEW i \in Seats, NEW epoch, NEW f,
         Seating(s, next, r, i, epoch, f), epoch >= s.pool.seat[i].epoch,
         NEW dev, HotExact(s, dev), EpochsBelow(s, dev)
  PROVE  HotExact(next, dev) /\ EpochsBelow(next, dev)
<1>1. SeatsNarrow(s, next)
  <2> SUFFICES ASSUME NEW j \in Seats
               PROVE  /\ next.pool.seat[j].epoch >= s.pool.seat[j].epoch
                      /\ next.pool.seat[j].blocks # <<>> =>
                           /\ s.pool.seat[j].blocks # <<>>
                           /\ next.pool.seat[j].epoch = s.pool.seat[j].epoch
                           /\ next.pool.seat[j].tokens = s.pool.seat[j].tokens
                           /\ s.pool.seat[j].fence = 0 => next.pool.seat[j].fence = 0
    BY DEF SeatsNarrow
  <2>1. s.pool.seat[j].epoch \in Nat
    BY StateFacts, PoolFacts
  <2> QED BY <2>1 DEF Seating
<1> QED BY <1>1, SeatsNarrowed

\* A lease whose frontier is followed is of another seat.
LEMMA SeatingOthers ==
  ASSUME NEW s \in State, PendingKept(s), NoneDue(s),
         NEW next, NEW r \in Request, r \notin Holders(s.pool), NEW i \in Seats,
         NEW epoch, NEW f, Seating(s, next, r, i, epoch, f),
         NEW T, NEW queue \in Seq(T), NEW rows, r \notin DOMAIN rows,
         NEW row, row.seat = i,
         NEW dev, NEW q, LeasesTracked(s, dev, queue, rows, q),
         NEW after, \A x \in Request \ {r} : after[x] = q[x],
         NEW k \in DOMAIN s.frontiers, next.frontiers[k] = s.frontiers[k]
  PROVE  LeaseTracked(next, k, dev, queue, Put(rows, r, row), after)
<1> DEFINE more == Put(rows, r, row)
           L == Lane(k, queue, rows)
           M == Lane(k, queue, more)
           n == Len(queue) + 1
           g == s.frontiers[k]
           live == s.pool.seat[k.seat].owner = k.rid
           a == q[k.rid]
           c == after[k.rid]
           d == dev[k.seat]
<1>1. /\ Leased(s, k) /\ Sole(k, queue)
      /\ g.known => Tracked(g, k, L, n, a, d, live)
  BY Zenon DEF LeasesTracked, LeaseTracked
<1>2. k.seat \in Seats /\ k.rid \in Request /\ k.rid # Nobody
  BY FrontierKeys, SeatAssumption
<1>3. k.seat # i
  BY <1>1, <1>2, LeaseElsewhere DEF Seating
<1>4. next.pool.seat[k.seat] = s.pool.seat[k.seat] /\ next.pending = s.pending
  BY <1>2, <1>3 DEF Seating
<1>5. Leased(next, k)
  BY <1>1, <1>4 DEF Leased
<1>6. live => c = a
  <2>1. live => k.rid # r
    BY <1>2 DEF Holders
  <2> QED BY <1>2, <2>1
<1>7. M = L
  <2> HIDE DEF L, M
  <2>1. L = Lane(k, queue, rows) /\ M = Lane(k, queue, Put(rows, r, row))
    BY DEF L, M
  <2> QED BY <1>3, <2>1, LanePut
<1>8. LeaseTracked(next, k, dev, queue, more, after)
        <=> /\ Leased(next, k) /\ Sole(k, queue)
            /\ g.known => Tracked(g, k, M, n, c, d, live)
  BY <1>4 DEF LeaseTracked
<1> HIDE DEF L, M, n, g, a, c, d, live
<1>9. g.known => Tracked(g, k, L, n, c, d, live)
  BY <1>1, <1>6, TrackedStays, Zenon
<1>10. g.known => Tracked(g, k, M, n, c, d, live)
  BY <1>7, <1>9
<1> QED BY <1>1, <1>5, <1>8, <1>10 DEF more

\* The lease of a request that is admitted.
LEMMA SeatingOne ==
  ASSUME NEW s \in State, NEW next, NEW r \in Request, NEW i \in Seats,
         NEW epoch, NEW f, Seating(s, next, r, i, epoch, f),
         NEW T, NEW queue \in Seq(T), RowsKept(s, queue), NEW rows, r \notin DOMAIN rows,
         NEW row, row.seat = i, row.epoch = epoch, row.limit # NoLimit,
         NEW k, k = [rid |-> r, seat |-> i, epoch |-> epoch],
         next.frontiers[k] = f,
         Fronted(f), Place(f) \in Int, NEW dev, Exact(f, k, Prepared(dev[i], row)),
         NEW after, NEW b \in Int, Leads(f, Place(f), b, row), Ends(b, f, k, after[r])
  PROVE  LeaseTracked(next, k, dev, queue, Put(rows, r, row), after)
<1> DEFINE more == Put(rows, r, row)
           L == Lane(k, queue, rows)
           M == Lane(k, queue, more)
           n == Len(queue) + 1
           d == dev[i]
           c == after[r]
           live == next.pool.seat[i].owner = r
<1>1. k.rid = r /\ k.seat = i /\ k.epoch = epoch
  OBVIOUS
<1>2. Leased(next, k)
  BY <1>1 DEF Leased, Seating
<1>3. ASSUME NEW j \in DOMAIN queue, NEW x \in DOMAIN queue[j], queue[j][x].seat = i
      PROVE  FALSE
  <2>1. s.pool.seat[i].fence >= j
    BY <1>3 DEF RowsKept, Seating
  <2>2. j \in Nat /\ j >= 1
    BY LenProperties
  <2> QED BY <2>1, <2>2 DEF Seating
<1>4. Sole(k, queue)
  BY <1>1, <1>3 DEF Sole
<1>5. DOMAIN L = {}
  <2>1. ~On(k, rows)
    BY <1>1 DEF On
  <2>2. DOMAIN queue = 1 .. Len(queue)
    BY LenProperties
  <2>3. \A j \in 1 .. Len(queue) : ~On(k, queue[j])
    BY <1>1, <1>3, <2>2 DEF On
  <2> QED BY <2>1, <2>3, LaneEmpty
<1>6. Joined(L, M, n, row)
  <2> HIDE DEF L, M
  <2>1. L = Lane(k, queue, rows) /\ M = Lane(k, queue, Put(rows, r, row))
    BY DEF L, M
  <2> QED BY <1>1, <2>1, LanePut
<1>7. LeaseTracked(next, k, dev, queue, more, after)
        <=> /\ Leased(next, k) /\ Sole(k, queue)
            /\ f.known => Tracked(f, k, M, n, c, d, live)
  BY <1>1 DEF LeaseTracked
<1> HIDE DEF L, M, n, d, c, live
<1>8. Tracked(f, k, M, n, c, d, live)
  <2>1. Exact(f, k, Prepared(d, row)) /\ Ends(b, f, k, c)
    BY DEF d, c
  <2> QED BY <1>5, <1>6, <2>1, TrackedFirst
<1> QED BY <1>2, <1>4, <1>7, <1>8 DEF more

\* A request is admitted: its frontier is what the device will hold.
LEMMA SeatingAgrees ==
  ASSUME NEW s \in State, PendingKept(s), NoneDue(s),
         NEW next \in State, NEW r \in Request, r \notin Holders(s.pool), NEW i \in Seats,
         NEW epoch, epoch >= s.pool.seat[i].epoch,
         NEW f, Seating(s, next, r, i, epoch, f),
         NEW T, NEW queue \in Seq(T), RowsKept(s, queue), NEW rows, r \notin DOMAIN rows,
         NEW row, row.seat = i, row.epoch = epoch, row.limit # NoLimit,
         NEW key, key = [rid |-> r, seat |-> i, epoch |-> epoch],
         NEW dev, NEW q, DeviceAgrees(s, dev, queue, rows, q),
         Fronted(f), Place(f) \in Int, Exact(f, key, Prepared(dev[i], row)),
         NEW after, \A x \in Request \ {r} : after[x] = q[x],
         NEW b \in Int, Leads(f, Place(f), b, row), Ends(b, f, key, after[r])
  PROVE  DeviceAgrees(next, dev, queue, Put(rows, r, row), after)
<1>1. LeasesTracked(s, dev, queue, rows, q) /\ HotExact(s, dev) /\ EpochsBelow(s, dev)
  BY DEF DeviceAgrees
<1>2. HotExact(next, dev) /\ EpochsBelow(next, dev)
  BY <1>1, SeatingHot
<1>3. next.frontiers = Put(s.frontiers, key, f)
  BY DEF Seating
<1>4. /\ DOMAIN next.frontiers = DOMAIN s.frontiers \cup {key}
      /\ next.frontiers[key] = f
      /\ \A k \in DOMAIN s.frontiers : k # key => next.frontiers[k] = s.frontiers[k]
  <2> DEFINE put == Put(s.frontiers, key, f)
  <2>1. DOMAIN put = DOMAIN s.frontiers \cup {key}
    BY DEF Put
  <2>2. put[key] = f
    BY PutAt
  <2>3. \A k \in DOMAIN s.frontiers : k # key => put[k] = s.frontiers[k]
    BY DEF Put
  <2>4. next.frontiers = put
    BY <1>3
  <2> HIDE DEF put
  <2> QED BY <2>1, <2>2, <2>3, <2>4
<1>5. ASSUME NEW k \in DOMAIN next.frontiers
      PROVE  LeaseTracked(next, k, dev, queue, Put(rows, r, row), after)
  <2>1. CASE k = key
    <3>1. next.frontiers[k] = f /\ k = [rid |-> r, seat |-> i, epoch |-> epoch]
          /\ Exact(f, k, Prepared(dev[i], row)) /\ Ends(b, f, k, after[r])
      BY <1>4, <2>1
    <3> QED BY <3>1, SeatingOne
  <2>2. CASE k # key
    <3>1. k \in DOMAIN s.frontiers
      BY <1>4, <2>2
    <3>2. next.frontiers[k] = s.frontiers[k]
      BY <1>4, <2>2, <3>1
    <3> QED BY <1>1, <3>1, <3>2, SeatingOthers
  <2> QED BY <2>1, <2>2
<1>6. LeasesTracked(next, dev, queue, Put(rows, r, row), after)
  BY <1>5 DEF LeasesTracked
<1> QED BY <1>2, <1>6 DEF DeviceAgrees

\* A warm claim keeps the epoch, a cold one advances it.
LEMMA ClaimEpoch ==
  ASSUME NEW pool \in Pool, NEW r \in Request, NEW offer \in OfferState
  PROVE  Claim(pool, r, offer).seat[offer.seat].epoch
           = IF offer.warm THEN pool.seat[offer.seat].epoch
             ELSE pool.seat[offer.seat].epoch + 1
<1> DEFINE i == offer.seat
           kept == pool.seat[i]
           gone == Renewed(Forgotten(kept))
           warm == [kept EXCEPT !.owner = r]
           cold == [gone EXCEPT !.owner = r]
           seat == IF offer.warm THEN warm ELSE cold
           next == Touching(pool, i, seat)
<1>1. i \in Seats
  BY DEF OfferState
<1>2. kept \in SeatState
  BY <1>1, PoolFacts
<1>3. gone \in SeatState /\ gone.epoch = kept.epoch + 1
  BY <1>2, ForgottenType, RenewedType
<1>4. Claim(pool, r, offer) = next
  BY DEF Claim, Touching
<1> HIDE DEF gone, kept
<1>5. warm \in SeatState /\ warm.epoch = kept.epoch
  BY <1>2 DEF SeatState
<1>6. cold \in SeatState /\ cold.epoch = gone.epoch
  BY <1>3 DEF SeatState
<1> HIDE DEF warm, cold
<1>7. seat \in SeatState /\ seat.epoch = IF offer.warm THEN kept.epoch ELSE kept.epoch + 1
  BY <1>3, <1>5, <1>6
<1> HIDE DEF seat
<1>8. next.seat[i] = seat
  BY <1>1, <1>7, PoolTouched
<1> HIDE DEF next
<1> QED BY <1>4, <1>7, <1>8 DEF kept

\* A new frontier.
LEMMA FirstFronted ==
  ASSUME NEW tokens \in Seq(Token), NEW cursor \in Nat, NEW m, m = Len(tokens),
         cursor < m, NEW remaining \in Int, remaining >= 1,
         NEW f, f = NewFrontier(tokens, cursor, remaining)
  PROVE  /\ Fronted(f) /\ Place(f) = cursor
         /\ f.tokens = tokens /\ f.prompt = m /\ f.cursor = cursor
         /\ f.remaining = remaining
<1>1. m \in Nat
  BY LenProperties
<1>2. f.tokens = tokens /\ f.prompt = m /\ f.cursor = cursor /\ f.remaining = remaining
  BY DEF NewFrontier
<1> QED BY <1>1, <1>2 DEF Fronted, Place

\* A cold seat is cleared for a new frontier; a warm one holds its cursor's tokens.
LEMMA FirstExact ==
  ASSUME NEW d, Shaped(d), d.epoch \in Nat,
         NEW tokens \in Seq(Token), NEW cursor \in Nat, NEW remaining \in Int,
         NEW f, f.tokens = tokens, f.cursor = cursor, f.remaining = remaining,
         NEW key, NEW row, row.epoch = key.epoch, row.limit = remaining,
         row.limit # NoLimit,
         \/ cursor = 0 /\ d.epoch # row.epoch
         \/ cursor > 0 /\ d.epoch = row.epoch /\ d.tokens = SubSeq(tokens, 1, cursor + 1)
  PROVE  Exact(f, key, Prepared(d, row))
<1> DEFINE fresh == IF d.epoch = row.epoch THEN d
                    ELSE [d EXCEPT !.epoch = row.epoch, !.tokens = <<>>]
           p == [fresh EXCEPT !.remaining = row.limit]
<1>1. Prepared(d, row) = p
  BY DEF Prepared
<1>2. /\ p.epoch = row.epoch /\ p.remaining = row.limit
      /\ p.tokens = IF d.epoch = row.epoch THEN d.tokens ELSE <<>>
  BY DEF Shaped
<1> HIDE DEF p
<1> DEFINE held == SubSeq(tokens, 1, cursor + 1)
<1>3. p.tokens = IF cursor > 0 THEN held ELSE <<>>
  <2>1. \/ cursor = 0 /\ d.epoch # row.epoch
        \/ cursor > 0 /\ d.epoch = row.epoch /\ d.tokens = held
    OBVIOUS
  <2> HIDE DEF held
  <2> QED BY <1>2, <2>1
<1> QED BY <1>1, <1>2, <1>3 DEF Exact

-----------------------------------------------------------------------------
\* Offers, and the requests they are made to.

\* A request that waits has no draft, and one that has not ended has output left.
Unended(q, r) ==
  /\ q.status \in {"absent", "waiting"} => ~q.drafting
  /\ q.status \in {"absent", "waiting", "running"} => Len(q.out) < MaxTokens[r]

\* This holds of every request.
RequestsInv == \A r \in Request : Unended(req[r], r)

\* A warm offer's checkpoint begins the tokens of the request it is made to.
OfferInv ==
  attempt.phase = "allocate" /\ st.offers[Candidate].warm =>
    IsPrefix(st.pool.seat[st.offers[Candidate].seat].tokens, AllTokens(Candidate))

\* What the device holds of a warm offer's tokens.
LEMMA OfferHolds ==
  ASSUME Inv, OfferInv, attempt.phase = "allocate", NEW r \in Request, r = Candidate
  PROVE  LET offer == st.offers[r]
             i == offer.seat
             c == HitCursor(offer)
             m == Missing(r)
         IN  /\ c \in Nat /\ m \in Nat \ {0} /\ c + m = Len(AllTokens(r))
             /\ ~offer.warm => c = 0
             /\ offer.warm => /\ c > 0 /\ st.pool.seat[i].blocks # <<>>
                              /\ st.pool.seat[i].tokens = SubSeq(AllTokens(r), 1, c + 1)
<1> SUFFICES ASSUME NEW offer, offer = st.offers[r], NEW i, i = offer.seat,
                    NEW c, c = HitCursor(offer), NEW m, m = Missing(r)
             PROVE  /\ c \in Nat /\ m \in Nat \ {0} /\ c + m = Len(AllTokens(r))
                    /\ ~offer.warm => c = 0
                    /\ offer.warm => /\ c > 0 /\ st.pool.seat[i].blocks # <<>>
                                     /\ st.pool.seat[i].tokens = SubSeq(AllTokens(r), 1, c + 1)
  BY Zenon
<1> DEFINE tokens == AllTokens(r)
           held == st.pool.seat[i].tokens
           k == Len(tokens)
<1>1. Typed /\ OfferGood(st.pool, offer, tokens)
  BY DEF Inv, AttemptKept, OfferKept
<1>2. st.pool \in Pool /\ tokens \in Seq(Token) /\ k \in Nat /\ k >= 1
  <2>1. Len(AllTokens(r)) >= Len(Prompt[r]) /\ Len(Prompt[r]) \in Nat /\ Len(Prompt[r]) >= 1
        /\ Len(AllTokens(r)) \in Nat
    BY <1>1, SomeTokens
  <2>2. st.pool \in Pool /\ AllTokens(r) \in Seq(Token)
    BY <1>1, TypedFacts, StateFacts, TokensType
  <2> QED BY <2>1, <2>2
<1>3. i \in Seats /\ offer.warm \in BOOLEAN
  BY <1>1 DEF OfferGood, OfferState
<1>4. c = IF offer.warm THEN Cursor(st.pool.seat[i]) ELSE 0
  BY DEF HitCursor
<1>5. m = k - c
  BY DEF Missing
<1> HIDE DEF tokens
<1>6. c \in Nat /\ k - c >= 1
  <2>1. LET hit == IF offer.warm THEN Cursor(st.pool.seat[offer.seat]) ELSE 0
        IN  hit \in Nat /\ Len(tokens) \in Nat /\ Len(tokens) - hit >= 1
    BY <1>1, <1>2, OfferLeaves
  <2> QED BY <1>4, <2>1
<1>7. c \in Nat /\ m \in Nat \ {0} /\ c + m = k
  <2> HIDE DEF k
  <2> QED BY <1>2, <1>5, <1>6
<1>8. ASSUME offer.warm
      PROVE  /\ c > 0 /\ st.pool.seat[i].blocks # <<>>
             /\ held = SubSeq(tokens, 1, c + 1)
  <2>1. c = Cursor(st.pool.seat[i]) /\ c > 0 /\ st.pool.seat[i].blocks # <<>>
    BY <1>1, <1>4, <1>8 DEF OfferGood
  <2>2. Len(held) \in Nat /\ c = IF Len(held) >= 1 THEN Len(held) - 1 ELSE 0
    BY <1>2, <1>3, <2>1, CursorIs
  <2>3. held \in Seq(Token)
    BY <1>2, <1>3, PoolFacts
  <2> DEFINE n == Len(held)
  <2>4. n = c + 1
    <3>1. n \in Nat /\ c = IF n >= 1 THEN n - 1 ELSE 0
      BY <2>2
    <3> HIDE DEF n
    <3> QED BY <1>6, <2>1, <3>1
  <2>5. SubSeq(held, 1, n) = SubSeq(tokens, 1, n)
    BY <1>8 DEF OfferInv, IsPrefix, tokens
  <2>6. SubSeq(held, 1, n) = held
    <3> HIDE DEF held
    <3> QED BY <2>3
  <2> HIDE DEF n
  <2>7. held = SubSeq(tokens, 1, c + 1)
    BY <2>4, <2>5, <2>6
  <2> QED BY <2>1, <2>7
<1>9. ~offer.warm => c = 0
  BY <1>4
<1> QED BY <1>7, <1>8, <1>9 DEF tokens

\* The tokens of the first row.
LEMMA FirstQueryBounds ==
  ASSUME Inv, CountsInv, attempt.phase = "allocate", NEW r \in Request, r = Candidate,
         NEW m, m = Missing(r), m \in Nat \ {0}, NEW n, n = FirstQuery(r)
  PROVE  n \in Nat \ {0} /\ (n <= m \/ m = 1)
<1>1. n \in Int /\ n >= 1
  BY FirstQueryPositive
<1>2. Typed
  BY DEF Inv
<1> DEFINE first == IF m = 1 THEN 1 + Drafts ELSE m
           left == attempt.left
           granted == Granted(r)
<1>3. left \in Int /\ granted \in Int /\ first \in Int
  BY <1>2, TypedFacts, CountsType, EngineAssumption
<1>4. n = Min({first, left, granted})
  BY DEF FirstQuery
<1>5. m # 1 => first = m
  OBVIOUS
<1> HIDE DEF first, left, granted
<1>6. n <= first
  BY <1>3, <1>4, MinOfThree
<1> QED BY <1>1, <1>5, <1>6

LEMMA AdmitAgrees ==
  ASSUME Inv, CountsInv, AgreesInv, RequestsInv, OfferInv, Admit
  PROVE  AgreesInv'
<1>1. /\ attempt.phase = "allocate"
      /\ Typed /\ Placed /\ AttemptKept
      /\ Queued # <<>> /\ OfferKept(Candidate)
  BY Zenon DEF Inv, Admit, AttemptKept
<1>2. Candidate \in Range(waiting) /\ Candidate \in Request
  BY <1>1, CandidateIs
<1> SUFFICES ASSUME NEW r \in Request, r = Candidate
             PROVE  AgreesInv'
  BY <1>2
<1> DEFINE offer == st.offers[r]
           i == offer.seat
           hit == HitBlocks(offer)
           cursor == HitCursor(offer)
           n == FirstQuery(r)
           m == Missing(r)
           tokens == AllTokens(r)
           pages == NewPages(hit, cursor + n)
           remaining == MaxTokens[r] - Len(req[r].out)
           claimed == Claim(st.pool, r, offer)
           epoch == claimed.seat[i].epoch
           drafts == IF m = 1 THEN n - 1 ELSE 0
           lease == [seat |-> i, epoch |-> epoch]
           row == Row(r, lease, n, drafts, cursor, n >= m, remaining)
           pool == Transferred(claimed, r)
           ref == Unpinned(Pinned(Pinned(st.ref, hit), pages), claimed.seat[i].blocks)
           held == [st.held EXCEPT ![r] = hit \o pages]
           key == [rid |-> r, seat |-> i, epoch |-> epoch]
           f == NewFrontier(tokens, cursor, remaining)
           frontiers == Put(st.frontiers, key, f)
           offers == [st.offers EXCEPT ![r] = NoOffer]
           admitted == [req[r] EXCEPT !.status = "running"]
           q == Scheduled(admitted, cursor, row)
           rows == Put(attempt.rows, r, row)
           next == Len(running) + 2
           left == attempt.left - n
<1>3. /\ st' = [st EXCEPT !.pool = pool, !.ref = ref, !.held = held,
                          !.frontiers = frontiers, !.offers = offers]
      /\ req' = [req EXCEPT ![r] = q]
      /\ attempt' = [attempt EXCEPT !.phase = "schedule", !.next = next,
                                    !.left = left, !.rows = rows]
      /\ frames' = frames /\ device' = device
  <2>1. st' = [st EXCEPT !.pool = pool, !.ref = ref, !.held = held,
                          !.frontiers = frontiers, !.offers = offers]
    BY Zenon DEF Admit
  <2>2. req' = [req EXCEPT ![r] = q]
    BY Zenon DEF Admit
  <2>3. attempt' = [attempt EXCEPT !.phase = "schedule", !.next = next,
                                   !.left = left, !.rows = rows]
    BY Zenon DEF Admit
  <2> QED BY <2>1, <2>2, <2>3, Zenon DEF Admit
<1>4. OfferGood(st.pool, offer, tokens)
  BY <1>1 DEF OfferKept
<1>5. offer \in OfferState /\ i \in Seats
      /\ st.pool.seat[i].owner = Nobody /\ st.pool.seat[i].fence = 0
  BY <1>4 DEF OfferGood, Current, OfferState
<1>6. /\ st \in State /\ st.pool \in Pool /\ tokens \in Seq(Token)
      /\ req \in [Request -> RequestState] /\ frames \in Seq(Range(frames))
  BY <1>1, TypedFacts, StateFacts, TokensType
<1>7. /\ cursor \in Nat /\ m \in Nat \ {0} /\ cursor + m = Len(tokens)
      /\ ~offer.warm => cursor = 0
      /\ offer.warm => /\ cursor > 0 /\ st.pool.seat[i].blocks # <<>>
                       /\ st.pool.seat[i].tokens = SubSeq(tokens, 1, cursor + 1)
  BY <1>1, OfferHolds
<1>8. n \in Nat \ {0} /\ (n <= m \/ m = 1)
  BY <1>1, <1>7, FirstQueryBounds
<1>9. req[r].status = "waiting" /\ r \notin Range(running)
  BY <1>1, <1>2 DEF Placed
<1>10. req[r].placeholders = 0 /\ req[r].drafting = FALSE
  <2>1. ~req[r].drafting /\ req[r].drafting \in BOOLEAN
    BY <1>6, <1>9 DEF RequestsInv, Unended, RequestState
  <2> QED BY <1>9, <2>1 DEF CountsInv
<1>11. remaining \in Int /\ remaining >= 1
  <2>1. MaxTokens[r] \in Int /\ Len(req[r].out) \in Int /\ Len(req[r].out) < MaxTokens[r]
    BY <1>1, <1>9, EngineAssumption, TokensType DEF RequestsInv, Unended
  <2> QED BY <2>1
<1>12. r \notin Holders(st.pool) /\ PendingKept(st) /\ NoneDue(st) /\ RowsKept(st, frames)
  BY <1>9 DEF Inv, Seated
<1>13. r \notin DOMAIN attempt.rows
  <2>1. \A x \in DOMAIN attempt.rows : \E j \in 1 .. attempt.next - 1 : running[j] = x
    BY <1>1 DEF AttemptKept
  <2>2. \A j \in 1 .. attempt.next - 1 : j \in DOMAIN running
    <3>1. /\ attempt.next \in 1 .. Len(running) + 1 /\ DOMAIN running = 1 .. Len(running)
          /\ Len(running) \in Nat
      BY <1>1, TypedFacts, LenProperties DEF AttemptKept
    <3> QED BY <3>1
  <2> QED BY <1>9, <2>1, <2>2 DEF Range
<1>14. /\ pool \in Pool
       /\ pool.seat[i].owner = r
       /\ pool.seat[i].epoch = epoch
       /\ pool.seat[i].blocks = <<>>
       /\ \A j \in Seats \ {i} : pool.seat[j] = st.pool.seat[j]
  BY <1>5, <1>6, <1>12, TakenSeat
<1>15. epoch = IF offer.warm THEN st.pool.seat[i].epoch ELSE st.pool.seat[i].epoch + 1
  BY <1>5, <1>6, ClaimEpoch
<1>16. st.pool.seat[i].epoch \in Nat
  BY <1>5, <1>6, PoolFacts
<1>17. lease.seat = i /\ lease.epoch = epoch
  OBVIOUS
<1>18. row = Row(r, lease, n, drafts, cursor, n >= m, remaining)
       /\ q = Scheduled(admitted, cursor, row)
       /\ f = NewFrontier(tokens, cursor, remaining)
       /\ key = [rid |-> r, seat |-> i, epoch |-> epoch]
       /\ frontiers = Put(st.frontiers, key, f)
       /\ drafts = (IF m = 1 THEN n - 1 ELSE 0)
       /\ tokens = AllTokens(r)
  OBVIOUS
<1>19. /\ admitted \in RequestState /\ admitted.out = req[r].out
       /\ admitted.placeholders = 0 /\ admitted.drafting = FALSE
  <2>1. req[r] \in RequestState /\ "running" \in Statuses
    BY <1>6 DEF Statuses
  <2> QED BY <1>10, <2>1 DEF RequestState
<1>20. key.rid = r /\ key.seat = i /\ key.epoch = epoch
  OBVIOUS
<1> HIDE DEF pool, ref, held, frontiers, offers, row, epoch, n, m, i, cursor, remaining,
             lease, drafts, key, f, admitted, q, tokens
<1>21. row.seat = i /\ row.epoch = epoch /\ row.limit = remaining /\ row.limit # NoLimit
  BY <1>11, <1>17, <1>18, RowFields DEF NoLimit
<1>22. /\ Fronted(f) /\ Place(f) = cursor /\ Place(f) \in Int
       /\ f.tokens = tokens /\ f.prompt = Len(tokens) /\ f.cursor = cursor
       /\ f.remaining = remaining
  <2> DEFINE k == Len(tokens)
  <2>1. cursor < k
    <3>1. k \in Nat /\ cursor + m = k
      BY <1>6, <1>7, LenProperties
    <3> HIDE DEF k
    <3> QED BY <1>7, <3>1
  <2>2. k = Len(tokens)
    OBVIOUS
  <2> HIDE DEF k
  <2>3. /\ Fronted(f) /\ Place(f) = cursor
        /\ f.tokens = tokens /\ f.prompt = k /\ f.cursor = cursor /\ f.remaining = remaining
    BY <1>6, <1>7, <1>11, <1>18, <2>1, <2>2, FirstFronted
  <2> QED BY <1>7, <2>2, <2>3
<1>23. PICK b \in Int : Leads(f, cursor, b, row) /\ Ends(b, f, key, q)
  <2>1. TakesOn(f, cursor, row, key, Scheduled(admitted, cursor, row))
    <3>1. cursor + m = Len(AllTokens(r)) /\ f.tokens = AllTokens(r)
          /\ f.prompt = Len(AllTokens(r))
      BY <1>7, <1>18, <1>22
    <3>2. drafts = (IF m = 1 THEN n - 1 ELSE 0) /\ key.rid = r
          /\ row = Row(r, lease, n, drafts, cursor, n >= m, remaining)
      BY <1>18, <1>20
    <3>3. cursor \in Nat /\ m \in Nat \ {0}
      BY <1>7
    <3> QED BY <1>1, <1>8, <1>10, <1>19, <3>1, <3>2, <3>3, FirstLeads
  <2> QED BY <1>18, <2>1 DEF TakesOn
<1>24. DeviceAgrees(st, device, frames, attempt.rows, req)
  BY DEF AgreesInv
<1>25. Exact(f, key, Prepared(device[i], row))
  <2> DEFINE d == device[i]
             e == st.pool.seat[i].epoch
  <2>1. Shaped(d) /\ d.epoch \in Nat /\ d.epoch <= e
    BY <1>5, <1>24 DEF DeviceAgrees, EpochsBelow
  <2>2. \/ cursor = 0 /\ d.epoch # row.epoch
        \/ cursor > 0 /\ d.epoch = row.epoch /\ d.tokens = SubSeq(tokens, 1, cursor + 1)
    <3>1. CASE offer.warm
      <4>1. d.epoch = e /\ d.tokens = st.pool.seat[i].tokens
        BY <1>5, <1>7, <1>24, <3>1 DEF DeviceAgrees, HotExact
      <4> QED BY <1>7, <1>15, <1>21, <3>1, <4>1
    <3>2. CASE ~offer.warm
      <4>1. row.epoch = e + 1 /\ e \in Nat
        BY <1>15, <1>16, <1>21, <3>2
      <4> HIDE DEF d, e
      <4>2. d.epoch # row.epoch
        BY <2>1, <4>1
      <4> QED BY <1>7, <3>2, <4>2
    <3> QED BY <3>1, <3>2
  <2>3. row.epoch = key.epoch /\ row.limit = remaining
    BY <1>20, <1>21
  <2> HIDE DEF d, e
  <2>4. Exact(f, key, Prepared(d, row))
    BY <1>6, <1>7, <1>11, <1>21, <1>22, <2>1, <2>2, <2>3, FirstExact
  <2> QED BY <2>4 DEF d
<1>26. req'[r] = q /\ \A x \in Request \ {r} : req'[x] = req[x]
  BY <1>3, <1>6
<1>27. st' \in State
  BY AdmitKeeps DEF Inv, Typed
<1>28. Seating(st, st', r, i, epoch, f)
  <2>1. st'.pool = pool /\ st'.pending = st.pending /\ st'.frontiers = frontiers
    BY <1>3, <1>6 DEF State
  <2> DEFINE after == st'
  <2>2. after.pool = pool /\ after.pending = st.pending /\ after.frontiers = frontiers
    BY <2>1
  <2> HIDE DEF after
  <2>3. Seating(st, after, r, i, epoch, f)
    BY <1>5, <1>14, <1>18, <2>2 DEF Seating
  <2> QED BY <2>3 DEF after
<1> DEFINE s == st'
           counts == req'
<1>29. DeviceAgrees(s, device, frames, Put(attempt.rows, r, row), counts)
  <2>1. s \in State /\ Seating(st, s, r, i, epoch, f)
    BY <1>27, <1>28
  <2>2. counts[r] = q /\ \A x \in Request \ {r} : counts[x] = req[x]
    BY <1>26
  <2> HIDE DEF s, counts
  <2>3. Ends(b, f, key, counts[r]) /\ Leads(f, Place(f), b, row)
    BY <1>22, <1>23, <2>2
  <2>4. epoch >= st.pool.seat[i].epoch
    BY <1>15, <1>16
  <2>5. st \in State /\ i \in Seats /\ frames \in Seq(Range(frames))
    BY <1>5, <1>6
  <2>6. key = [rid |-> r, seat |-> i, epoch |-> epoch]
    BY <1>18
  <2>7. /\ PendingKept(st) /\ NoneDue(st) /\ RowsKept(st, frames)
        /\ r \notin Holders(st.pool) /\ r \notin DOMAIN attempt.rows
    BY <1>12, <1>13, Zenon
  <2>8. row.seat = i /\ row.epoch = epoch /\ row.limit # NoLimit
    BY <1>21, Zenon
  <2>9. Fronted(f) /\ Place(f) \in Int
    BY <1>22, Zenon
  <2> QED BY <1>24, <1>25, <2>1, <2>2, <2>3, <2>4, <2>5, <2>6, <2>7, <2>8, <2>9,
             SeatingAgrees
<1> HIDE DEF rows, next, left
<1>30. attempt'.rows = rows
  BY <1>1, <1>3 DEF Typed
<1>31. DeviceAgrees(s, device, frames, rows, counts)
  BY <1>29 DEF rows
<1> QED BY <1>3, <1>30, <1>31 DEF AgreesInv

\* What a request keeps of a sample fits its limit.
LEMMA KeptFits ==
  ASSUME Typed, NEW r \in Request, NEW sampled \in Seq(Token),
         Len(req[r].out) < MaxTokens[r]
  PROVE  /\ Len(req[r].out \o Kept(r, sampled)) \in Nat
         /\ Len(req[r].out \o Kept(r, sampled)) <= MaxTokens[r]
         /\ MaxTokens[r] \in Nat
<1> DEFINE a == Len(req[r].out)
           z == MaxTokens[r]
           limit == z - a
           n == Len(sampled)
           many == Min({n, limit})
           room == SubSeq(sampled, 1, many)
           stops == {i \in DOMAIN room : room[i] = Stop}
           kept == Kept(r, sampled)
<1>1. n \in Nat
  BY LenProperties
<1>2. a \in Nat /\ z \in Nat /\ a < z
  BY EngineAssumption, TokensType, LenProperties
<1>3. kept = IF stops = {} THEN room ELSE SubSeq(room, 1, Min(stops))
  BY DEF Kept
<1>4. kept \in Seq(Token) /\ req[r].out \in Seq(Token)
  BY KeptType, TokensType
<1> HIDE DEF a, z, kept
<1>5. limit \in Nat
  BY <1>2
<1> HIDE DEF limit
<1>6. many \in Int /\ many <= n /\ many <= limit
  <2> HIDE DEF n
  <2>1. many = IF n <= limit THEN n ELSE limit
    BY <1>1, <1>5, MinOfTwo
  <2> HIDE DEF many
  <2> QED BY <1>1, <1>5, <2>1
<1> HIDE DEF many
<1>7. room \in Seq(Token)
  BY <1>6, PrefixType
<1>8. Len(room) \in Nat /\ Len(room) <= limit
  <2>1. CASE many >= 1
    <3>1. Len(room) = many
      BY <1>1, <1>6, <2>1, SubSeqProperties
    <3> QED BY <1>5, <1>6, <2>1, <3>1
  <2>2. CASE ~(many >= 1)
    <3>1. room = <<>>
      BY <1>6, <2>2, SubSeqProperties
    <3>2. Len(room) = 0
      BY <1>7, <3>1, EmptySeq, Zenon
    <3> HIDE DEF n, room
    <3> QED BY <1>5, <3>2
  <2> QED BY <2>1, <2>2, Zenon
<1>9. DOMAIN room = 1 .. Len(room)
  BY <1>7, LenProperties
<1> HIDE DEF room
<1>10. Len(kept) \in Nat /\ Len(kept) <= limit
  <2>1. CASE stops = {}
    BY <1>3, <1>8, <2>1
  <2>2. CASE stops # {}
    <3>1. stops \in SUBSET Nat /\ \A i \in stops : i \in Nat /\ i >= 1 /\ i <= Len(room)
      BY <1>8, <1>9
    <3> DEFINE k == Min(stops)
    <3>2. k \in stops
      <4> HIDE DEF stops
      <4> QED BY <2>2, <3>1, LeastOf
    <3> HIDE DEF stops, k
    <3>3. k \in Nat /\ k >= 1 /\ k <= Len(room)
      BY <3>1, <3>2
    <3>4. Len(SubSeq(room, 1, k)) = k
      BY <1>7, <3>3, SubSeqProperties
    <3>5. kept = SubSeq(room, 1, k)
      BY <1>3, <2>2, Zenon DEF k
    <3> QED BY <1>5, <1>8, <3>3, <3>4, <3>5
  <2> QED BY <2>1, <2>2
<1> DEFINE b == Len(kept)
           e == Len(req[r].out \o kept)
<1>11. e = a + b
  BY <1>4, ConcatProperties DEF a
<1>12. b \in Nat /\ b <= z - a
  BY <1>10 DEF limit
<1> HIDE DEF b, e
<1>13. e \in Nat /\ e <= z /\ z \in Nat
  BY <1>2, <1>11, <1>12
<1> QED BY <1>13 DEF e, kept, z

\* A result ends the request that reaches its limit.
LEMMA AfterUnended ==
  ASSUME Typed, NEW r \in Request, NEW row, NEW sampled \in Seq(Token),
         req[r].status \in {"waiting", "running"}, Unended(req[r], r)
  PROVE  Unended(After(req[r], r, row, sampled), r)
<1> DEFINE q == req[r]
           out == q.out \o Kept(r, sampled)
           rejected == 1 + row.drafts - Len(sampled)
           status == CASE Last(out) = Stop -> "stopped"
                       [] Last(out) # Stop /\ Len(out) = MaxTokens[r] -> "capped"
                       [] OTHER -> q.status
           c == q.computed - rejected
           p == q.placeholders - rejected - Len(Kept(r, sampled))
           next == After(q, r, row, sampled)
<1>1. next = IF q.status = "waiting" THEN [q EXCEPT !.out = out, !.status = status]
             ELSE [q EXCEPT !.out = out, !.status = status, !.computed = c,
                            !.placeholders = p]
  BY DEF After
<1>2. q \in RequestState
  BY TypedFacts
<1>3. Len(out) \in Nat /\ Len(out) <= MaxTokens[r] /\ MaxTokens[r] \in Nat
  <2>1. Len(q.out) < MaxTokens[r]
    BY DEF Unended
  <2> QED BY <2>1, KeptFits
<1>4. next.drafting = q.drafting
  BY AfterAnswers
<1>5. /\ status \in {q.status, "stopped", "capped"}
      /\ status = q.status /\ q.status \in {"waiting", "running"} => Len(out) # MaxTokens[r]
  <2> HIDE DEF out, q
  <2> QED OBVIOUS
<1> HIDE DEF q, out, status, c, p, next
<1>6. next.out = out /\ next.status = status
  <2>1. CASE q.status = "waiting"
    <3>1. next = [q EXCEPT !.out = out, !.status = status]
      BY <1>1, <2>1
    <3> QED BY <1>2, <3>1 DEF RequestState
  <2>2. CASE q.status # "waiting"
    <3>1. next = [q EXCEPT !.out = out, !.status = status, !.computed = c,
                           !.placeholders = p]
      BY <1>1, <2>2
    <3> QED BY <1>2, <3>1 DEF RequestState
  <2> QED BY <2>1, <2>2
<1>7. q.status \in {"waiting", "running"} /\ Unended(q, r)
  BY DEF q
<1>8. next.status \in {"absent", "waiting", "running"} => next.status = q.status
  BY <1>5, <1>6, <1>7
<1>9. next.status \in {"absent", "waiting"} => ~next.drafting
  BY <1>4, <1>7, <1>8 DEF Unended
<1>10. next.status \in {"absent", "waiting", "running"} => Len(next.out) < MaxTokens[r]
  <2> SUFFICES ASSUME next.status = q.status
               PROVE  Len(out) < MaxTokens[r]
    BY <1>6, <1>8
  <2>1. Len(out) # MaxTokens[r]
    BY <1>5, <1>6, <1>7
  <2> QED BY <1>3, <2>1
<1> QED BY <1>9, <1>10 DEF Unended, next, q

\* A warm offer's checkpoint is compared with its lookahead.
LEMMA OfferedWarm ==
  ASSUME NEW pool \in Pool, NEW tokens, NEW salt, NEW allow_hit, NEW o,
         o = Offer(pool, tokens, salt, allow_hit), o # NoOffer, o.warm
  PROVE  IsPrefix(pool.seat[o.seat].tokens, tokens)
<1> DEFINE hits == IF allow_hit THEN Hits(pool, tokens, salt) ELSE {}
           free == Available(pool)
           l == Longest(pool, hits)
           c == Coldest(pool, free)
<1>1. o = CASE hits # {} -> Offered(pool, l, TRUE)
            [] hits = {} /\ free # {} -> Offered(pool, c, FALSE)
            [] OTHER -> NoOffer
  BY DEF Offer
<1>2. hits \in SUBSET Seats /\ \A s \in hits : IsPrefix(pool.seat[s].tokens, tokens)
  BY DEF Hits, Available
<1>3. hits # {} => l \in hits
  <2> HIDE DEF hits
  <2> QED BY <1>2, LongestIn
<1>4. Offered(pool, l, TRUE).seat = l /\ Offered(pool, c, FALSE).warm = FALSE
  BY DEF Offered
<1> HIDE DEF hits, free, l, c
<1>5. hits # {}
  BY <1>1, <1>4
<1>6. o.seat = l
  BY <1>1, <1>4, <1>5
<1> QED BY <1>2, <1>3, <1>5, <1>6

LEMMA InitRequests ==
  ASSUME Init
  PROVE  RequestsInv /\ OfferInv
<1>1. ASSUME NEW r \in Request
      PROVE  Unended(req[r], r)
  <2>1. req[r].status = "absent" /\ req[r].drafting = FALSE /\ req[r].out = <<>>
    BY DEF Init, NewRequest
  <2>2. Len(req[r].out) = 0 /\ MaxTokens[r] \in Nat /\ MaxTokens[r] # 0
    BY <2>1, EngineAssumption, EmptySeq
  <2>3. Len(req[r].out) < MaxTokens[r]
    BY <2>2
  <2> QED BY <2>1, <2>3 DEF Unended
<1>2. attempt.phase = "idle"
  BY DEF Init, Resting
<1> QED BY <1>1, <1>2 DEF RequestsInv, OfferInv

\* One request changes.
LEMMA RequestChanges ==
  ASSUME Typed, RequestsInv, NEW r \in Request, NEW q, req' = [req EXCEPT ![r] = q],
         Unended(q, r)
  PROVE  RequestsInv'
<1>1. \A x \in Request : req'[x] = IF x = r THEN q ELSE req[x]
  BY TypedFacts
<1>2. ASSUME NEW x \in Request
      PROVE  Unended(req'[x], x)
  BY <1>1 DEF RequestsInv
<1> QED BY <1>2 DEF RequestsInv

\* The request that a row is scheduled for.
LEMMA ScheduledUnended ==
  ASSUME NEW q \in RequestState, q.status = "running", NEW r, Unended(q, r),
         NEW computed, NEW row
  PROVE  Unended(Scheduled(q, computed, row), r)
<1> DEFINE c == computed + row.query
           p == q.placeholders + (IF row.sampling THEN 1 + row.drafts ELSE 0)
           d == q.drafting \/ row.sampling
           l == <<row.seat, row.epoch>>
<1>1. Scheduled(q, computed, row) =
        [q EXCEPT !.computed = c, !.placeholders = p, !.drafting = d, !.lease = l]
  BY DEF Scheduled
<1> HIDE DEF c, p, d, l
<1>2. Scheduled(q, computed, row).status = "running"
      /\ Scheduled(q, computed, row).out = q.out
  BY <1>1 DEF RequestState
<1> QED BY <1>2 DEF Unended

LEMMA NextRequests ==
  ASSUME Inv, RequestsInv, [Next]_vars
  PROVE  RequestsInv'
<1>1. Typed /\ Placed /\ AttemptKept /\ req \in [Request -> RequestState]
      /\ running \in Seq(Request) /\ waiting \in Seq(Request)
  BY TypedFacts DEF Inv
<1>2. UNCHANGED req => RequestsInv'
  BY DEF RequestsInv
<1>3. ASSUME NEW r \in Request, Arrive(r)
      PROVE  RequestsInv'
  <2> DEFINE q == [req[r] EXCEPT !.status = "waiting"]
  <2>1. req' = [req EXCEPT ![r] = q] /\ req[r].status = "absent"
    BY <1>3 DEF Arrive
  <2>2. q.status = "waiting" /\ q.drafting = req[r].drafting /\ q.out = req[r].out
    BY <1>1 DEF RequestState
  <2>3. Unended(req[r], r)
    BY DEF RequestsInv
  <2> HIDE DEF q
  <2>4. Unended(q, r)
    BY <2>1, <2>2, <2>3 DEF Unended
  <2> QED BY <1>1, <2>1, <2>4, RequestChanges
<1>4. ASSUME NEW r \in Request, Abort(r)
      PROVE  RequestsInv'
  <2> DEFINE q == [req[r] EXCEPT !.status = "aborted"]
  <2>1. req' = [req EXCEPT ![r] = q]
    BY <1>4 DEF Abort
  <2>2. q.status = "aborted"
    BY <1>1 DEF RequestState
  <2> HIDE DEF q
  <2>3. Unended(q, r)
    BY <2>2 DEF Unended
  <2> QED BY <1>1, <2>1, <2>3, RequestChanges
<1>5. ASSUME ScheduleRunning
      PROVE  RequestsInv'
  <2> DEFINE r == Served
  <2>1. PICK row : req' = [req EXCEPT ![r] = Scheduled(req[r], req[r].computed, row)]
    BY <1>5, Zenon DEF ScheduleRunning
  <2>2. r \in Range(running) /\ r \in Request
    <3>1. Serving
      BY <1>5 DEF ScheduleRunning
    <3> DEFINE p == Min(ToServe)
    <3>2. /\ p \in attempt.next .. Len(running) /\ r = running[p] /\ attempt.next \in Nat
          /\ attempt.next >= 1 /\ Len(running) \in Nat /\ DOMAIN running = 1 .. Len(running)
      BY <1>1, <3>1, ServedOne, TypedFacts DEF AttemptKept
    <3> HIDE DEF r, p
    <3>3. r \in Range(running) /\ Range(running) \subseteq Request
      BY <1>1, <3>2, RangeOfSeq DEF Range
    <3> QED BY <3>3
  <2> HIDE DEF r
  <2>3. req[r] \in RequestState /\ req[r].status = "running" /\ Unended(req[r], r)
    BY <1>1, <2>2 DEF Placed, RequestsInv
  <2> DEFINE q == Scheduled(req[r], req[r].computed, row)
  <2>4. Unended(q, r)
    BY <2>3, ScheduledUnended
  <2> HIDE DEF q
  <2>5. req' = [req EXCEPT ![r] = q]
    BY <2>1 DEF q
  <2> QED BY <1>1, <2>2, <2>4, <2>5, RequestChanges
<1>6. ASSUME PreemptLast
      PROVE  RequestsInv'
  <2> DEFINE r == Last(running)
             q == [req[r] EXCEPT !.status = "waiting", !.computed = 0,
                                 !.placeholders = 0, !.drafting = FALSE]
  <2>1. req' = [req EXCEPT ![r] = q] /\ Serving
    BY <1>6 DEF PreemptLast
  <2>2. r \in Range(running) /\ r \in Request
    <3> DEFINE p == Min(ToServe)
               n == Len(running)
    <3>1. p \in attempt.next .. n /\ attempt.next >= 1 /\ attempt.next \in Nat /\ n \in Nat
      BY <1>1, <2>1, ServedOne, TypedFacts DEF AttemptKept
    <3> HIDE DEF p
    <3>2. running # <<>>
      <4>1. n # 0
        BY <3>1
      <4> QED BY <4>1, EmptySeq
    <3>3. /\ DOMAIN running = 1 .. n /\ n \in Nat \ {0}
          /\ r = running[n] /\ r \in Request
      BY <1>1, <3>2, FrontList
    <3> HIDE DEF r, n
    <3> QED BY <3>3 DEF Range
  <2> HIDE DEF r
  <2>3. req[r] \in RequestState /\ req[r].status = "running" /\ Unended(req[r], r)
    BY <1>1, <2>2 DEF Placed, RequestsInv
  <2>4. q.out = req[r].out /\ q.drafting = FALSE
    BY <2>3 DEF RequestState
  <2> HIDE DEF q
  <2>5. Unended(q, r)
    BY <2>3, <2>4 DEF Unended
  <2> QED BY <1>1, <2>1, <2>2, <2>5, RequestChanges
<1>7. ASSUME Admit
      PROVE  RequestsInv'
  <2> DEFINE r == Candidate
             a == [req[r] EXCEPT !.status = "running"]
  <2>1. PICK c, row : req' = [req EXCEPT ![r] = Scheduled(a, c, row)]
    BY <1>7, Zenon DEF Admit
  <2>2. r \in Range(waiting) /\ r \in Request
    <3>1. Queued # <<>>
      BY <1>1, <1>7, Zenon DEF Admit, AttemptKept
    <3> QED BY <1>1, <3>1, CandidateIs
  <2> HIDE DEF r
  <2>3. req[r] \in RequestState /\ req[r].status = "waiting" /\ Unended(req[r], r)
    BY <1>1, <2>2 DEF Placed, RequestsInv
  <2>4. a \in RequestState /\ a.status = "running" /\ a.out = req[r].out
    BY <2>3 DEF RequestState, Statuses
  <2> HIDE DEF a
  <2>5. Unended(a, r)
    BY <2>3, <2>4 DEF Unended
  <2> DEFINE q == Scheduled(a, c, row)
  <2>6. Unended(q, r)
    BY <2>4, <2>5, ScheduledUnended
  <2> HIDE DEF q
  <2>7. req' = [req EXCEPT ![r] = q]
    BY <2>1 DEF q
  <2> QED BY <1>1, <2>2, <2>6, <2>7, RequestChanges
<1>8. ASSUME UpdateFromOutput
      PROVE  RequestsInv'
  <2> DEFINE frame == Head(frames)
  <2>1. PICK sampled :
          /\ \A r \in DOMAIN frame : sampled[r] \in Samples(frame[r])
          /\ req' = [r \in Request |-> IF r \in DOMAIN frame /\ Takes(r, frame[r])
                                       THEN After(req[r], r, frame[r], sampled[r]) ELSE req[r]]
    BY <1>8, Zenon DEF UpdateFromOutput
  <2>2. FrameOK(frame)
    <3>1. frames # <<>>
      BY <1>8, Zenon DEF UpdateFromOutput
    <3>2. frames \in Seq(Range(frames)) /\ Rowed(frames)
      BY <1>1, TypedFacts
    <3>3. Len(frames) \in Nat /\ Len(frames) # 0 /\ DOMAIN frames = 1 .. Len(frames)
      BY <3>1, <3>2, LenProperties, EmptySeq
    <3>4. frame = frames[1] /\ 1 \in DOMAIN frames
      BY <3>1, <3>2, <3>3, HeadTailProperties
    <3> QED BY <3>2, <3>4 DEF Rowed
  <2> HIDE DEF frame
  <2>3. ASSUME NEW r \in Request
        PROVE  Unended(req'[r], r)
    <3>1. Unended(req[r], r)
      BY DEF RequestsInv
    <3>2. CASE r \in DOMAIN frame /\ Takes(r, frame[r])
      <4>1. sampled[r] \in Seq(Token)
        BY <2>1, <2>2, <3>2, SamplesType DEF FrameOK
      <4>2. req[r].status \in {"waiting", "running"}
        BY <3>2 DEF Takes
      <4>3. Unended(After(req[r], r, frame[r], sampled[r]), r)
        BY <1>1, <3>1, <4>1, <4>2, AfterUnended
      <4> QED BY <2>1, <3>2, <4>3
    <3>3. CASE ~(r \in DOMAIN frame /\ Takes(r, frame[r]))
      BY <2>1, <3>1, <3>3
    <3> QED BY <3>2, <3>3
  <2> QED BY <2>3 DEF RequestsInv
<1>9. ResetPrefixCache \/ BeginSchedule \/ EvictForRunning \/ EvictForWaiting => UNCHANGED req
  BY Zenon DEF ResetPrefixCache, BeginSchedule, EvictForRunning, EvictForWaiting
<1>10. ConsiderWaiting \/ RejectWaiting \/ EndSchedule \/ UNCHANGED vars => UNCHANGED req
  BY DEF ConsiderWaiting, RejectWaiting, EndSchedule, QueueFrame, vars
<1> QED BY <1>2, <1>3, <1>4, <1>5, <1>6, <1>7, <1>8, <1>9, <1>10 DEF Next, Attempt

\* An offer is made from what the seats keep.
LEMMA ConsiderWaitingOffers ==
  ASSUME Inv, ConsiderWaiting
  PROVE  OfferInv'
<1>1. Typed /\ Queued # <<>> /\ Candidate \in Request
  BY CandidateIs DEF Inv, ConsiderWaiting, Admitting
<1> SUFFICES ASSUME NEW r \in Request, r = Candidate
             PROVE  OfferInv'
  BY <1>1
<1> DEFINE offer == OfferFor(r)
           i == offer.seat
           pool == IF offer.warm THEN st.pool ELSE Discard(st.pool, offer)
           ref == IF offer.warm THEN st.ref ELSE Unpinned(st.ref, st.pool.seat[i].blocks)
           new == [offer EXCEPT !.epoch = pool.seat[i].epoch]
           offers == [st.offers EXCEPT ![r] = new]
           tokens == AllTokens(r)
<1>2. /\ offer # NoOffer
      /\ st' = [st EXCEPT !.pool = pool, !.ref = ref, !.offers = offers]
      /\ attempt' = [attempt EXCEPT !.phase = "allocate"]
      /\ UNCHANGED <<req, waiting>>
  BY DEF ConsiderWaiting, Admitting
<1>3. /\ st \in State /\ st.pool \in Pool /\ tokens \in Seq(Token)
      /\ st.offers \in [Request -> OfferState \cup {NoOffer}]
  BY <1>1, TypedFacts, StateFacts, TokensType
<1>4. offer \in OfferState
  BY <1>2, <1>3, OfferedGood DEF OfferFor, OfferGood
<1>5. offer.warm => IsPrefix(st.pool.seat[i].tokens, tokens)
  BY <1>2, <1>3, OfferedWarm DEF OfferFor
<1>6. Candidate' = r /\ AllTokens(r)' = tokens
  <2>1. attempt'.grants = attempt.grants
    BY <1>1, <1>2 DEF Typed
  <2>2. Queued' = Queued
    BY <1>2, <2>1 DEF Queued, Granted
  <2> QED BY <1>2, <2>2 DEF Candidate, AllTokens
<1> HIDE DEF offer
<1>7. new.seat = i /\ new.warm = offer.warm
  BY <1>4 DEF OfferState
<1>8. offer.warm => pool = st.pool
  OBVIOUS
<1> HIDE DEF pool, ref, new
<1>9. offers[r] = new
  BY <1>3
<1> HIDE DEF offers
<1>10. st'.pool = pool /\ st'.offers = offers
  BY <1>2, <1>3 DEF State
<1>11. st'.offers[r].seat = i /\ st'.offers[r].warm = offer.warm
  BY <1>7, <1>9, <1>10
<1>12. offer.warm => IsPrefix(st'.pool.seat[st'.offers[r].seat].tokens, tokens)
  BY <1>5, <1>8, <1>10, <1>11
<1> QED BY <1>6, <1>11, <1>12 DEF OfferInv

\* The seat on offer is not evicted.
LEMMA EvictForWaitingOffers ==
  ASSUME Inv, OfferInv, EvictForWaiting
  PROVE  OfferInv'
<1>1. Typed /\ attempt.phase = "allocate" /\ Queued # <<>> /\ OfferKept(Candidate)
  BY DEF Inv, EvictForWaiting, AttemptKept
<1>2. Candidate \in Request
  BY <1>1, CandidateIs
<1> SUFFICES ASSUME NEW r \in Request, r = Candidate
             PROVE  OfferInv'
  BY <1>2
<1> DEFINE offer == st.offers[r]
<1>3. EvictHot({offer.seat}) /\ UNCHANGED <<req, waiting, attempt>>
  BY DEF EvictForWaiting
<1>4. offer.seat \in Seats
  BY <1>1 DEF OfferKept, OfferGood, OfferState
<1>5. st'.offers = st.offers /\ st'.pool.seat[offer.seat] = st.pool.seat[offer.seat]
  BY <1>3, <1>4, EvictHotFields
<1>6. Candidate' = r /\ AllTokens(r)' = AllTokens(r)
  <2>1. Queued' = Queued
    BY <1>3 DEF Queued, Granted
  <2> QED BY <1>3, <2>1 DEF Candidate, AllTokens
<1>7. offer.warm => IsPrefix(st.pool.seat[offer.seat].tokens, AllTokens(r))
  BY <1>1 DEF OfferInv
<1>8. st'.offers[r].warm =>
        IsPrefix(st'.pool.seat[st'.offers[r].seat].tokens, AllTokens(r)')
  BY <1>5, <1>6, <1>7
<1> QED BY <1>6, <1>8 DEF OfferInv

LEMMA NextOffers ==
  ASSUME Inv, OfferInv, [Next]_vars
  PROVE  OfferInv'
<1>1. attempt'.phase # "allocate" => OfferInv'
  BY DEF OfferInv
<1>2. Typed /\ attempt \in [phase : Phases, next : Nat, rows : {attempt.rows}, left : Int,
                            grants : Partial(Request, Int), preempted : BOOLEAN]
  BY DEF Inv, Typed
<1>3. (\E r \in Request : Arrive(r) \/ Abort(r)) => attempt'.phase # "allocate"
  BY Zenon DEF Arrive, Abort, Idle
<1>4. ResetPrefixCache => attempt'.phase # "allocate"
  BY DEF ResetPrefixCache, Idle
<1>5. BeginSchedule => attempt'.phase # "allocate"
  BY DEF BeginSchedule
<1>6. ScheduleRunning => attempt'.phase # "allocate"
  <2> SUFFICES ASSUME ScheduleRunning
               PROVE  attempt'.phase # "allocate"
    OBVIOUS
  <2>1. PICK next, left, rows : attempt' = [attempt EXCEPT !.next = next, !.left = left,
                                                          !.rows = rows]
    BY Zenon DEF ScheduleRunning
  <2>2. attempt.phase = "schedule"
    BY DEF ScheduleRunning, Serving
  <2> QED BY <1>2, <2>1, <2>2
<1>7. PreemptLast => attempt'.phase # "allocate"
  <2> SUFFICES ASSUME PreemptLast
               PROVE  attempt'.phase # "allocate"
    OBVIOUS
  <2>1. attempt' = [attempt EXCEPT !.preempted = TRUE] /\ attempt.phase = "schedule"
    BY DEF PreemptLast, Serving
  <2> QED BY <1>2, <2>1
<1>8. EvictForRunning => attempt'.phase # "allocate"
  BY DEF EvictForRunning, Serving
<1>9. Admit => attempt'.phase # "allocate"
  <2> SUFFICES ASSUME Admit
               PROVE  attempt'.phase # "allocate"
    OBVIOUS
  <2>1. PICK next, left, rows : attempt' = [attempt EXCEPT !.phase = "schedule", !.next = next,
                                                           !.left = left, !.rows = rows]
    BY Zenon DEF Admit
  <2> QED BY <1>2, <2>1
<1>10. QueueFrame => attempt'.phase # "allocate"
  BY DEF QueueFrame, Resting
<1>11. UpdateFromOutput => attempt'.phase # "allocate"
  <2> SUFFICES ASSUME UpdateFromOutput
               PROVE  attempt'.phase # "allocate"
    OBVIOUS
  <2>1. attempt' = Resting
    BY Zenon DEF UpdateFromOutput
  <2> QED BY <2>1 DEF Resting
<1>12. ConsiderWaiting => OfferInv'
  BY ConsiderWaitingOffers
<1>13. EvictForWaiting => OfferInv'
  BY EvictForWaitingOffers
<1>14. UNCHANGED vars => OfferInv'
  <2> SUFFICES ASSUME UNCHANGED <<st, req, waiting, attempt>>
               PROVE  OfferInv'
    BY DEF vars
  <2>1. Queued' = Queued
    BY DEF Queued, Granted
  <2> QED BY <2>1 DEF OfferInv, Candidate, AllTokens
<1> QED BY <1>1, <1>3, <1>4, <1>5, <1>6, <1>7, <1>8, <1>9, <1>10, <1>11, <1>12, <1>13, <1>14
        DEF Next, Attempt, RejectWaiting, EndSchedule

-----------------------------------------------------------------------------
\* A hot checkpoint is exact.

\* The inductive invariant of CheckpointExact, next to Inv, PagesInv and CountsInv.
DeviceInv == AgreesInv /\ RequestsInv /\ OfferInv

LEMMA InitDevice ==
  ASSUME Init
  PROVE  DeviceInv
  BY InitAgrees, InitRequests DEF DeviceInv

LEMMA RestAgrees ==
  ASSUME AgreesInv, UNCHANGED vars
  PROVE  AgreesInv'
<1>1. UNCHANGED <<st, req, device, frames, attempt>>
  BY DEF vars
<1> QED BY <1>1 DEF AgreesInv

LEMMA NextDevice ==
  ASSUME Inv, PagesInv, CountsInv, DeviceInv, SamplesVerified, [Next]_vars
  PROVE  DeviceInv'
<1>1. AgreesInv /\ RequestsInv /\ OfferInv
  BY DEF DeviceInv
<1>2. RequestsInv' /\ OfferInv'
  BY <1>1, NextRequests, NextOffers
<1>3. ASSUME NEW r \in Request, Arrive(r) \/ Abort(r)
      PROVE  AgreesInv'
  BY <1>1, <1>3, ArriveAgrees, AbortAgrees
<1>4. ResetPrefixCache => AgreesInv'
  BY <1>1, ResetPrefixCacheAgrees
<1>5. BeginSchedule => AgreesInv'
  BY <1>1, BeginScheduleAgrees
<1>6. ScheduleRunning => AgreesInv'
  BY <1>1, ScheduleRunningAgrees
<1>7. EvictForRunning => AgreesInv'
  BY <1>1, EvictHotAgrees DEF EvictForRunning
<1>8. PreemptLast => AgreesInv'
  BY <1>1, PreemptLastAgrees
<1>9. ConsiderWaiting => AgreesInv'
  BY <1>1, ConsiderWaitingAgrees
<1>10. Admit => AgreesInv'
  BY <1>1, AdmitAgrees
<1>11. EvictForWaiting => AgreesInv'
  BY <1>1, EvictHotAgrees DEF EvictForWaiting
<1>12. QueueFrame => AgreesInv'
  BY <1>1, QueueFrameAgrees
<1>13. UpdateFromOutput => AgreesInv'
  BY <1>1, UpdateFromOutputAgrees
<1>14. UNCHANGED vars => AgreesInv'
  BY <1>1, RestAgrees
<1>15. AgreesInv'
  BY <1>3, <1>4, <1>5, <1>6, <1>7, <1>8, <1>9, <1>10, <1>11, <1>12, <1>13, <1>14
     DEF Next, Attempt, RejectWaiting, EndSchedule
<1> QED BY <1>2, <1>15 DEF DeviceInv

\* A frontier that is followed is where the device is.
LEMMA TrackedExact ==
  ASSUME NEW f \in FrontierState, f.known, f.cursor > 0,
         NEW k, NEW L, NEW n, NEW q, NEW d, Shaped(d), NEW live,
         Tracked(f, k, L, n, q, d, live)
  PROVE  d.epoch = k.epoch /\ d.tokens = Checkpoint(f)
<1> DEFINE c == f.cursor
           held == SubSeq(f.tokens, 1, c + 1)
<1>1. Ready(f, k, L, d)
  BY DEF Tracked
<1>2. Checkpoint(f) = held
  BY DEF Checkpoint
<1>3. held # <<>>
  <2>1. f.tokens \in Seq(Token) /\ c \in Int /\ c > 0 /\ c < Len(f.tokens)
    BY FrontierFacts DEF FrontierState
  <2>2. c + 1 \in Nat \ {0} /\ c + 1 <= Len(f.tokens)
    <3> DEFINE m == Len(f.tokens)
    <3>1. m \in Nat
      BY <2>1, LenProperties
    <3> HIDE DEF m, c
    <3> QED BY <2>1, <3>1 DEF m
  <2> DEFINE e == c + 1
  <2>3. e \in Nat \ {0} /\ e <= Len(f.tokens)
    BY <2>2
  <2> HIDE DEF e
  <2>4. Len(SubSeq(f.tokens, 1, e)) = e
    BY <2>1, <2>3, SubSeqProperties
  <2>5. Len(held) = e
    BY <2>4 DEF e
  <2> HIDE DEF held
  <2>6. Len(held) # 0
    BY <2>3, <2>5
  <2> QED BY <2>6, EmptySeq
<1> HIDE DEF held, c
<1>4. \A x : Exact(f, k, x) => x.epoch = k.epoch /\ x.tokens = held
  BY DEF Exact, held, c
<1>5. CASE \A i \in DOMAIN L : L[i].limit = NoLimit
  <2>1. Exact(f, k, d)
    BY <1>1, <1>5 DEF Ready
  <2> QED BY <1>2, <1>4, <2>1
<1>6. CASE ~(\A i \in DOMAIN L : L[i].limit = NoLimit)
  <2>1. PICK i \in DOMAIN L : L[i].limit # NoLimit
    BY <1>6
  <2> DEFINE row == L[i]
             p == Prepared(d, row)
  <2>2. Exact(f, k, p)
    BY <1>1, <2>1 DEF Ready
  <2>3. p.epoch = row.epoch /\ p.tokens = IF d.epoch = row.epoch THEN d.tokens ELSE <<>>
    BY DEF Prepared, Shaped
  <2> HIDE DEF row, p
  <2>4. p.epoch = k.epoch /\ p.tokens = held
    BY <1>4, <2>2
  <2>5. d.epoch = row.epoch
    BY <1>3, <2>3, <2>4
  <2> QED BY <1>2, <2>3, <2>4, <2>5
<1> QED BY <1>5, <1>6

LEMMA InvIsCheckpointExact ==
  ASSUME Inv, DeviceInv
  PROVE  CheckpointExact
<1>1. /\ LeasesTracked(st, device, frames, attempt.rows, req)
      /\ HotExact(st, device) /\ EpochsBelow(st, device) /\ st \in State
  BY TypedFacts DEF DeviceInv, AgreesInv, DeviceAgrees, Inv
<1>2. ASSUME NEW i \in Hot(st.pool)
      PROVE  device[i].epoch = st.pool.seat[i].epoch /\ device[i].tokens = st.pool.seat[i].tokens
  BY <1>1 DEF Hot, HotExact
<1>3. ASSUME NEW k \in DOMAIN st.frontiers, st.frontiers[k].known, st.frontiers[k].cursor > 0
      PROVE  device[k.seat].epoch = k.epoch
             /\ device[k.seat].tokens = Checkpoint(st.frontiers[k])
  <2> DEFINE f == st.frontiers[k]
             d == device[k.seat]
             L == Lane(k, frames, attempt.rows)
             n == Len(frames) + 1
             q == req[k.rid]
             live == st.pool.seat[k.seat].owner = k.rid
  <2>1. f \in FrontierState /\ k.seat \in Seats
    BY <1>1, FrontierKeys
  <2>2. Shaped(d)
    BY <1>1, <2>1 DEF EpochsBelow
  <2>3. Tracked(f, k, L, n, q, d, live)
    BY <1>1, <1>3 DEF LeasesTracked, LeaseTracked
  <2>4. f.known /\ f.cursor > 0
    BY <1>3
  <2> HIDE DEF f, d, L, n, q, live
  <2>5. d.epoch = k.epoch /\ d.tokens = Checkpoint(f)
    BY <2>1, <2>2, <2>3, <2>4, TrackedExact
  <2> QED BY <2>5 DEF d, f
<1> QED BY <1>2, <1>3 DEF CheckpointExact

\* A hot seat's checkpoint names exactly the tokens that the device holds for the
\* seat, in its epoch, and the known frontier of a seat's owner is where the device
\* is when no frame of the request is queued: whichever chunks, verify rows and warm
\* starts were queued, however many drafts each verify row accepted, and whatever
\* was aborted, preempted, evicted or claimed again in between.  A warm start then
\* continues the state that the checkpoint says it does.  The rows that follow a
\* sample must run as verify rows (SamplesVerified): in a frame that is no decode frame
\* the runner takes a decode without drafts for a prefill row.
THEOREM CheckpointsAreExact == Spec /\ []SamplesVerified => []CheckpointExact
<1>1. Init => PagesInv /\ CountsInv /\ DeviceInv
  BY InitPages, InitCounts, InitDevice
<1>2. Inv /\ PagesInv /\ CountsInv /\ DeviceInv /\ SamplesVerified /\ [Next]_vars
        => PagesInv' /\ CountsInv' /\ DeviceInv'
  BY NextPages, NextCounts, NextDevice
<1>3. Inv /\ DeviceInv => CheckpointExact
  BY InvIsCheckpointExact
<1> QED BY <1>1, <1>2, <1>3, InvHolds, PTL DEF Spec
=============================================================================

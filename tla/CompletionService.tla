------------------------- MODULE CompletionService -------------------------
(***************************************************************************)
(* What the serving host promises a client, whatever it caches, batches,   *)
(* speculates or preempts: the tokens streamed for a request are always a  *)
(* prefix of the one greedy answer to its prompt, they are never taken     *)
(* back, and a request that completes has streamed the whole answer.       *)
(***************************************************************************)
EXTENDS Integers, Sequences, SequencesExt

CONSTANTS
  Key,        \* request identities
  Question,   \* what a client may ask
  Answer(_)   \* the greedy answer to a question

VARIABLES
  asked,    \* the question of every key submitted so far
  status,   \* "absent", "pending", "done" or "cancelled", per key
  stream    \* the tokens streamed, per key

vars == <<asked, status, stream>>

Init ==
  /\ asked = <<>>
  /\ status = [k \in Key |-> "absent"]
  /\ stream = [k \in Key |-> <<>>]

Submit(k, q) ==
  /\ k = Len(asked) + 1
  /\ asked' = Append(asked, q)
  /\ status' = [status EXCEPT ![k] = "pending"]
  /\ UNCHANGED stream

\* Some more tokens of the answer.
Extend(k) ==
  /\ status[k] = "pending"
  /\ \E n \in Len(stream[k]) + 1 .. Len(Answer(asked[k])) :
       stream' = [stream EXCEPT ![k] = SubSeq(Answer(asked[k]), 1, n)]
  /\ UNCHANGED <<asked, status>>

\* The rest of the answer, and the end of the request.
Complete(k) ==
  /\ status[k] = "pending"
  /\ stream' = [stream EXCEPT ![k] = Answer(asked[k])]
  /\ status' = [status EXCEPT ![k] = "done"]
  /\ UNCHANGED asked

Cancel(K) ==
  /\ \A k \in K : status[k] = "pending"
  /\ status' = [k \in Key |-> IF k \in K THEN "cancelled" ELSE status[k]]
  /\ UNCHANGED <<asked, stream>>

Next ==
  \/ \E k \in Key : (\E q \in Question : Submit(k, q)) \/ Extend(k) \/ Complete(k)
  \/ \E K \in SUBSET Key : Cancel(K)

Spec == Init /\ [][Next]_vars

=============================================================================

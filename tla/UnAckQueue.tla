----------------------------- MODULE UnAckQueue -----------------------------
(***************************************************************************)
(* The queue of sent but not yet acknowledged stanzas                      *)
(* (stanza/stream_management.go, UnAckQueue.Uslice): a sequence of entries *)
(* [id, stz].  The operators are the methods of the type; the mutex is not *)
(* here, because Push, Pop and PopN do not take it: the modules that use   *)
(* the queue say which steps are atomic.                                   *)
(***************************************************************************)
EXTENDS Integers, Sequences, FiniteSets

Entry == [id : Nat, stz : Nat]

NewUnAckQueue == <<>>

(* Faulty variant: the last id again. *)
PushIdxRepeats(q) == IF q = <<>> THEN 1 ELSE q[Len(q)].id

(* Push numbers an entry one after the last of the queue, and from 1 again *)
(* when the queue is empty.                                                *)
PushIdx(q) == IF q = <<>> THEN 1 ELSE q[Len(q)].id + 1

(* Faulty variant: new entries go first. *)
PushFront(q, id, stz) == <<[id |-> id, stz |-> stz]>> \o q

(* The append of Push reads the slice again: id may come from another q.   *)
Push(q, id, stz) == Append(q, [id |-> id, stz |-> stz])

PeekN(q, n) == SubSeq(q, 1, IF n < Len(q) THEN n ELSE Len(q))

Peek(q) == PeekN(q, 1)

PopN(q, n) == SubSeq(q, Len(PeekN(q, n)) + 1, Len(q))

Pop(q) == PopN(q, 1)

Empty(q) == Len(q) = 0

(* The loop of SendMissingStz and of Session.resume stops at the first id  *)
(* above h: how many entries come before it.                               *)
AckIdx(q, h) == Cardinality({i \in 1 .. Len(q) : \A j \in 1 .. i : q[j].id <= h})

(* Faulty variant: one entry too many. *)
TrimOneMore(q, h) == SubSeq(q, AckIdx(q, h) + 2, Len(q))

TrimAcked(q, h) == SubSeq(q, AckIdx(q, h) + 1, Len(q))

Stanzas(q) == {q[i].stz : i \in 1 .. Len(q)}

-----------------------------------------------------------------------------

(* What the numbering promises: each id is one more than the id before it. *)
Consecutive(q) == \A i \in 1 .. Len(q) : q[i].id = q[1].id + i - 1

=============================================================================

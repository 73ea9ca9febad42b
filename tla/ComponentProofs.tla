-------------------------- MODULE ComponentProofs --------------------------
(***************************************************************************)
(* Proofs about ComponentLifecycle for any number of transports, stanzas   *)
(* and calls.                                                              *)
(***************************************************************************)
EXTENDS ComponentLifecycle, FiniteSetTheorems, SequenceTheorems, TLAPS

Ats    == {"idle", "dial", "handshake", "reply", "read", "reading", "disconnect", "crashed"}
Frames == [kind : {"app", "own", "loop", "inResume", "recvError", "recvStreamError"}]
Threads == [at : Ats, tr : Nat, stack : Seq(Frames)]

(* The types of the variables, TypeOK included.                            *)
Values ==
  /\ handler \in Handlers /\ metrics \in BOOLEAN /\ run \in {"idle", "returned"}
  /\ transports \in Seq({"failed", "open", "closed", "gone"})
  /\ Len(transports) <= MaxDials /\ current \in 0 .. Len(transports)
  /\ state \in {"disconnected", "established", "streamError", "permanentError"}
  /\ history \in [quiet : BOOLEAN, refused : BOOLEAN, closed : BOOLEAN]

StateType == Values /\ threads \in [Goroutines -> Threads]

(* A stack of what waits for a Resume: each frame has the one it returns   *)
(* to below it, down to the application or to recv.                        *)
Waits(stack) ==
  /\ stack # <<>> /\ stack[1].kind \in {"app", "own", "loop"}
  /\ \A i \in 1 .. Len(stack) :
       /\ stack[i].kind = "own" =>
            i < Len(stack) /\ stack[i + 1].kind = "recvError"
       /\ stack[i].kind = "loop" =>
            i < Len(stack) /\ stack[i + 1].kind \in {"recvError", "recvStreamError", "inResume"}
       /\ stack[i].kind = "inResume" =>
            i < Len(stack) /\ stack[i + 1].kind \in {"app", "own", "loop"}

(* A goroutine has a stack while it connects, and only then.               *)
Stacked(t) ==
  /\ t.at \in {"dial", "handshake", "reply"} => Waits(t.stack)
  /\ t.at \in {"idle", "read", "reading", "disconnect"} => t.stack = <<>>

Stacks == \A g \in Goroutines : Stacked(threads[g])

Active(t) == t.at \in {"dial", "handshake", "reply", "read", "reading"}

(* Before anything interferes a Resume was called by the application or    *)
(* after a failed read, and nothing is left to disconnect.                 *)
Plain(t) ==
  /\ t.at # "disconnect"
  /\ t.at \in {"dial", "handshake", "reply"} /\ t.stack[1].kind # "app" =>
       t.stack[2].kind = "recvError"

(* A receiver was started by a handshake, and connects by another one.     *)
Counted(g) ==
  /\ Active(threads[g]) /\ g # App => Len(transports) >= 1
  /\ threads[g].at \in {"handshake", "reply"} =>
       Len(transports) >= IF g = App THEN 1 ELSE 2

Calm ==
  /\ \A g \in Goroutines : Plain(threads[g]) /\ Counted(g)
  /\ \A g, h \in Goroutines : Active(threads[g]) /\ Active(threads[h]) => g = h
  /\ history.refused => \A g \in Goroutines : ~Active(threads[g])

IInv ==
  /\ StateType /\ Stacks
  /\ history.quiet => Calm
  /\ EstablishedIsRead

-----------------------------------------------------------------------------
(* The stacks.                                                             *)

(* The frame below the top one.                                            *)
LEMMA Below ==
  ASSUME NEW s \in Seq(Frames), 1 < Len(s)
  PROVE  Tail(s) \in Seq(Frames) /\ Tail(s) # <<>> /\ Head(Tail(s)) = s[2]
<1> DEFINE u == Tail(s)
<1>1. s # <<>> /\ Len(s) \in Nat OBVIOUS
<1>2. u \in Seq(Frames) /\ Len(u) = Len(s) - 1 /\ u[1] = s[2] BY <1>1
<1> HIDE DEF u
<1>3. u # <<>> /\ Head(u) = u[1] BY <1>1, <1>2
<1>4. QED BY <1>2, <1>3 DEF u

(* What is below a nested Resume waits for it.                             *)
LEMMA OuterWaits ==
  ASSUME NEW s \in Seq(Frames), Waits(s), s[1].kind = "loop", s[2].kind = "inResume"
  PROVE  /\ Tail(Tail(s)) \in Seq(Frames) /\ Waits(Tail(Tail(s)))
         /\ Tail(Tail(s)) # <<>>
<1> DEFINE o == Tail(Tail(s))
<1>1. Len(s) \in Nat /\ Len(s) >= 3
  <2>1. Len(s) \in Nat /\ Len(s) >= 1 BY DEF Waits
  <2>2. 1 < Len(s) BY <2>1 DEF Waits
  <2>3. 2 \in 1 .. Len(s) BY <2>1, <2>2
  <2>4. 2 < Len(s) BY <2>3 DEF Waits
  <2>5. QED BY <2>1, <2>4
<1>2. /\ o \in Seq(Frames) /\ Len(o) = Len(s) - 2
      /\ \A i \in 1 .. Len(s) - 2 : o[i] = s[i + 2]
  <2> DEFINE u == Tail(s)
  <2>1. /\ u \in Seq(Frames) /\ Len(u) = Len(s) - 1
        /\ \A i \in 1 .. Len(s) - 1 : u[i] = s[i + 1]
    BY <1>1
  <2> HIDE DEF u
  <2>2. /\ Tail(u) \in Seq(Frames) /\ Len(Tail(u)) = Len(u) - 1
        /\ \A i \in 1 .. Len(u) - 1 : Tail(u)[i] = u[i + 1]
    BY <1>1, <2>1
  <2>3. \A i \in 1 .. Len(s) - 2 : i + 1 \in 1 .. Len(s) - 1 /\ (i + 1) + 1 = i + 2
    BY <1>1
  <2>4. /\ Tail(u) \in Seq(Frames) /\ Len(Tail(u)) = Len(s) - 2
        /\ \A i \in 1 .. Len(s) - 2 : Tail(u)[i] = s[i + 2]
    BY <1>1, <2>1, <2>2, <2>3
  <2>5. QED BY <2>4 DEF u
<1>3. 2 \in 1 .. Len(s) BY <1>1
<1>4. s[3].kind \in {"app", "own", "loop"} BY <1>3 DEF Waits
<1> HIDE DEF o
<1>5. \A i \in 1 .. Len(o) : i + 2 \in 1 .. Len(s) /\ o[i] = s[i + 2]
                            /\ (i < Len(o) => o[i + 1] = s[i + 3])
                            /\ (i + 2 < Len(s) => i < Len(o))
  BY <1>1, <1>2
<1>6. o # <<>> /\ o[1] = s[3]
  <2>1. Len(o) >= 1 BY <1>1, <1>2
  <2>2. QED BY <1>5, <2>1
<1>7. ASSUME NEW i \in 1 .. Len(o)
      PROVE  /\ o[i].kind = "own" => i < Len(o) /\ o[i + 1].kind = "recvError"
             /\ o[i].kind = "loop" =>
                  i < Len(o) /\ o[i + 1].kind \in {"recvError", "recvStreamError", "inResume"}
             /\ o[i].kind = "inResume" =>
                  i < Len(o) /\ o[i + 1].kind \in {"app", "own", "loop"}
  <2>1. /\ i + 2 \in 1 .. Len(s) /\ o[i] = s[i + 2]
        /\ i < Len(o) => o[i + 1] = s[i + 3]
        /\ i + 2 < Len(s) => i < Len(o)
        /\ (i + 2) + 1 = i + 3
    BY <1>5
  <2>2. QED BY <2>1 DEF Waits
<1>8. Waits(o) BY <1>4, <1>6, <1>7 DEF Waits
<1>9. QED BY <1>2, <1>6, <1>8 DEF o

(* Two frames go on top of a stack, or of none.                            *)
LEMMA PushedWaits ==
  ASSUME NEW s \in Seq(Frames), NEW a \in {"own", "loop"},
         NEW b \in {"inResume", "recvError", "recvStreamError"},
         b = "inResume" => Waits(s), b # "inResume" => s = <<>>,
         a = "own" => b = "recvError"
  PROVE  LET r == <<To(a), To(b)>> \o s IN
         /\ r \in Seq(Frames) /\ Waits(r)
         /\ r[1].kind = a /\ r[2].kind = b
<1> DEFINE r == <<To(a), To(b)>> \o s
<1>1. To(a) \in Frames /\ To(b) \in Frames /\ To(a).kind = a /\ To(b).kind = b
  BY DEF To, Frames
<1>2. /\ <<To(a), To(b)>> \in Seq(Frames) /\ Len(<<To(a), To(b)>>) = 2
      /\ <<To(a), To(b)>>[1] = To(a) /\ <<To(a), To(b)>>[2] = To(b)
  BY <1>1
<1>3. /\ r \in Seq(Frames) /\ Len(r) = 2 + Len(s) /\ Len(s) \in Nat
      /\ r[1] = To(a) /\ r[2] = To(b)
      /\ \A i \in 1 .. Len(s) : r[i + 2] = s[i]
  <2>1. /\ r \in Seq(Frames) /\ Len(r) = 2 + Len(s) /\ Len(s) \in Nat
        /\ \A i \in 1 .. Len(r) : r[i] = IF i <= 2 THEN <<To(a), To(b)>>[i] ELSE s[i - 2]
    BY <1>2, ConcatProperties
  <2>2. QED BY <1>2, <2>1
<1> HIDE DEF r
<1>4. r # <<>> BY <1>3
<1>5. ASSUME NEW i \in 1 .. Len(r)
      PROVE  /\ r[i].kind = "own" => i < Len(r) /\ r[i + 1].kind = "recvError"
             /\ r[i].kind = "loop" =>
                  i < Len(r) /\ r[i + 1].kind \in {"recvError", "recvStreamError", "inResume"}
             /\ r[i].kind = "inResume" =>
                  i < Len(r) /\ r[i + 1].kind \in {"app", "own", "loop"}
  <2>1. CASE i = 1
    <3>1. i < Len(r) /\ r[i].kind = a /\ r[i + 1].kind = b BY <1>1, <1>3, <2>1
    <3>2. QED BY <3>1
  <2>2. CASE i = 2
    <3>1. r[i].kind = b BY <1>1, <1>3, <2>2
    <3>2. CASE b = "inResume"
      <4>1. Len(s) >= 1 /\ s[1].kind \in {"app", "own", "loop"} BY <3>2 DEF Waits
      <4>2. i < Len(r) /\ r[i + 1] = s[1] BY <1>3, <2>2, <4>1
      <4>3. QED BY <3>1, <3>2, <4>1, <4>2
    <3>3. QED BY <3>1, <3>2
  <2>3. CASE i > 2
    <3>1. Len(s) >= 1 BY <1>3, <2>3
    <3>2. Waits(s) BY <3>1
    <3> DEFINE n == Len(s)
    <3>3. n \in Nat /\ Len(r) = 2 + n /\ \A k \in 1 .. n : r[k + 2] = s[k] BY <1>3
    <3> HIDE DEF n
    <3>4. PICK j \in 1 .. n : i = j + 2 BY <2>3, <3>3
    <3>5. r[i] = s[j] BY <3>3, <3>4
    <3>6. ASSUME j < n PROVE i < Len(r) /\ r[i + 1] = s[j + 1]
      <4>1. j + 1 \in 1 .. n /\ (j + 1) + 2 = i + 1 /\ i < 2 + n BY <3>3, <3>4, <3>6
      <4>2. r[(j + 1) + 2] = s[j + 1] BY <3>3, <4>1
      <4>3. QED BY <3>3, <4>1, <4>2
    <3>7. j \in 1 .. Len(s) /\ (j < Len(s) => i < Len(r) /\ r[i + 1] = s[j + 1])
      BY <3>6 DEF n
    <3>8. QED BY <3>2, <3>5, <3>7 DEF Waits
  <2>4. QED BY <2>1, <2>2, <2>3
<1>6. Waits(r) BY <1>1, <1>3, <1>4, <1>5 DEF Waits
<1>7. QED BY <1>1, <1>3, <1>6 DEF r

-----------------------------------------------------------------------------
(* The goroutines.                                                         *)

(* Goroutines that do not connect.                                         *)
LEMMA Resting ==
  ASSUME NEW a \in {"idle", "read", "reading", "disconnect"}, NEW n \in Nat
  PROVE  LET t == [at |-> a, tr |-> n, stack |-> <<>>] IN t \in Threads /\ Stacked(t)
<1>1. <<>> \in Seq(Frames) OBVIOUS
<1>2. QED BY <1>1 DEF Threads, Ats, Stacked

(* Where the end of a Resume leads, from any stack that waits for it.      *)
LEMMA ReturnFits ==
  ASSUME StateType, Stacks, NEW g \in Goroutines,
         threads[g].at \in {"dial", "handshake", "reply"},
         NEW result \in {"ok", "temporary", "permanent"}
  PROVE  /\ Return(g, result) \in Threads /\ Stacked(Return(g, result))
         /\ Plain(threads[g]) /\ result # "temporary" => Return(g, result) = Idle
<1> DEFINE s == threads[g].stack
           again(q) == [at |-> "dial", tr |-> 0, stack |-> q]
           o == Tail(Tail(s))
<1>1. s \in Seq(Frames) /\ Waits(s)
  BY DEF StateType, Stacks, Stacked, Threads
<1>2. ASSUME NEW q \in Seq(Frames), Waits(q)
      PROVE  again(q) \in Threads /\ Stacked(again(q))
  <2>1. again(q) \in Threads BY <1>2 DEF Threads, Ats
  <2>2. Stacked(again(q)) BY <1>2 DEF Stacked
  <2>3. QED BY <2>1, <2>2
<1>3. Idle \in Threads /\ Stacked(Idle) BY Resting DEF Idle
<1>4. ASSUME NEW q, q # <<>>, Head(q).kind \in {"recvError", "recvStreamError"}
      PROVE  /\ Continue(q) \in Threads /\ Stacked(Continue(q))
             /\ Head(q).kind = "recvError" => Continue(q) = Idle
  <2>1. CASE Head(q).kind = "recvError" BY <1>3, <2>1 DEF Continue
  <2>2. CASE Head(q).kind = "recvStreamError"
    <3>1. Continue(q) = [at |-> "disconnect", tr |-> 0, stack |-> <<>>]
      BY <2>2 DEF Continue
    <3>2. QED BY <2>2, <3>1, Resting
  <2>3. QED BY <1>4, <2>1, <2>2
<1>5. /\ Len(s) \in Nat /\ Len(s) >= 1 /\ Head(s) = s[1]
      /\ s[1].kind \in {"app", "own", "loop"}
  BY <1>1 DEF Waits
<1>6. s[1].kind # "app" =>
        /\ Tail(s) # <<>> /\ Head(Tail(s)) = s[2]
        /\ s[1].kind = "own" => s[2].kind = "recvError"
        /\ s[2].kind \in {"recvError", "recvStreamError", "inResume"}
  <2> SUFFICES ASSUME s[1].kind # "app"
               PROVE  /\ Tail(s) # <<>> /\ Head(Tail(s)) = s[2]
                      /\ s[1].kind = "own" => s[2].kind = "recvError"
                      /\ s[2].kind \in {"recvError", "recvStreamError", "inResume"}
    OBVIOUS
  <2>1. 1 \in 1 .. Len(s) BY <1>5
  <2>2. 1 < Len(s) BY <1>1, <1>5, <2>1 DEF Waits
  <2>3. s[1].kind = "own" => s[2].kind = "recvError" BY <1>1, <2>1 DEF Waits
  <2>4. s[2].kind \in {"recvError", "recvStreamError", "inResume"}
    BY <1>1, <1>5, <2>1 DEF Waits
  <2> HIDE DEF s
  <2>5. Tail(s) # <<>> /\ Head(Tail(s)) = s[2] BY <1>1, <2>2, Below
  <2>6. QED BY <2>3, <2>4, <2>5
<1>7. CASE s[1].kind = "app"
  <2>1. Return(g, result) = Idle BY <1>5, <1>7 DEF Return
  <2>2. QED BY <1>3, <2>1
<1>8. CASE s[1].kind # "app" /\ Retry(s[1], result)
  <2>1. Return(g, result) = again(s) BY <1>5, <1>8 DEF Return
  <2>2. result = "temporary" BY <1>8 DEF Retry
  <2> HIDE DEF again, s
  <2>3. QED BY <1>1, <1>2, <2>1, <2>2
<1>9. CASE s[1].kind # "app" /\ ~Retry(s[1], result) /\ s[2].kind # "inResume"
  <2>1. Return(g, result) = Continue(Tail(s)) BY <1>5, <1>6, <1>9 DEF Return
  <2>2. Plain(threads[g]) => s[2].kind = "recvError" BY <1>9 DEF Plain
  <2>3. Tail(s) # <<>> /\ Head(Tail(s)).kind \in {"recvError", "recvStreamError"}
    BY <1>6, <1>9
  <2>4. /\ Continue(Tail(s)) \in Threads /\ Stacked(Continue(Tail(s)))
        /\ Head(Tail(s)).kind = "recvError" => Continue(Tail(s)) = Idle
    BY <1>4, <2>3
  <2>5. QED BY <1>6, <1>9, <2>1, <2>2, <2>4
<1>10. CASE s[1].kind # "app" /\ ~Retry(s[1], result) /\ s[2].kind = "inResume"
  <2>1. s[1].kind = "loop" BY <1>5, <1>6, <1>10
  <2>2. o \in Seq(Frames) /\ Waits(o) /\ o # <<>> BY <1>1, <1>10, <2>1, OuterWaits
  <2>3. Return(g, result) = IF Retry(Head(o), "temporary") THEN again(o)
                            ELSE IF Head(o).kind = "app" THEN Idle ELSE Continue(Tail(o))
    BY <1>5, <1>6, <1>10 DEF Return
  <2>4. ~Plain(threads[g]) BY <1>10 DEF Plain
  <2> HIDE DEF o, s, again
  <2>5. CASE Retry(Head(o), "temporary") BY <1>2, <2>2, <2>3, <2>4, <2>5
  <2>6. CASE ~Retry(Head(o), "temporary") /\ Head(o).kind = "app"
    BY <1>3, <2>3, <2>4, <2>6
  <2>7. CASE ~Retry(Head(o), "temporary") /\ Head(o).kind # "app"
    <3>1. /\ Len(o) \in Nat /\ Len(o) >= 1 /\ Head(o) = o[1]
          /\ o[1].kind \in {"app", "own", "loop"}
      BY <2>2 DEF Waits
    <3>2. o[1].kind = "own" BY <2>7, <3>1 DEF Retry
    <3>3. 1 \in 1 .. Len(o) BY <3>1
    <3>4. 1 < Len(o) /\ o[2].kind = "recvError" BY <2>2, <3>2, <3>3 DEF Waits
    <3>5. Tail(o) # <<>> /\ Head(Tail(o)) = o[2] BY <2>2, <3>4, Below
    <3>6. Continue(Tail(o)) \in Threads /\ Stacked(Continue(Tail(o)))
      BY <1>4, <3>4, <3>5
    <3>7. QED BY <2>3, <2>4, <2>7, <3>6
  <2>8. QED BY <2>5, <2>6, <2>7
<1>11. QED BY <1>7, <1>8, <1>9, <1>10

(* One goroutine goes on.                                                  *)
LEMMA Moved ==
  ASSUME StateType, Stacks, NEW g \in Goroutines, NEW t \in Threads, Stacked(t),
         threads' = [threads EXCEPT ![g] = t]
  PROVE  /\ threads' \in [Goroutines -> Threads] /\ Stacks' /\ threads'[g] = t
         /\ \A h \in Goroutines : h # g => threads'[h] = threads[h]
<1>1. /\ threads' \in [Goroutines -> Threads] /\ threads'[g] = t
      /\ \A h \in Goroutines : h # g => threads'[h] = threads[h]
  BY DEF StateType
<1>2. ASSUME NEW h \in Goroutines PROVE Stacked(threads'[h])
  <2>1. CASE h = g BY <1>1, <2>1
  <2>2. CASE h # g
    <3>1. threads'[h] = threads[h] BY <1>1, <2>2
    <3>2. QED BY <3>1 DEF Stacks
  <2>3. QED BY <2>1, <2>2
<1>3. Stacks' BY <1>2 DEF Stacks
<1>4. QED BY <1>1, <1>3

-----------------------------------------------------------------------------
(* What the actions share.                                                 *)

(* A step of one goroutine.                                                *)
LEMMA OneMoves ==
  ASSUME IInv, NEW g \in Goroutines, NEW t \in Threads, Stacked(t),
         threads' = [threads EXCEPT ![g] = t], Values',
         history'.quiet =>
           /\ history.quiet /\ Plain(t)
           /\ Active(threads[g]) \/ (g = App /\ ~Busy)
           /\ Len(transports') >= Len(transports)
           /\ t.at \in {"handshake", "reply"} =>
                Len(transports') >= IF g = App THEN 1 ELSE 2
           /\ history'.refused => ~Active(t),
         EstablishedIsRead'
  PROVE  IInv'
<1>1. /\ StateType /\ Stacks
      /\ history.quiet => Calm
  BY DEF IInv
<1>2. /\ threads' \in [Goroutines -> Threads] /\ Stacks' /\ threads'[g] = t
      /\ \A h \in Goroutines : h # g => threads'[h] = threads[h]
  BY <1>1, Moved
<1>3. ASSUME history'.quiet PROVE Calm'
  <2>1. /\ Calm /\ Plain(t) /\ Len(transports') >= Len(transports)
        /\ Active(threads[g]) \/ (g = App /\ ~Busy)
        /\ t.at \in {"handshake", "reply"} =>
             Len(transports') >= IF g = App THEN 1 ELSE 2
        /\ history'.refused => ~Active(t)
    BY <1>1, <1>3 DEF IInv
  <2>2. \A h \in Goroutines : h # g => ~Active(threads'[h]) /\ Plain(threads'[h])
    <3>1. CASE Active(threads[g]) BY <1>2, <2>1, <3>1 DEF Calm
    <3>2. CASE ~Busy
      <4>1. \A h \in Goroutines : ~Active(threads[h]) BY <3>2 DEF Busy, Active
      <4>2. QED BY <1>2, <2>1, <4>1 DEF Calm
    <3>3. QED BY <2>1, <3>1, <3>2
  <2>3. ASSUME NEW h \in Goroutines PROVE Plain(threads'[h]) /\ Counted(h)'
    <3>1. CASE h # g
      <4>1. ~Active(threads'[h]) /\ Plain(threads'[h]) BY <2>2, <3>1
      <4>2. QED BY <4>1 DEF Counted, Active
    <3>2. CASE h = g
      <4>1. Active(t) /\ g # App => Len(transports') >= 1
        <5>1. Len(transports) \in Nat /\ Len(transports') \in Nat
          BY <1>1 DEF StateType, Values
        <5>2. g # App => Len(transports) >= 1 BY <2>1 DEF Calm, Counted
        <5>3. QED BY <2>1, <5>1, <5>2
      <4>2. QED BY <1>2, <2>1, <3>2, <4>1 DEF Counted
    <3>3. QED BY <3>1, <3>2
  <2>4. \A h, k \in Goroutines : Active(threads'[h]) /\ Active(threads'[k]) => h = k
    BY <2>2
  <2>5. history'.refused => \A h \in Goroutines : ~Active(threads'[h])
    BY <1>2, <2>1, <2>2
  <2>6. QED BY <2>3, <2>4, <2>5 DEF Calm
<1>4. QED BY <1>2, <1>3 DEF IInv, StateType

(* A step of none.                                                         *)
LEMMA NoneMoves ==
  ASSUME IInv, threads' = threads, Values', history' = history,
         Len(transports') >= Len(transports), current' = current, state' = state
  PROVE  IInv'
<1>1. StateType' BY DEF IInv, StateType
<1>2. Stacks' BY DEF IInv, Stacks
<1>3. Len(transports) \in Nat /\ Len(transports') \in Nat BY DEF IInv, StateType, Values
<1>4. \A g \in Goroutines : Counted(g) => Counted(g)' BY <1>3 DEF Counted
<1>5. Calm => Calm' BY <1>4 DEF Calm
<1>6. EstablishedIsRead' BY DEF IInv, EstablishedIsRead, Receivers, Crashed
<1>7. QED BY <1>1, <1>2, <1>5, <1>6 DEF IInv

(* While a goroutine connects there is no session that it could lose.      *)
LEMMA ConnectingUnread ==
  ASSUME IInv, NEW g \in Goroutines, threads[g].at \in {"dial", "handshake", "reply"},
         ~Crashed, history.quiet, state = "established", ~history.closed
  PROVE  FALSE
<1>1. PICK h \in Receivers : TRUE BY DEF IInv, EstablishedIsRead
<1>2. h \in Goroutines /\ Active(threads[h]) /\ Active(threads[g]) /\ h # g
  BY <1>1 DEF Receivers, Active
<1>3. QED BY <1>2 DEF IInv, Calm

(* XMPPTransport.Close.                                                    *)
LEMMA Disconnected ==
  ASSUME StateType, Disconnect
  PROVE  /\ transports' \in Seq({"failed", "open", "closed", "gone"})
         /\ Len(transports') = Len(transports)
<1>1. CASE current # 0 /\ transports' = [transports EXCEPT ![current] = "closed"]
  <2>1. /\ transports \in Seq({"failed", "open", "closed", "gone"})
        /\ current \in 1 .. Len(transports)
    BY <1>1 DEF StateType, Values
  <2>2. QED BY <1>1, <2>1, ExceptSeq
<1>2. CASE transports' = transports BY <1>2 DEF StateType, Values
<1>3. QED BY <1>1, <1>2 DEF Disconnect

(* A goroutine that connects was called by one that waits.                 *)
LEMMA AtTyped ==
  ASSUME IInv, NEW g \in Goroutines
  PROVE  /\ StateType /\ Stacks /\ Values /\ threads[g] \in Threads
         /\ Stacked(threads[g]) /\ Len(transports) \in Nat
         /\ history.quiet => Plain(threads[g]) /\ Counted(g)
BY DEF IInv, StateType, Values, Stacks, Calm

(* The place of a goroutine changes, and not its stack.                    *)
LEMMA Goes ==
  ASSUME IInv, NEW g \in Goroutines, NEW t \in Threads, t.stack = threads[g].stack,
         threads[g].at \in {"dial", "handshake", "reply"} =>
           t.at \in {"dial", "handshake", "reply", "crashed"},
         threads[g].at \in {"idle", "read", "reading", "disconnect"} =>
           t.at \in {"idle", "read", "reading", "disconnect"},
         threads[g].at # "crashed"
  PROVE  Stacked(t)
<1>1. threads[g] \in Threads /\ Stacked(threads[g]) BY AtTyped
<1>2. threads[g].at \in Ats BY <1>1 DEF Threads
<1>3. QED BY <1>1, <1>2 DEF Stacked, Ats

-----------------------------------------------------------------------------
(* The application and the peer.                                           *)

LEMMA AppRunHolds ==
  ASSUME IInv, AppRun
  PROVE  IInv'
<1>1. /\ handler' = "manager" /\ run' = "returned" /\ metrics' = metrics
      /\ transports' = transports /\ current' = current /\ state' = state
      /\ threads' = threads /\ history' = history
  BY DEF AppRun
<1>2. Values /\ Len(transports) \in Nat BY DEF IInv, StateType, Values
<1>3. Values' BY <1>1, <1>2 DEF Values, Handlers
<1>4. QED BY <1>1, <1>2, <1>3, NoneMoves

LEMMA AppDisconnectHolds ==
  ASSUME IInv, AppDisconnect
  PROVE  IInv'
<1>1. /\ handler' = handler /\ run' = run /\ metrics' = metrics
      /\ current' = current /\ state' = state /\ threads' = threads /\ history' = history
      /\ Disconnect
  BY DEF AppDisconnect
<1>2. StateType /\ Values /\ Len(transports) \in Nat BY DEF IInv, StateType, Values
<1>3. /\ transports' \in Seq({"failed", "open", "closed", "gone"})
      /\ Len(transports') = Len(transports)
  BY <1>1, <1>2, Disconnected
<1>4. Values' BY <1>1, <1>2, <1>3 DEF Values
<1>5. Len(transports') >= Len(transports) BY <1>2, <1>3
<1>6. QED BY <1>1, <1>4, <1>5, NoneMoves

LEMMA PeerLeavesHolds ==
  ASSUME IInv, NEW n \in DOMAIN transports, PeerLeaves(n)
  PROVE  IInv'
<1>1. /\ handler' = handler /\ run' = run /\ metrics' = metrics
      /\ current' = current /\ state' = state /\ threads' = threads /\ history' = history
      /\ transports' = [transports EXCEPT ![n] = "gone"]
  BY DEF PeerLeaves
<1>2. /\ Values /\ Len(transports) \in Nat
      /\ transports \in Seq({"failed", "open", "closed", "gone"})
      /\ n \in 1 .. Len(transports)
  BY DEF IInv, StateType, Values
<1>3. /\ transports' \in Seq({"failed", "open", "closed", "gone"})
      /\ Len(transports') = Len(transports)
  BY <1>1, <1>2, ExceptSeq
<1>4. Values' BY <1>1, <1>2, <1>3 DEF Values
<1>5. Len(transports') >= Len(transports) BY <1>2, <1>3
<1>6. QED BY <1>1, <1>4, <1>5, NoneMoves

LEMMA StutterHolds ==
  ASSUME IInv, UNCHANGED vars
  PROVE  IInv'
<1>1. /\ handler' = handler /\ run' = run /\ metrics' = metrics
      /\ transports' = transports /\ current' = current /\ state' = state
      /\ threads' = threads /\ history' = history
  BY DEF vars
<1>2. Values /\ Len(transports) \in Nat BY DEF IInv, StateType, Values
<1>3. Values' BY <1>1, <1>2 DEF Values
<1>4. QED BY <1>1, <1>2, <1>3, NoneMoves

(* Connect finds nobody connecting or reading.                             *)
LEMMA AppConnectHolds ==
  ASSUME IInv, AppConnect
  PROVE  IInv'
<1> DEFINE t == Call(App, <<To("app")>>)
<1>1. /\ ~Busy /\ handler' = handler /\ run' = run /\ metrics' = metrics
      /\ transports' = transports /\ current' = current /\ state' = state
      /\ threads' = [threads EXCEPT ![App] = t]
      /\ history' = [history EXCEPT !.refused = FALSE]
  BY DEF AppConnect
<1>2. /\ StateType /\ Stacks /\ Values /\ Len(transports) \in Nat /\ App \in Goroutines
  BY DialsAssumption DEF IInv, StateType, Values, App, Goroutines
<1>3. \A h \in Goroutines : threads[h].at = "idle" BY <1>1 DEF Busy
<1>4. threads[App] \in Threads /\ threads[App].stack = <<>>
  BY <1>2, <1>3 DEF StateType, Stacks, Stacked
<1>5. t \in Threads /\ t.at = "dial" /\ t.stack = <<To("app")>>
  <2>1. To("app") \in Frames BY DEF To, Frames
  <2>2. <<To("app")>> \o threads[App].stack = <<To("app")>> BY <1>4, <2>1
  <2>3. <<To("app")>> \in Seq(Frames) BY <2>1
  <2>4. t = [threads[App] EXCEPT !.at = "dial", !.stack = <<To("app")>>]
    BY <2>2 DEF Call
  <2>5. QED BY <1>4, <2>3, <2>4 DEF Threads, Ats
<1> HIDE DEF t
<1>6. Waits(<<To("app")>>) BY DEF Waits, To
<1>7. Stacked(t) BY <1>5, <1>6 DEF Stacked
<1>8. Plain(t) BY <1>5 DEF Plain, To
<1>9. /\ history'.quiet <=> history.quiet
      /\ history'.closed <=> history.closed
      /\ history'.refused <=> FALSE
      /\ history' \in [quiet : BOOLEAN, refused : BOOLEAN, closed : BOOLEAN]
  BY <1>1, <1>2 DEF Values
<1>10. Values' BY <1>1, <1>2, <1>9 DEF Values
<1>11. ~Crashed BY <1>3 DEF Crashed
<1>12. ~(history.quiet /\ state = "established" /\ ~history.closed)
  BY <1>3, <1>11 DEF IInv, EstablishedIsRead, Receivers
<1>13. EstablishedIsRead' BY <1>1, <1>9, <1>12 DEF EstablishedIsRead
<1>14. history'.quiet =>
         /\ history.quiet /\ Plain(t)
         /\ Active(threads[App]) \/ (App = App /\ ~Busy)
         /\ Len(transports') >= Len(transports)
         /\ t.at \in {"handshake", "reply"} =>
              Len(transports') >= IF App = App THEN 1 ELSE 2
         /\ history'.refused => ~Active(t)
  <2>1. transports' = transports /\ ~Busy BY <1>1
  <2>2. QED BY <1>2, <1>5, <1>8, <1>9, <2>1
<1>15. threads' = [threads EXCEPT ![App] = t] BY <1>1
<1>16. QED BY <1>2, <1>5, <1>7, <1>10, <1>13, <1>14, <1>15, OneMoves

-----------------------------------------------------------------------------
(* Connecting.                                                             *)

(* A step of a goroutine that connects, which starts no session.           *)
LEMMA ConnectingMoves ==
  ASSUME IInv, NEW g \in Goroutines, threads[g].at \in {"dial", "handshake", "reply"},
         ~Crashed, NEW t \in Threads, Stacked(t),
         threads' = [threads EXCEPT ![g] = t], Values',
         state' = "established" => state = "established",
         history'.closed <=> history.closed,
         history'.quiet =>
           /\ history.quiet /\ Plain(t)
           /\ Len(transports') >= Len(transports)
           /\ t.at \in {"handshake", "reply"} =>
                Len(transports') >= IF g = App THEN 1 ELSE 2
           /\ history'.refused => ~Active(t)
  PROVE  IInv'
<1>1. Active(threads[g]) BY DEF Active
<1>2. ~(history'.quiet /\ state' = "established" /\ ~history'.closed)
  BY ConnectingUnread
<1>3. EstablishedIsRead' BY <1>2 DEF EstablishedIsRead
<1>4. QED BY <1>1, <1>3, OneMoves

(* Who is active before anything interferes was not refused.               *)
LEMMA NotRefused ==
  ASSUME IInv, NEW g \in Goroutines, Active(threads[g]), history.quiet
  PROVE  ~history.refused /\ Plain(threads[g]) /\ Counted(g)
BY DEF IInv, Calm

(* Resume returns with a permanent error.                                  *)
LEMMA GivesUp ==
  ASSUME IInv, NEW g \in Goroutines, threads[g].at \in {"dial", "handshake", "reply"},
         ~Crashed, Returns(g, "permanent"), Values', state' # "established",
         history'.closed <=> history.closed, history'.quiet <=> history.quiet,
         Len(transports') >= Len(transports)
  PROVE  IInv'
<1> DEFINE t == Return(g, "permanent")
<1>1. StateType /\ Stacks BY AtTyped
<1>2. t \in Threads /\ Stacked(t) /\ (Plain(threads[g]) => t = Idle) BY <1>1, ReturnFits
<1>3. threads' = [threads EXCEPT ![g] = t] BY DEF Returns
<1> HIDE DEF t
<1>4. history.quiet => t = Idle
  <2>1. Active(threads[g]) BY DEF Active
  <2>2. QED BY <1>2, <2>1, NotRefused
<1>5. Plain(Idle) /\ ~Active(Idle) /\ Idle.at \notin {"handshake", "reply"}
  BY DEF Plain, Active, Idle
<1>6. history'.quiet =>
        /\ history.quiet /\ Plain(t)
        /\ Len(transports') >= Len(transports)
        /\ t.at \in {"handshake", "reply"} =>
             Len(transports') >= IF g = App THEN 1 ELSE 2
        /\ history'.refused => ~Active(t)
  BY <1>4, <1>5
<1>7. state' = "established" => state = "established" BY DEF IInv
<1>8. QED BY <1>2, <1>3, <1>6, <1>7, ConnectingMoves

(* A goroutine that goes on connecting.                                    *)
LEMMA GoesOn ==
  ASSUME IInv, NEW g \in Goroutines, threads[g].at \in {"dial", "handshake", "reply"},
         ~Crashed, NEW t \in Threads, Stacked(t), t.stack = threads[g].stack,
         t.at \in {"handshake", "reply"},
         threads' = [threads EXCEPT ![g] = t], Values', state' = state, history' = history,
         Len(transports') >= Len(transports),
         history.quiet => Len(transports') >= IF g = App THEN 1 ELSE 2
  PROVE  IInv'
<1>1. Active(threads[g]) BY DEF Active
<1>2. ASSUME history.quiet PROVE ~history.refused /\ Plain(t)
  <2>1. ~history.refused /\ Plain(threads[g]) BY <1>1, <1>2, NotRefused
  <2>2. QED BY <2>1 DEF Plain
<1>3. history'.quiet =>
        /\ history.quiet /\ Plain(t)
        /\ Len(transports') >= Len(transports)
        /\ t.at \in {"handshake", "reply"} =>
             Len(transports') >= IF g = App THEN 1 ELSE 2
        /\ history'.refused => ~Active(t)
  BY <1>2
<1>4. QED BY <1>3, ConnectingMoves

LEMMA DialHolds ==
  ASSUME IInv, NEW g \in Goroutines, Dial(g)
  PROVE  IInv'
<1>1. /\ threads[g].at = "dial" /\ ~Crashed
      /\ handler' = handler /\ run' = run /\ history' = history
      /\ metrics' = (metrics \/ Head(threads[g].stack).kind = "loop")
  BY DEF Dial, At
<1>2. /\ StateType /\ Stacks /\ Values /\ threads[g] \in Threads
      /\ Len(transports) \in Nat
  BY AtTyped
<1>3. metrics' \in BOOLEAN BY <1>1, Zenon DEF Values
<1>4. /\ handler' \in Handlers /\ run' \in {"idle", "returned"}
      /\ history' \in [quiet : BOOLEAN, refused : BOOLEAN, closed : BOOLEAN]
      /\ transports \in Seq({"failed", "open", "closed", "gone"})
      /\ Len(transports) <= MaxDials
      /\ state \in {"disconnected", "established", "streamError", "permanentError"}
  BY <1>1, <1>2 DEF Values
<1>5. CASE /\ current' = 0 /\ state' = "permanentError"
           /\ Returns(g, "permanent") /\ transports' = transports
  <2>1. Values' BY <1>2, <1>3, <1>4, <1>5 DEF Values
  <2>2. state' # "established" /\ Len(transports') >= Len(transports) BY <1>2, <1>5
  <2>3. history'.closed = history.closed /\ history'.quiet = history.quiet BY <1>1
  <2>4. QED BY <1>1, <1>5, <2>1, <2>2, <2>3, GivesUp
<1>6. ASSUME NEW x \in {"open", "failed"}, transports' = Append(transports, x)
      PROVE  /\ Len(transports') = Len(transports) + 1
             /\ transports' \in Seq({"failed", "open", "closed", "gone"})
  BY <1>4, <1>6
<1>7. CASE /\ Len(transports) < MaxDials /\ current' = Len(transports) + 1
           /\ transports' = Append(transports, "failed")
           /\ state' = "permanentError" /\ Returns(g, "permanent")
  <2>1. /\ Len(transports') = Len(transports) + 1
        /\ transports' \in Seq({"failed", "open", "closed", "gone"})
    BY <1>6, <1>7
  <2>2. Values' BY <1>2, <1>3, <1>4, <1>7, <2>1, DialsAssumption DEF Values
  <2>3. state' # "established" /\ Len(transports') >= Len(transports) BY <1>2, <1>7, <2>1
  <2>4. history'.closed = history.closed /\ history'.quiet = history.quiet BY <1>1
  <2>5. QED BY <1>1, <1>7, <2>2, <2>3, <2>4, GivesUp
<1>8. CASE /\ Len(transports) < MaxDials /\ current' = Len(transports) + 1
           /\ transports' = Append(transports, "open")
           /\ threads' = [threads EXCEPT ![g].at = "handshake"]
           /\ state' = state
  <2> DEFINE t == [threads[g] EXCEPT !.at = "handshake"]
  <2>1. /\ Len(transports') = Len(transports) + 1
        /\ transports' \in Seq({"failed", "open", "closed", "gone"})
    BY <1>6, <1>8
  <2>2. Values' BY <1>2, <1>3, <1>4, <1>8, <2>1, DialsAssumption DEF Values
  <2>3. Len(transports') >= Len(transports) BY <1>2, <2>1
  <2>4. "handshake" \in Ats BY DEF Ats
  <2>5. t \in Threads /\ t.at = "handshake" /\ t.stack = threads[g].stack
    BY <1>2, <2>4 DEF Threads
  <2>6. threads' = [threads EXCEPT ![g] = t] BY <1>8
  <2> HIDE DEF t
  <2>7. ASSUME history.quiet PROVE Len(transports') >= IF g = App THEN 1 ELSE 2
    <3>1. Active(threads[g]) BY <1>1 DEF Active
    <3>2. g # App => Len(transports) >= 1 BY <2>7, <3>1, NotRefused DEF Counted
    <3>3. QED BY <1>2, <2>1, <3>2
  <2>8. Stacked(t) BY <1>1, <2>5, Goes
  <2>9. QED BY <1>1, <1>8, <2>2, <2>3, <2>5, <2>6, <2>7, <2>8, GoesOn
<1>9. QED BY <1>5, <1>7, <1>8 DEF Dial

LEMMA HandshakeSentHolds ==
  ASSUME IInv, NEW g \in Goroutines, HandshakeSent(g)
  PROVE  IInv'
<1> DEFINE t == [threads[g] EXCEPT !.at = "reply", !.tr = current]
<1>1. /\ threads[g].at = "handshake" /\ ~Crashed
      /\ handler' = handler /\ run' = run /\ history' = history /\ metrics' = metrics
      /\ transports' = transports /\ current' = current /\ state' = state
      /\ threads' = [threads EXCEPT ![g] = t]
  BY DEF HandshakeSent, At
<1>2. StateType /\ Values /\ Len(transports) \in Nat BY AtTyped
<1>3. "reply" \in Ats /\ current \in Nat BY <1>2 DEF Ats, Values
<1>4. t \in Threads /\ t.at = "reply" /\ t.stack = threads[g].stack
  <2>1. threads[g] \in Threads BY AtTyped
  <2>2. QED BY <1>3, <2>1 DEF Threads
<1> HIDE DEF t
<1>5. Values' BY <1>1, <1>2 DEF Values
<1>6. Len(transports') >= Len(transports) BY <1>1, <1>2
<1>7. ASSUME history.quiet PROVE Len(transports') >= IF g = App THEN 1 ELSE 2
  <2>1. Active(threads[g]) BY <1>1 DEF Active
  <2>2. QED BY <1>1, <1>7, <2>1, NotRefused DEF Counted
<1>8. Stacked(t)
  <2>1. threads[g].at = "handshake" BY <1>1
  <2>2. QED BY <1>4, <2>1, Goes
<1>9. QED BY <1>1, <1>4, <1>5, <1>6, <1>7, <1>8, GoesOn

(* A handler that connects again.                                          *)
LEMMA Calls ==
  ASSUME IInv, NEW g \in Goroutines, NEW a \in {"own", "loop"},
         NEW b \in {"inResume", "recvError", "recvStreamError"},
         b = "inResume" => threads[g].at \in {"dial", "handshake", "reply"},
         b # "inResume" => threads[g].at = "reading",
         a = "own" => b = "recvError"
  PROVE  LET t == Call(g, <<To(a), To(b)>>) IN
         /\ t \in Threads /\ Stacked(t) /\ t.at = "dial"
         /\ t.stack[1].kind = a /\ t.stack[2].kind = b
<1> DEFINE s == threads[g].stack
           r == <<To(a), To(b)>> \o s
           t == [threads[g] EXCEPT !.at = "dial", !.stack = r]
<1>1. threads[g] \in Threads /\ Stacked(threads[g]) BY AtTyped
<1>2. /\ s \in Seq(Frames)
      /\ b = "inResume" => Waits(s)
      /\ b # "inResume" => s = <<>>
  BY <1>1 DEF Threads, Stacked
<1> HIDE DEF s
<1>3. r \in Seq(Frames) /\ Waits(r) /\ r[1].kind = a /\ r[2].kind = b
  BY <1>2, PushedWaits
<1> HIDE DEF r
<1>4. t \in Threads /\ t.at = "dial" /\ t.stack = r BY <1>1, <1>3 DEF Threads, Ats
<1>5. Call(g, <<To(a), To(b)>>) = t BY DEF Call, r, s
<1> HIDE DEF t
<1>6. Stacked(t) BY <1>3, <1>4 DEF Stacked
<1>7. QED BY <1>3, <1>4, <1>5, <1>6

LEMMA HandshakeFailsHolds ==
  ASSUME IInv, NEW g \in Goroutines, HandshakeFails(g)
  PROVE  IInv'
<1>1. /\ threads[g].at = "handshake" /\ ~Crashed
      /\ handler' = handler /\ run' = run /\ metrics' = metrics
      /\ current' = current /\ state' = "streamError"
      /\ history' = [history EXCEPT !.quiet = FALSE]
  BY DEF HandshakeFails, At
<1>2. StateType /\ Stacks /\ Values /\ Len(transports) \in Nat BY AtTyped
<1>3. /\ history'.quiet <=> FALSE
      /\ history'.closed <=> history.closed
      /\ history' \in [quiet : BOOLEAN, refused : BOOLEAN, closed : BOOLEAN]
  BY <1>1, <1>2 DEF Values
<1>4. ASSUME transports' \in Seq({"failed", "open", "closed", "gone"}),
             Len(transports') = Len(transports)
      PROVE  Values'
  BY <1>1, <1>2, <1>3, <1>4 DEF Values
<1>5. state' = "established" => state = "established" BY <1>1
<1>6. CASE /\ Disconnect
           /\ threads' = [threads EXCEPT ![g] = Call(g, <<To("loop"), To("inResume")>>)]
  <2> DEFINE t == Call(g, <<To("loop"), To("inResume")>>)
  <2>1. t \in Threads /\ Stacked(t) BY <1>1, Calls
  <2>2. threads' = [threads EXCEPT ![g] = t] BY <1>6
  <2> HIDE DEF t
  <2>3. Values' BY <1>2, <1>4, <1>6, Disconnected
  <2>4. threads[g].at \in {"dial", "handshake", "reply"} /\ ~Crashed BY <1>1
  <2>5. QED BY <1>3, <1>5, <2>1, <2>2, <2>3, <2>4, ConnectingMoves
<1>7. CASE Returns(g, "temporary") /\ transports' = transports
  <2> DEFINE t == Return(g, "temporary")
  <2>1. t \in Threads /\ Stacked(t) BY <1>1, <1>2, ReturnFits
  <2>2. threads' = [threads EXCEPT ![g] = t] BY <1>7 DEF Returns
  <2> HIDE DEF t
  <2>3. Values' BY <1>2, <1>4, <1>7 DEF Values
  <2>4. threads[g].at \in {"dial", "handshake", "reply"} /\ ~Crashed BY <1>1
  <2>5. QED BY <1>3, <1>5, <2>1, <2>2, <2>3, <2>4, ConnectingMoves
<1>8. QED BY <1>6, <1>7 DEF HandshakeFails

LEMMA RefusedHolds ==
  ASSUME IInv, NEW g \in Goroutines, Refused(g)
  PROVE  IInv'
<1>1. /\ threads[g].at = "reply" /\ ~Crashed
      /\ handler' = handler /\ run' = run /\ metrics' = metrics
      /\ current' = current /\ state' = "streamError"
      /\ history' = [history EXCEPT !.refused = TRUE]
      /\ Returns(g, "permanent")
  BY DEF Refused, At
<1>2. StateType /\ Values /\ Len(transports) \in Nat BY AtTyped
<1>3. /\ history'.quiet <=> history.quiet
      /\ history'.closed <=> history.closed
      /\ history' \in [quiet : BOOLEAN, refused : BOOLEAN, closed : BOOLEAN]
  BY <1>1, <1>2 DEF Values
<1>4. /\ transports' \in Seq({"failed", "open", "closed", "gone"})
      /\ Len(transports') = Len(transports)
  <2>1. CASE Disconnect BY <1>2, <2>1, Disconnected
  <2>2. CASE transports' = transports BY <1>2, <2>2 DEF Values
  <2>3. QED BY <2>1, <2>2 DEF Refused
<1>5. Values' BY <1>1, <1>2, <1>3, <1>4 DEF Values
<1>6. state' # "established" /\ Len(transports') >= Len(transports) BY <1>1, <1>2, <1>4
<1>7. threads[g].at \in {"dial", "handshake", "reply"} /\ ~Crashed /\ Returns(g, "permanent")
  BY <1>1
<1>8. QED BY <1>3, <1>5, <1>6, <1>7, GivesUp

LEMMA NoHandshakeHolds ==
  ASSUME IInv, NEW g \in Goroutines, NoHandshake(g)
  PROVE  IInv'
<1>1. /\ threads[g].at = "reply" /\ ~Crashed
      /\ handler' = handler /\ run' = run /\ metrics' = metrics
      /\ transports' = transports /\ current' = current /\ state' = "permanentError"
      /\ history' = history /\ Returns(g, "permanent")
  BY DEF NoHandshake, At
<1>2. Values /\ Len(transports) \in Nat BY AtTyped
<1>3. Values' BY <1>1, <1>2 DEF Values
<1>4. state' # "established" /\ Len(transports') >= Len(transports) BY <1>1, <1>2
<1>5. history'.closed = history.closed /\ history'.quiet = history.quiet BY <1>1
<1>6. QED BY <1>1, <1>3, <1>4, <1>5, GivesUp

-----------------------------------------------------------------------------
(* Receiving.                                                              *)

(* A step of a receiver that interferes with nothing.                      *)
LEMMA ReceiverMoves ==
  ASSUME IInv, NEW g \in Goroutines, Active(threads[g]), NEW t \in Threads, Stacked(t),
         Plain(t), t.at \notin {"handshake", "reply"},
         threads' = [threads EXCEPT ![g] = t], Values', transports' = transports,
         history'.quiet <=> history.quiet, history'.refused <=> history.refused,
         EstablishedIsRead'
  PROVE  IInv'
<1>1. history.quiet => ~history.refused BY NotRefused
<1>2. Len(transports) \in Nat BY AtTyped
<1>3. history'.quiet =>
        /\ history.quiet /\ Plain(t)
        /\ Active(threads[g]) \/ (g = App /\ ~Busy)
        /\ Len(transports') >= Len(transports)
        /\ t.at \in {"handshake", "reply"} =>
             Len(transports') >= IF g = App THEN 1 ELSE 2
        /\ history'.refused => ~Active(t)
  BY <1>1, <1>2
<1>4. QED BY <1>3, OneMoves

LEMMA BeginReadHolds ==
  ASSUME IInv, NEW g \in Goroutines, BeginRead(g)
  PROVE  IInv'
<1> DEFINE t == [threads[g] EXCEPT !.at = "reading", !.tr = current]
<1>1. /\ threads[g].at = "read"
      /\ handler' = handler /\ run' = run /\ metrics' = metrics
      /\ transports' = transports /\ current' = current /\ state' = state
      /\ history' = history /\ threads' = [threads EXCEPT ![g] = t]
  BY DEF BeginRead, At
<1>2. /\ StateType /\ Stacks /\ Values /\ threads[g] \in Threads
  BY AtTyped
<1>3. t \in Threads /\ t.at = "reading" /\ t.tr = current /\ t.stack = threads[g].stack
  <2>1. current \in Nat BY <1>2 DEF Values
  <2>2. QED BY <1>2, <2>1 DEF Threads, Ats
<1> HIDE DEF t
<1>4. Stacked(t)
  <2>1. threads[g].at = "read" BY <1>1
  <2>2. QED BY <1>3, <2>1, Goes
<1>5. threads'[g] = t BY <1>1, <1>2, <1>3, <1>4, Moved
<1>6. EstablishedIsRead'
  <2>1. g \in Receivers' /\ threads'[g].tr = current'
    BY <1>1, <1>3, <1>5 DEF Receivers
  <2>2. QED BY <2>1 DEF EstablishedIsRead
<1>7. Values' BY <1>1, <1>2 DEF Values
<1>8. Active(threads[g]) /\ Plain(t) BY <1>1, <1>3 DEF Active, Plain
<1>9. QED BY <1>1, <1>3, <1>4, <1>6, <1>7, <1>8, ReceiverMoves

LEMMA RecvStanzaHolds ==
  ASSUME IInv, NEW g \in Goroutines, RecvStanza(g)
  PROVE  IInv'
<1> DEFINE t == [threads[g] EXCEPT !.at = "read"]
<1>1. /\ threads[g].at = "reading"
      /\ handler' = handler /\ run' = run /\ metrics' = metrics
      /\ transports' = transports /\ current' = current /\ state' = state
      /\ history' = history /\ threads' = [threads EXCEPT ![g] = t]
  BY DEF RecvStanza, Reading, At
<1>2. /\ StateType /\ Stacks /\ Values /\ threads[g] \in Threads
  BY AtTyped
<1>3. t \in Threads /\ t.at = "read" /\ t.stack = threads[g].stack
  BY <1>2 DEF Threads, Ats
<1> HIDE DEF t
<1>4. Stacked(t)
  <2>1. threads[g].at = "reading" BY <1>1
  <2>2. QED BY <1>3, <2>1, Goes
<1>5. threads'[g] = t BY <1>1, <1>2, <1>3, <1>4, Moved
<1>6. EstablishedIsRead'
  <2>1. g \in Receivers' /\ threads'[g].at = "read"
    BY <1>3, <1>5 DEF Receivers
  <2>2. QED BY <2>1 DEF EstablishedIsRead
<1>7. Values' BY <1>1, <1>2 DEF Values
<1>8. Active(threads[g]) /\ Plain(t) BY <1>1, <1>3 DEF Active, Plain
<1>9. QED BY <1>1, <1>3, <1>4, <1>6, <1>7, <1>8, ReceiverMoves

LEMMA RecvFailsHolds ==
  ASSUME IInv, NEW g \in Goroutines, RecvFails(g)
  PROVE  IInv'
<1> DEFINE t == CASE handler = "none" -> Idle
                  [] handler = "own" -> Call(g, <<To("own"), To("recvError")>>)
                  [] handler = "manager" -> Call(g, <<To("loop"), To("recvError")>>)
<1>1. /\ threads[g].at = "reading"
      /\ handler' = handler /\ run' = run /\ metrics' = metrics
      /\ transports' = transports /\ current' = current /\ state' = "disconnected"
      /\ history' = history /\ threads' = [threads EXCEPT ![g] = t]
  BY DEF RecvFails, At
<1>2. StateType /\ Values BY AtTyped
<1>3. /\ t \in Threads /\ Stacked(t) /\ Plain(t) /\ t.at \notin {"handshake", "reply"}
  <2>1. handler \in {"none", "own", "manager"} BY <1>2 DEF Values, Handlers
  <2>2. CASE handler = "none"
    <3>1. t = Idle BY <2>2
    <3>2. Idle \in Threads /\ Stacked(Idle) BY Resting DEF Idle
    <3>3. Plain(Idle) /\ Idle.at = "idle" BY DEF Plain, Idle
    <3> HIDE DEF t
    <3>4. QED BY <3>1, <3>2, <3>3
  <2>3. ASSUME NEW a \in {"own", "loop"}, t = Call(g, <<To(a), To("recvError")>>)
        PROVE  /\ t \in Threads /\ Stacked(t) /\ Plain(t)
               /\ t.at \notin {"handshake", "reply"}
    <3> DEFINE u == Call(g, <<To(a), To("recvError")>>)
    <3>1. /\ u \in Threads /\ Stacked(u) /\ u.at = "dial"
          /\ u.stack[2].kind = "recvError"
      <4>1. threads[g].at = "reading" BY <1>1
      <4>2. QED BY <4>1, Calls
    <3>2. t = u BY <2>3
    <3> HIDE DEF t, u
    <3>3. Plain(u) BY <3>1 DEF Plain
    <3>4. QED BY <3>1, <3>2, <3>3
  <2>4. CASE handler = "own"
    <3>1. t = Call(g, <<To("own"), To("recvError")>>) BY <2>4
    <3> HIDE DEF t
    <3>2. QED BY <2>3, <3>1
  <2>5. CASE handler = "manager"
    <3>1. t = Call(g, <<To("loop"), To("recvError")>>) BY <2>5
    <3> HIDE DEF t
    <3>2. QED BY <2>3, <3>1
  <2>6. QED BY <2>1, <2>2, <2>4, <2>5
<1> HIDE DEF t
<1>4. EstablishedIsRead' BY <1>1 DEF EstablishedIsRead
<1>5. Values' BY <1>1, <1>2 DEF Values
<1>6. Active(threads[g]) BY <1>1 DEF Active
<1>7. QED BY <1>1, <1>3, <1>4, <1>5, <1>6, ReceiverMoves

LEMMA RecvStreamErrorHolds ==
  ASSUME IInv, NEW g \in Goroutines, NEW conflict \in BOOLEAN, RecvStreamError(g, conflict)
  PROVE  IInv'
<1> DEFINE u == Call(g, <<To("loop"), To("recvStreamError")>>)
           v == [threads[g] EXCEPT !.at = "disconnect"]
           t == IF handler = "manager" /\ ~conflict THEN u ELSE v
<1>1. /\ threads[g].at = "reading"
      /\ handler' = handler /\ run' = run /\ metrics' = metrics
      /\ current' = current /\ state' = "streamError"
      /\ history' = [history EXCEPT !.quiet = FALSE]
      /\ threads' = [threads EXCEPT ![g] = t]
  BY DEF RecvStreamError, Reading, At
<1>2. StateType /\ Values /\ threads[g] \in Threads BY AtTyped
<1>3. /\ history'.quiet <=> FALSE
      /\ history' \in [quiet : BOOLEAN, refused : BOOLEAN, closed : BOOLEAN]
  BY <1>1, <1>2 DEF Values
<1>4. /\ transports' \in Seq({"failed", "open", "closed", "gone"})
      /\ Len(transports') = Len(transports)
  <2>1. CASE Disconnect BY <1>2, <2>1, Disconnected
  <2>2. CASE transports' = transports BY <1>2, <2>2 DEF Values
  <2>3. QED BY <2>1, <2>2 DEF RecvStreamError
<1>5. t \in Threads /\ Stacked(t)
  <2>1. threads[g].at = "reading" BY <1>1
  <2>2. u \in Threads /\ Stacked(u) BY <2>1, Calls
  <2>3. v \in Threads /\ v.at = "disconnect" /\ v.stack = threads[g].stack
    BY <1>2 DEF Threads, Ats
  <2> HIDE DEF u, v
  <2>4. Stacked(v) BY <2>1, <2>3, Goes
  <2>5. QED BY <2>2, <2>3, <2>4
<1> HIDE DEF t
<1>6. EstablishedIsRead' BY <1>1 DEF EstablishedIsRead
<1>7. Values' BY <1>1, <1>2, <1>3, <1>4 DEF Values
<1>8. threads' = [threads EXCEPT ![g] = t] BY <1>1
<1>9. QED BY <1>3, <1>5, <1>6, <1>7, <1>8, OneMoves

LEMMA RecvDisconnectsHolds ==
  ASSUME IInv, NEW g \in Goroutines, RecvDisconnects(g)
  PROVE  IInv'
<1> DEFINE t == [threads[g] EXCEPT !.at = "read"]
<1>1. /\ threads[g].at = "disconnect" /\ Disconnect
      /\ handler' = handler /\ run' = run /\ metrics' = metrics
      /\ current' = current /\ state' = state
      /\ history' = history /\ threads' = [threads EXCEPT ![g] = t]
  BY DEF RecvDisconnects, At
<1>2. StateType /\ Values /\ threads[g] \in Threads BY AtTyped
<1>3. t \in Threads /\ t.at = "read" /\ t.stack = threads[g].stack
  BY <1>2 DEF Threads, Ats
<1> HIDE DEF t
<1>4. Stacked(t)
  <2>1. threads[g].at = "disconnect" BY <1>1
  <2>2. QED BY <1>3, <2>1, Goes
<1>5. ~history'.quiet
  <2>1. ~Plain(threads[g]) BY <1>1 DEF Plain
  <2>2. QED BY <1>1, <2>1, AtTyped
<1>6. EstablishedIsRead' BY <1>5 DEF EstablishedIsRead
<1>7. /\ transports' \in Seq({"failed", "open", "closed", "gone"})
      /\ Len(transports') = Len(transports)
  BY <1>1, <1>2, Disconnected
<1>8. Values' BY <1>1, <1>2, <1>7 DEF Values
<1>9. QED BY <1>1, <1>3, <1>4, <1>5, <1>6, <1>8, OneMoves

LEMMA RecvCloseHolds ==
  ASSUME IInv, NEW g \in Goroutines, RecvClose(g)
  PROVE  IInv'
<1>1. /\ threads[g].at = "reading"
      /\ handler' = handler /\ run' = run /\ metrics' = metrics
      /\ transports' = transports /\ current' = current /\ state' = state
      /\ history' = [history EXCEPT !.closed = TRUE]
      /\ threads' = [threads EXCEPT ![g] = Idle]
  BY DEF RecvClose, Reading, At
<1>2. Values BY AtTyped
<1>3. /\ history'.quiet <=> history.quiet
      /\ history'.refused <=> history.refused
      /\ history'.closed <=> TRUE
      /\ history' \in [quiet : BOOLEAN, refused : BOOLEAN, closed : BOOLEAN]
  BY <1>1, <1>2 DEF Values
<1>4. Idle \in Threads /\ Stacked(Idle) BY Resting DEF Idle
<1>5. Plain(Idle) /\ Idle.at \notin {"handshake", "reply"} BY DEF Plain, Idle
<1>6. EstablishedIsRead' BY <1>3 DEF EstablishedIsRead
<1>7. Values' BY <1>1, <1>2, <1>3 DEF Values
<1>8. Active(threads[g]) BY <1>1 DEF Active
<1>9. threads' = [threads EXCEPT ![g] = Idle] /\ transports' = transports BY <1>1
<1>10. QED BY <1>3, <1>4, <1>5, <1>6, <1>7, <1>8, <1>9, ReceiverMoves

-----------------------------------------------------------------------------
(* The handshake is answered: the connecting goroutine returns and a       *)
(* receiver is started.                                                    *)

Starting == [Idle EXCEPT !.at = "read"]

(* There is room for the receiver, and nobody else is left.                *)
LEMMA RoomForReceiver ==
  ASSUME IInv, NEW g \in Goroutines, threads[g].at = "reply", ~Crashed, history.quiet
  PROVE  /\ \A h \in Goroutines : h # g => threads[h].at = "idle"
         /\ \E r \in Goroutines \ {App} : threads[r].at = "idle"
<1>1. Calm /\ Active(threads[g]) BY DEF IInv, Active
<1>2. ASSUME NEW h \in Goroutines, h # g PROVE threads[h].at = "idle"
  <2>1. ~Active(threads[h]) /\ Plain(threads[h]) BY <1>1, <1>2 DEF Calm
  <2>2. threads[h].at \in Ats /\ threads[h].at # "crashed"
    <3>1. threads[h] \in Threads BY AtTyped
    <3>2. QED BY <3>1 DEF Threads, Crashed
  <2>3. QED BY <2>1, <2>2 DEF Active, Plain, Ats
<1>3. /\ Len(transports) >= IF g = App THEN 1 ELSE 2
      /\ Len(transports) \in Nat /\ Len(transports) <= MaxDials
  <2>1. Counted(g) BY <1>1 DEF Calm
  <2>2. QED BY <2>1, AtTyped DEF Counted, Values
<1>4. \E r \in Goroutines \ {App} : r # g
  <2>1. CASE g = App
    <3>1. 1 \in Goroutines \ {App} BY <1>3, <2>1, DialsAssumption DEF Goroutines, App
    <3>2. QED BY <2>1, <3>1
  <2>2. CASE g # App
    <3>1. 1 \in Goroutines \ {App} /\ 2 \in Goroutines \ {App}
      BY <1>3, <2>2, DialsAssumption DEF Goroutines, App
    <3>2. QED BY <3>1
  <2>3. QED BY <2>1, <2>2
<1>5. QED BY <1>2, <1>4

LEMMA SessionStarts ==
  ASSUME IInv, NEW g \in Goroutines, threads[g].at = "reply", ~Crashed,
         NEW r, r = CHOOSE n \in Goroutines \ {App} : threads[n].at = "idle",
         NEW t, t = Return(g, "ok"),
         threads' = [threads EXCEPT ![g] = t, ![r] = Starting],
         Values', transports' = transports,
         history'.quiet <=> history.quiet, history'.refused <=> history.refused
  PROVE  IInv'
<1>1. /\ StateType /\ Stacks /\ threads \in [Goroutines -> Threads]
      /\ Len(transports) \in Nat
  BY AtTyped DEF StateType
<1>2. t \in Threads /\ Stacked(t) /\ (Plain(threads[g]) => t = Idle)
  BY <1>1, ReturnFits
<1>3. Starting = [at |-> "read", tr |-> 0, stack |-> <<>>] BY DEF Starting, Idle
<1>4. Starting \in Threads /\ Stacked(Starting) BY <1>3, Resting
<1>5. /\ threads' \in [Goroutines -> Threads]
      /\ \A h \in Goroutines :
           threads'[h] = IF h = r THEN Starting ELSE IF h = g THEN t ELSE threads[h]
  BY <1>1, <1>2, <1>4
<1>6. ASSUME NEW h \in Goroutines PROVE Stacked(threads'[h])
  <2>1. Stacked(threads[h]) BY <1>1 DEF Stacks
  <2>2. QED BY <1>2, <1>4, <1>5, <2>1
<1>7. Stacks' BY <1>6 DEF Stacks
<1>8. ASSUME history'.quiet PROVE Calm' /\ EstablishedIsRead'
  <2>1. history.quiet /\ Active(threads[g]) BY <1>8 DEF Active
  <2>2. ~history.refused /\ Plain(threads[g]) /\ Counted(g) BY <2>1, NotRefused
  <2>3. /\ \A h \in Goroutines : h # g => threads[h].at = "idle"
        /\ \E n \in Goroutines \ {App} : threads[n].at = "idle"
    BY <2>1, RoomForReceiver
  <2>4. r \in Goroutines /\ r # App /\ r # g
    <3>1. r \in Goroutines \ {App} /\ threads[r].at = "idle" BY <2>3
    <3>2. QED BY <3>1
  <2>5. \A h \in Goroutines : h # r => threads'[h].at = "idle"
    BY <1>2, <1>5, <2>2, <2>3 DEF Idle
  <2>6. threads'[r].at = "read"
    <3>1. threads'[r] = Starting BY <1>5, <2>4
    <3>2. Starting.at = "read" BY <1>3
    <3>3. QED BY <3>1, <3>2
  <2>7. \A h \in Goroutines : Active(threads'[h]) => h = r BY <2>5 DEF Active
  <2>8. Len(transports) >= 1
    <3>1. Len(transports) >= IF g = App THEN 1 ELSE 2 BY <2>2 DEF Counted
    <3>2. QED BY <1>1, <3>1
  <2>9. \A h \in Goroutines : threads'[h].at \in {"idle", "read"} BY <2>5, <2>6
  <2>10. \A h \in Goroutines : Plain(threads'[h]) BY <2>9 DEF Plain
  <2>11. ASSUME NEW h \in Goroutines PROVE Counted(h)'
    <3>1. Len(transports') >= 1 BY <2>8
    <3>2. threads'[h].at \notin {"handshake", "reply"} BY <2>9
    <3>3. QED BY <3>1, <3>2 DEF Counted
  <2>12. Calm' BY <2>2, <2>7, <2>10, <2>11 DEF Calm
  <2>13. EstablishedIsRead' BY <2>4, <2>6 DEF EstablishedIsRead, Receivers
  <2>14. QED BY <2>12, <2>13
<1>9. ~history'.quiet => EstablishedIsRead' BY DEF EstablishedIsRead
<1>10. QED BY <1>5, <1>7, <1>8, <1>9 DEF IInv, StateType

LEMMA AcceptedHolds ==
  ASSUME IInv, NEW g \in Goroutines, Accepted(g)
  PROVE  IInv'
<1> DEFINE r == CHOOSE n \in Goroutines \ {App} : threads[n].at = "idle"
           t == [threads[g] EXCEPT !.at = "crashed"]
<1>1. /\ threads[g].at = "reply" /\ ~Crashed
      /\ handler' = handler /\ run' = run /\ metrics' = metrics
      /\ transports' = transports /\ current' = current /\ state' = "established"
      /\ history' = [history EXCEPT !.closed = FALSE]
  BY DEF Accepted, At
<1>2. StateType /\ Stacks /\ Values /\ threads[g] \in Threads /\ Len(transports) \in Nat
  BY AtTyped
<1>3. /\ history'.quiet <=> history.quiet
      /\ history'.refused <=> history.refused
      /\ history' \in [quiet : BOOLEAN, refused : BOOLEAN, closed : BOOLEAN]
  BY <1>1, <1>2 DEF Values
<1>4. Values' BY <1>1, <1>2, <1>3 DEF Values
<1>5. CASE threads' = [threads EXCEPT ![g] = t]
  <2>1. t \in Threads /\ t.at = "crashed" /\ t.stack = threads[g].stack
    BY <1>2 DEF Threads, Ats
  <2> HIDE DEF t
  <2>2. threads[g].at = "reply" BY <1>1
  <2>3. Stacked(t) BY <2>1, <2>2, Goes
  <2>4. Plain(t) /\ t.at \notin {"handshake", "reply"} /\ Active(threads[g])
    BY <2>1, <2>2 DEF Plain, Active
  <2>5. threads'[g] = t BY <1>2, <1>5, <2>1, <2>3, Moved
  <2>6. Crashed' BY <2>1, <2>5 DEF Crashed
  <2>7. EstablishedIsRead' BY <2>6 DEF EstablishedIsRead
  <2>8. transports' = transports BY <1>1
  <2>9. QED BY <1>3, <1>4, <1>5, <2>1, <2>3, <2>4, <2>7, <2>8, ReceiverMoves
<1>6. CASE threads' = [threads EXCEPT ![g] = Return(g, "ok"), ![r] = [Idle EXCEPT !.at = "read"]]
  <2>1. threads' = [threads EXCEPT ![g] = Return(g, "ok"), ![r] = Starting]
    BY <1>6 DEF Starting
  <2>2. threads[g].at = "reply" /\ ~Crashed /\ transports' = transports BY <1>1
  <2>3. QED BY <1>3, <1>4, <2>1, <2>2, SessionStarts
<1>7. QED BY <1>5, <1>6 DEF Accepted

-----------------------------------------------------------------------------
(* The inductive invariant, and the properties of the runs.                *)

LEMMA InitHolds ==
  ASSUME Init
  PROVE  IInv
<1>1. /\ handler \in {"none", "own"} /\ run = "idle" /\ metrics = FALSE
      /\ transports = <<>> /\ current = 0 /\ state = "disconnected"
      /\ threads = [g \in Goroutines |-> Idle]
      /\ history = [quiet |-> TRUE, refused |-> FALSE, closed |-> FALSE]
  BY DEF Init
<1>2. Len(transports) = 0 /\ transports \in Seq({"failed", "open", "closed", "gone"})
  BY <1>1
<1>3. Values
  <2>1. history \in [quiet : BOOLEAN, refused : BOOLEAN, closed : BOOLEAN] BY <1>1
  <2>2. current \in 0 .. Len(transports) /\ Len(transports) <= MaxDials
    BY <1>1, <1>2, DialsAssumption
  <2>3. metrics \in BOOLEAN /\ handler \in Handlers BY <1>1 DEF Handlers
  <2>4. QED BY <1>1, <1>2, <2>1, <2>2, <2>3 DEF Values
<1>4. Idle \in Threads /\ Stacked(Idle) BY Resting DEF Idle
<1>5. threads \in [Goroutines -> Threads] /\ \A g \in Goroutines : threads[g] = Idle
  BY <1>1, <1>4
<1>6. Stacks BY <1>4, <1>5 DEF Stacks
<1>7. Idle.at = "idle" BY DEF Idle
<1>8. \A g \in Goroutines : threads[g].at = "idle" BY <1>5, <1>7
<1>9. Calm BY <1>1, <1>8 DEF Calm, Plain, Counted, Active
<1>10. EstablishedIsRead BY <1>1 DEF EstablishedIsRead
<1>11. QED BY <1>3, <1>5, <1>6, <1>9, <1>10 DEF IInv, StateType

LEMMA NextHolds ==
  ASSUME IInv, [Next]_vars
  PROVE  IInv'
<1>1. CASE AppRun BY <1>1, AppRunHolds
<1>2. CASE AppConnect BY <1>2, AppConnectHolds
<1>3. CASE AppDisconnect BY <1>3, AppDisconnectHolds
<1>4. ASSUME NEW g \in Goroutines, Step(g) PROVE IInv'
  <2>1. CASE Dial(g) BY <2>1, DialHolds
  <2>2. CASE HandshakeSent(g) BY <2>2, HandshakeSentHolds
  <2>3. CASE HandshakeFails(g) BY <2>3, HandshakeFailsHolds
  <2>4. CASE Accepted(g) BY <2>4, AcceptedHolds
  <2>5. CASE Refused(g) BY <2>5, RefusedHolds
  <2>6. CASE NoHandshake(g) BY <2>6, NoHandshakeHolds
  <2>7. CASE BeginRead(g) BY <2>7, BeginReadHolds
  <2>8. CASE RecvFails(g) BY <2>8, RecvFailsHolds
  <2>9. CASE RecvDisconnects(g) BY <2>9, RecvDisconnectsHolds
  <2>10. QED BY <1>4, <2>1, <2>2, <2>3, <2>4, <2>5, <2>6, <2>7, <2>8, <2>9 DEF Step
<1>5. ASSUME NEW g \in Goroutines, RecvStanza(g) PROVE IInv' BY <1>5, RecvStanzaHolds
<1>6. ASSUME NEW g \in Goroutines, RecvClose(g) PROVE IInv' BY <1>6, RecvCloseHolds
<1>7. ASSUME NEW g \in Goroutines, NEW conflict \in BOOLEAN, RecvStreamError(g, conflict)
      PROVE  IInv'
  BY <1>7, RecvStreamErrorHolds
<1>8. ASSUME NEW n \in DOMAIN transports, PeerLeaves(n) PROVE IInv' BY <1>8, PeerLeavesHolds
<1>9. CASE UNCHANGED vars BY <1>9, StutterHolds
<1>10. QED BY <1>1, <1>2, <1>3, <1>4, <1>5, <1>6, <1>7, <1>8, <1>9 DEF Next

(* The stacks of the handlers are well formed; and until a stream error is *)
(* read or a handshake cannot be written, one goroutine at most connects   *)
(* or receives, none once the server refused (Resume, recv).               *)
THEOREM Invariance == Spec => []IInv
<1>1. Init => IInv BY InitHolds
<1>2. IInv /\ [Next]_vars => IInv' BY NextHolds
<1>3. QED BY <1>1, <1>2, PTL DEF Spec

(* One goroutine at a time uses the connection, and while the application  *)
(* is told that there is one it is read (Resume, recv).                    *)
THEOREM ReadByOne == Spec => []OneReader
<1>1. ASSUME IInv PROVE OneReader
  <2>1. StateType /\ EstablishedIsRead BY <1>1 DEF IInv
  <2>2. TypeOK
    <3>1. \A g \in Goroutines : threads[g].at \in Ats BY <2>1 DEF StateType, Threads
    <3>2. /\ transports \in Seq({"failed", "open", "closed", "gone"})
          /\ \A n \in DOMAIN transports : transports[n] \in {"failed", "open", "closed", "gone"}
      BY <2>1 DEF StateType, Values
    <3>3. QED BY <2>1, <3>1, <3>2 DEF StateType, Values, TypeOK, Ats
  <2>3. OneAtATime
    <3> DEFINE A == Receivers \cup Connecting
    <3>1. SUFFICES ASSUME history.quiet PROVE Cardinality(A) <= 1 BY DEF OneAtATime
    <3>2. \A g \in A : g \in Goroutines /\ Active(threads[g])
      BY DEF Receivers, Connecting, Active
    <3>3. \A g, h \in A : g = h BY <1>1, <3>1, <3>2 DEF IInv, Calm
    <3> HIDE DEF A
    <3>4. CASE A = {} BY <3>4, FS_EmptySet
    <3>5. CASE A # {}
      <4>1. PICK g \in A : TRUE BY <3>5
      <4>2. A = {g} BY <3>3, <4>1
      <4>3. QED BY <4>2, FS_Singleton
    <3>6. QED BY <3>4, <3>5
  <2>4. QED BY <2>1, <2>2, <2>3 DEF OneReader
<1>2. QED BY <1>1, Invariance, PTL

(* A component whose handshake the server refused does not try again by    *)
(* itself, whoever handles the events (Resume, "no auth loop").            *)
THEOREM NoLoop == Spec => NoAuthLoop
<1>1. ASSUME IInv, [Next]_vars, history.refused, history.quiet
      PROVE  Len(transports') = Len(transports)
  <2>1. \A g \in Goroutines : ~Active(threads[g]) BY <1>1 DEF IInv, Calm
  <2>2. StateType BY <1>1 DEF IInv
  <2>3. \A g \in Goroutines : ~Dial(g) BY <2>1 DEF Dial, At, Active
  <2>4. CASE Disconnect BY <2>2, <2>4, Disconnected
  <2>5. CASE transports' = transports BY <2>5
  <2>6. ASSUME NEW n \in DOMAIN transports, PeerLeaves(n)
        PROVE  Len(transports') = Len(transports)
    <3>1. transports' = [transports EXCEPT ![n] = "gone"] BY <2>6 DEF PeerLeaves
    <3>2. /\ transports \in Seq({"failed", "open", "closed", "gone"})
          /\ n \in 1 .. Len(transports)
      BY <2>2 DEF StateType, Values
    <3>3. QED BY <3>1, <3>2, ExceptSeq
  <2>7. AppRun \/ AppConnect \/ AppDisconnect => Disconnect \/ transports' = transports
    BY DEF AppRun, AppConnect, AppDisconnect
  <2>8. ASSUME NEW g \in Goroutines, Step(g) PROVE Disconnect \/ transports' = transports
    BY <2>3, <2>8 DEF Step, HandshakeSent, HandshakeFails, Accepted, Refused, NoHandshake,
                      BeginRead, RecvFails, RecvDisconnects
  <2>9. ASSUME NEW g \in Goroutines, RecvStanza(g) \/ RecvClose(g)
        PROVE  transports' = transports
    BY <2>9 DEF RecvStanza, RecvClose
  <2>10. ASSUME NEW g \in Goroutines, NEW conflict \in BOOLEAN, RecvStreamError(g, conflict)
         PROVE  Disconnect \/ transports' = transports
    BY <2>10 DEF RecvStreamError
  <2>11. UNCHANGED vars => transports' = transports BY DEF vars
  <2>12. QED BY <1>1, <2>4, <2>5, <2>6, <2>7, <2>8, <2>9, <2>10, <2>11 DEF Next
<1>2. IInv /\ [Next]_vars =>
        [history.refused /\ history.quiet => Len(transports') = Len(transports)]_vars
  BY <1>1
<1>3. QED BY <1>2, Invariance, PTL DEF Spec, NoAuthLoop
=============================================================================

----------------------- MODULE StreamManagementProofs -----------------------
(***************************************************************************)
(* Proofs about StreamManagement for every set of senders and all bounds.  *)
(***************************************************************************)
EXTENDS StreamManagement, SequenceTheorems, FiniteSetTheorems, TLAPS

-----------------------------------------------------------------------------
(* What the operators of UnAckQueue preserve, for every queue and every    *)
(* acknowledged count.                                                     *)

LEMMA NewQueueConsecutive ==
  NewUnAckQueue \in Seq(Entry) /\ Consecutive(NewUnAckQueue)
BY DEF NewUnAckQueue, Consecutive

(* The ids of a queue are natural numbers.                                 *)
LEMMA IdsAreNat ==
  ASSUME NEW q \in Seq(Entry), NEW i \in 1 .. Len(q)
  PROVE  q[i] \in Entry /\ q[i].id \in Nat /\ q[i].stz \in Nat
<1>1. q[i] \in Entry
  BY ElementOfSeq
<1> QED BY <1>1 DEF Entry

(* The first read of Push, and what its second read and assignment make.   *)
LEMMA PushIdxTyped ==
  ASSUME NEW q \in Seq(Entry)
  PROVE  PushIdx(q) \in Nat
<1>1. CASE q = <<>>
  BY <1>1 DEF PushIdx
<1>2. CASE q # <<>>
  <2>1. Len(q) \in 1 .. Len(q)
    BY <1>2
  <2> QED BY <1>2, <2>1, IdsAreNat DEF PushIdx
<1> QED BY <1>1, <1>2

LEMMA PushTyped ==
  ASSUME NEW q \in Seq(Entry), NEW id \in Nat, NEW stz \in Nat
  PROVE  Push(q, id, stz) \in Seq(Entry)
<1>1. [id |-> id, stz |-> stz] \in Entry
  BY DEF Entry
<1> QED BY <1>1 DEF Push

(* The numbering is kept when the id follows the last one of the queue the *)
(* second read finds.                                                      *)
LEMMA PushConsecutive ==
  ASSUME NEW q \in Seq(Entry), Consecutive(q), NEW id \in Nat, NEW stz \in Nat,
         q # <<>> => id = q[Len(q)].id + 1
  PROVE  Consecutive(Push(q, id, stz))
<1> DEFINE e == [id |-> id, stz |-> stz]
           p == Push(q, id, stz)
<1>1. e \in Entry /\ p = Append(q, e)
  BY DEF Push, Entry
<1>2. p \in Seq(Entry) /\ Len(p) = Len(q) + 1 /\ p[Len(q) + 1] = e
      /\ \A i \in 1 .. Len(q) : p[i] = q[i]
  BY <1>1
<1> SUFFICES ASSUME NEW i \in 1 .. Len(p)
             PROVE  p[i].id = p[1].id + i - 1
  BY DEF Consecutive
<1>3. CASE i \in 1 .. Len(q)
  BY <1>2, <1>3 DEF Consecutive
<1>4. CASE i = Len(q) + 1 /\ q = <<>>
  BY <1>2, <1>4
<1>5. CASE i = Len(q) + 1 /\ q # <<>>
  <2>0. Len(q) \in 1 .. Len(q) /\ 1 \in 1 .. Len(q)
    BY <1>5
  <2>1. q[Len(q)].id = q[1].id + Len(q) - 1
    BY <2>0 DEF Consecutive
  <2>2. q[1].id \in Nat /\ Len(q) \in Nat
    BY <2>0, IdsAreNat
  <2>3. p[i].id = (q[1].id + Len(q) - 1) + 1 /\ p[1].id = q[1].id
    BY <1>2, <1>5, <2>0, <2>1
  <2> HIDE DEF p
  <2> QED BY <2>2, <2>3, <1>5
<1> QED BY <1>2, <1>3, <1>4, <1>5

-----------------------------------------------------------------------------
(* The loops of SendMissingStz and of Session.resume.                      *)

Covered(q, h) == {i \in 1 .. Len(q) : \A j \in 1 .. i : q[j].id <= h}

LEMMA AckIdxTyped ==
  ASSUME NEW q \in Seq(Entry), NEW h \in Nat
  PROVE  AckIdx(q, h) \in 0 .. Len(q)
<1>0. Len(q) \in Nat
  OBVIOUS
<1>1. IsFiniteSet(1 .. Len(q)) /\ Cardinality(1 .. Len(q)) = Len(q)
  <2> DEFINE n == Len(q)
  <2> HIDE DEF n
  <2>1. n \in Int /\ 1 \in Int /\ (IF 1 > n THEN 0 ELSE n - 1 + 1) = n
    BY <1>0 DEF n
  <2>2. IsFiniteSet(1 .. n) /\ Cardinality(1 .. n) = n
    BY <2>1, FS_Interval
  <2> QED BY <2>2 DEF n
<1>2. Covered(q, h) \subseteq 1 .. Len(q)
  BY DEF Covered
<1>3. /\ IsFiniteSet(Covered(q, h))
      /\ Cardinality(Covered(q, h)) <= Len(q)
  BY <1>1, <1>2, FS_Subset
<1>4. Cardinality(Covered(q, h)) \in Nat
  BY <1>3, FS_CardinalityType
<1>5. AckIdx(q, h) = Cardinality(Covered(q, h))
  BY DEF AckIdx, Covered
<1> QED BY <1>0, <1>3, <1>4, <1>5

LEMMA TrimTyped ==
  ASSUME NEW q \in Seq(Entry), NEW h \in Nat
  PROVE  TrimAcked(q, h) \in Seq(Entry)
<1>1. AckIdx(q, h) \in 0 .. Len(q)
  BY AckIdxTyped
<1> QED BY <1>1 DEF TrimAcked

(* On a consecutive queue what the loops pass is what h covers.            *)
LEMMA AckIdxInQueue ==
  ASSUME NEW q \in Seq(Entry), Consecutive(q), NEW h \in Nat
  PROVE  /\ AckIdx(q, h) \in 0 .. Len(q)
         /\ \A i \in 1 .. Len(q) : i <= AckIdx(q, h) <=> q[i].id <= h
<1> DEFINE C == Covered(q, h)
           k == IF q = <<>> \/ q[1].id > h THEN 0
                ELSE IF h - q[1].id + 1 <= Len(q) THEN h - q[1].id + 1 ELSE Len(q)
<1>0. Len(q) \in Nat
  OBVIOUS
<1>1. \A i \in 1 .. Len(q) : q[i].id \in Nat /\ q[i].id = q[1].id + i - 1
  <2> SUFFICES ASSUME NEW i \in 1 .. Len(q)
               PROVE  q[i].id \in Nat /\ q[i].id = q[1].id + i - 1
    OBVIOUS
  <2>1. q[i].id \in Nat
    BY IdsAreNat
  <2>2. q[i].id = q[1].id + i - 1
    BY DEF Consecutive
  <2> QED BY <2>1, <2>2
<1>2. q # <<>> => q[1].id \in Nat
  BY <1>0, <1>1
<1>3. k \in 0 .. Len(q)
  BY <1>0, <1>2
<1>4. \A i \in 1 .. Len(q) : i <= k <=> q[i].id <= h
  <2> SUFFICES ASSUME NEW i \in 1 .. Len(q) PROVE i <= k <=> q[i].id <= h
    OBVIOUS
  <2>1. q # <<>> /\ i \in Nat /\ 1 <= i /\ i <= Len(q)
    BY <1>0
  <2>2. q[i].id = q[1].id + i - 1 /\ q[1].id \in Nat
    BY <1>1, <1>2, <2>1
  <2> QED BY <1>0, <2>1, <2>2
<1> HIDE DEF k
<1>5. C = 1 .. k
  <2>1. ASSUME NEW i \in C PROVE i \in 1 .. k
    <3>1. i \in 1 .. Len(q) /\ i \in 1 .. i
      BY <1>0 DEF Covered
    <3>2. q[i].id <= h
      BY <3>1 DEF Covered
    <3> QED BY <1>0, <1>3, <1>4, <3>1, <3>2
  <2>2. ASSUME NEW i \in 1 .. k PROVE i \in C
    <3>1. i \in 1 .. Len(q) /\ \A j \in 1 .. i : j \in 1 .. Len(q) /\ j <= k
      BY <1>0, <1>3
    <3> QED BY <1>4, <3>1 DEF Covered
  <2> QED BY <2>1, <2>2
<1>6. AckIdx(q, h) = k
  <2>1. k \in Nat /\ Cardinality(1 .. k) = k
    BY <1>0, <1>3, FS_Interval
  <2> QED BY <1>5, <2>1 DEF AckIdx, Covered
<1> QED BY <1>3, <1>4, <1>6

(* Trimming keeps the numbering.                                           *)
LEMMA TrimConsecutive ==
  ASSUME NEW q \in Seq(Entry), Consecutive(q), NEW h \in Nat
  PROVE  Consecutive(TrimAcked(q, h))
<1> DEFINE k == AckIdx(q, h)
           t == TrimAcked(q, h)
<1>1. k \in 0 .. Len(q) /\ Len(q) \in Nat
  BY AckIdxInQueue
<1>2. t = SubSeq(q, k + 1, Len(q))
  BY DEF TrimAcked
<1> HIDE DEF k, t
<1>3. t \in Seq(Entry) /\ Len(t) = Len(q) - k
      /\ \A i \in 1 .. Len(t) : t[i] = q[k + i]
  BY <1>1, <1>2
<1>4. Consecutive(t)
  <2> SUFFICES ASSUME NEW i \in 1 .. Len(t)
               PROVE  t[i].id = t[1].id + i - 1
    BY DEF Consecutive
  <2>1. t[i] = q[k + i] /\ t[1] = q[k + 1] /\ k + i \in 1 .. Len(q) /\ k + 1 \in 1 .. Len(q)
    BY <1>1, <1>3
  <2>2. q[k + i].id = q[1].id + (k + i) - 1 /\ q[k + 1].id = q[1].id + (k + 1) - 1
    BY <2>1 DEF Consecutive
  <2>3. q[1].id \in Nat
    <3>1. 1 \in 1 .. Len(q)
      BY <1>1, <2>1
    <3> QED BY <3>1, IdsAreNat
  <2>4. t[i].id = q[1].id + (k + i) - 1 /\ t[1].id = q[1].id + (k + 1) - 1
    BY <2>1, <2>2
  <2>5. i \in Nat /\ k \in Nat
    BY <1>1, <1>3
  <2> QED BY <2>3, <2>4, <2>5
<1> QED BY <1>3, <1>4 DEF t

-----------------------------------------------------------------------------
(* Messages.                                                               *)

LEMMA MessagesTyped ==
  ASSUME NEW n \in Nat, NEW h \in Nat, NEW res \in BOOLEAN
  PROVE  /\ Stz(n) \in Msg /\ SMAnswer(h) \in Msg
         /\ SMResume(n, h) \in Msg /\ SMResumed(n, h) \in Msg
         /\ SMEnable(n) \in Msg /\ SMEnabled(n, res) \in Msg
BY DEF Msg, Types, Stz, SMAnswer, SMResume, SMResumed, SMEnable, SMEnabled

LEMMA ConstantMessagesTyped ==
  SMRequest \in Msg /\ SMFailed \in Msg /\ InitialPresence \in Msg
BY DEF Msg, Types, Stz, SMRequest, SMFailed, InitialPresence

LEMMA WriteTyped ==
  ASSUME NEW m \in Msg, toServer \in Seq(Msg), Write(m)
  PROVE  toServer' \in Seq(Msg)
BY DEF Write

LEMMA ReplyTyped ==
  ASSUME NEW ms \in Seq(Msg), toClient \in Seq(Msg), Reply(ms)
  PROVE  toClient' \in Seq(Msg)
BY DEF Reply

LEMMA HeadTyped ==
  ASSUME NEW ch \in Seq(Msg), ch # <<>>
  PROVE  /\ Head(ch) \in Msg /\ Tail(ch) \in Seq(Msg)
         /\ Head(ch).n \in Nat /\ Head(ch).h \in Nat
<1>1. Head(ch) \in Msg /\ Tail(ch) \in Seq(Msg)
  OBVIOUS
<1> QED BY <1>1 DEF Msg

-----------------------------------------------------------------------------
(* Type correctness.                                                       *)

THEOREM InitTypeOK == Init => TypeOK
<1> SUFFICES ASSUME Init PROVE TypeOK
  OBVIOUS
<1> USE DEF Init
<1>0. <<>> \in Seq(Entry) /\ <<>> \in Seq(Nat) /\ <<>> \in Seq(Msg)
  OBVIOUS
<1>1. ClientTypeOK
  BY <1>0 DEF ClientTypeOK, NewUnAckQueue, Phases
<1>2. SendTypeOK
  <2>1. NoCall \in Call
    BY <1>0 DEF NoCall, Call
  <2> QED BY <1>0, <2>1 DEF SendTypeOK, Fates
<1>3. NetTypeOK
  BY <1>0 DEF NetTypeOK
<1>4. ServerTypeOK
  BY DEF ServerTypeOK
<1>5. CountTypeOK
  BY BoundsAssumption DEF CountTypeOK
<1> QED BY <1>1, <1>2, <1>3, <1>4, <1>5 DEF TypeOK

(* The entries an acknowledgement leaves.                                  *)
LEMMA AcknowledgeTyped ==
  ASSUME TypeOK, NEW h \in Nat, Acknowledge(h)
  PROVE  /\ uaq' \in Seq(Entry)
         /\ fate' \in [1 .. MaxSends -> Fates]
<1>1. uaq \in Seq(Entry) /\ fate \in [1 .. MaxSends -> Fates]
  BY DEF TypeOK, ClientTypeOK, SendTypeOK
<1>2. uaq' \in Seq(Entry)
  BY <1>1, TrimTyped DEF Acknowledge
<1>3. fate' \in [1 .. MaxSends -> Fates]
  BY <1>1 DEF Acknowledge, Fates
<1> QED BY <1>2, <1>3

LEMMA AbandonTyped ==
  ASSUME fate \in [1 .. MaxSends -> Fates]
  PROVE  Abandon(fate) \in [1 .. MaxSends -> Fates]
BY DEF Abandon, Fates

(* What a Push in progress assigns.                                        *)
LEMMA PushesTyped ==
  ASSUME TypeOK, NEW s \in Senders
  PROVE  Push(sender[s].seen, sender[s].idx, sender[s].stz) \in Seq(Entry)
<1>1. sender[s] \in Call
  BY DEF TypeOK, SendTypeOK
<1>2. sender[s].seen \in Seq(Entry) /\ sender[s].idx \in Nat /\ sender[s].stz \in Nat
  BY <1>1 DEF Call
<1> QED BY <1>2, PushTyped

-----------------------------------------------------------------------------
(* One lemma per part of the type invariant, one case per action.          *)

LEMMA ClientType ==
  ASSUME TypeOK, [Next]_vars
  PROVE  ClientTypeOK'
<1> USE DEF ClientTypeOK
<1>0. /\ ClientTypeOK /\ CountTypeOK /\ toClient \in Seq(Msg)
      /\ <<>> \in Seq(Nat) /\ NewUnAckQueue \in Seq(Entry)
  BY NewQueueConsecutive DEF TypeOK, NetTypeOK
<1>c. count.enables \in Nat
  BY <1>0 DEF CountTypeOK
<1>h. toClient # <<>> => Head(toClient).n \in Nat /\ Head(toClient).h \in Nat
  BY <1>0, HeadTyped
<1>1. CASE UNCHANGED clientVars
  BY <1>0, <1>1 DEF clientVars
<1>2. CASE Dial
  BY <1>0, <1>2 DEF Dial, KeepSMState, Phases
<1>3. CASE NegotiationFails
  BY <1>0, <1>3 DEF NegotiationFails, KeepSMState, Phases
<1>4. CASE SessionLost
  BY <1>0, <1>4 DEF SessionLost, ClearSMState, Phases
<1>5. CASE BeginResume
  BY <1>0, <1>5 DEF BeginResume, KeepSMState, Phases
<1>6. CASE BeginEnable
  BY <1>0, <1>6 DEF BeginEnable, WriteEnable, KeepSMState, Phases
<1>7. CASE ReadResumed
  <2>1. uaq' \in Seq(Entry)
    BY <1>7, <1>h, AcknowledgeTyped DEF ReadResumed
  <2> QED BY <1>0, <1>7, <2>1 DEF ReadResumed, Phases
<1>8. CASE ReadResumeFailed
  BY <1>0, <1>8 DEF ReadResumeFailed, ClearSMState, WriteEnable, Phases
<1>9. CASE ResumeError
  BY <1>0, <1>9 DEF ResumeError, ClearSMState, Phases
<1>10. CASE ReadEnabled
  BY <1>0, <1>c, <1>h, <1>10 DEF ReadEnabled, NewSMState, Phases
<1>11. CASE ReadEnableFailed
  BY <1>0, <1>c, <1>11 DEF ReadEnableFailed, NewSMState, Phases
<1>12. CASE EnableError
  BY <1>0, <1>12 DEF EnableError, KeepSMState, Phases
<1>13. CASE PostSessionSetup
  BY <1>0, <1>13 DEF PostSessionSetup, KeepSMState, Phases
<1>14. CASE SetupFails
  BY <1>0, <1>14 DEF SetupFails, KeepSMState, Phases
<1>15. CASE RecvStanza
  <2>1. routed' \in Seq(Nat)
    BY <1>0, <1>h, <1>15 DEF RecvStanza, Reading
  <2> QED BY <1>0, <1>15, <2>1 DEF RecvStanza
<1>16. CASE RecvRequestFails
  BY <1>0, <1>16 DEF RecvRequestFails, Phases
<1>17. CASE RecvAnswer
  <2>1. uaq' \in Seq(Entry)
    BY <1>17, <1>h, AcknowledgeTyped DEF RecvAnswer, Reading
  <2> QED BY <1>0, <1>17, <2>1 DEF RecvAnswer
<1>18. CASE RecvError
  BY <1>0, <1>18 DEF RecvError, KeepSMState, Phases
<1>19. CASE \E s \in Senders : SendPush(s)
  <2>1. PICK s \in Senders : SendPush(s)
    BY <1>19
  <2>2. uaq' \in Seq(Entry)
    BY <1>0, <2>1, PushesTyped DEF SendPush
  <2> QED BY <1>0, <2>1, <2>2 DEF SendPush
<1>20. CASE RecvRequest \/ ResendOne \/ ResendDone \/ ResendFails \/ ConnectionLost
  BY <1>1, <1>20 DEF RecvRequest, ResendOne, ResendDone, ResendFails, ConnectionLost
<1>21. CASE SendRequest \/ \E s \in Senders : SendStart(s) \/ SendAppend(s) \/ SendWrite(s)
  BY <1>1, <1>21 DEF SendRequest, SendStart, SendAppend, SendWrite
<1>22. CASE Server
  BY <1>1, <1>22
  DEF Server, ServerStanza, ServerAnswers, ServerAcked, ServerResumes, ServerRefusesResume,
      ServerMismatch, ServerEnables, ServerRefusesEnable, ServerSends, ServerRequests,
      ServerForgets, Serve
<1>23. CASE UNCHANGED vars
  BY <1>1, <1>23 DEF vars
<1> QED
  BY <1>2, <1>3, <1>4, <1>5, <1>6, <1>7, <1>8, <1>9, <1>10, <1>11, <1>12, <1>13, <1>14,
     <1>15, <1>16, <1>17, <1>18, <1>19, <1>20, <1>21, <1>22, <1>23
  DEF Next, Connecting, Receiving, Sending

LEMMA SendType ==
  ASSUME TypeOK, [Next]_vars
  PROVE  SendTypeOK'
<1> USE DEF SendTypeOK
<1>0. /\ SendTypeOK /\ CountTypeOK /\ toClient \in Seq(Msg) /\ uaq \in Seq(Entry)
      /\ queueObj \in Nat /\ Abandon(fate) \in [1 .. MaxSends -> Fates]
  BY AbandonTyped DEF TypeOK, NetTypeOK, ClientTypeOK
<1>1. CASE UNCHANGED <<sendVars, resendVars>>
  BY <1>0, <1>1 DEF sendVars, resendVars
<1>2. CASE UNCHANGED resendVars /\ UNCHANGED sender /\ fate' \in {fate, Abandon(fate)}
  BY <1>0, <1>2 DEF resendVars
<1>3. CASE ReadResumed
  <2>1. fate' \in [1 .. MaxSends -> Fates]
    BY <1>0, <1>3, AcknowledgeTyped, HeadTyped DEF ReadResumed
  <2> QED BY <1>0, <1>3, <2>1 DEF ReadResumed, resendVars
<1>4. CASE RecvAnswer
  <2> DEFINE h == Head(toClient).h
             left == TrimAcked(uaq, h)
  <2>1. h \in Nat
    BY <1>0, <1>4, HeadTyped DEF RecvAnswer, Reading
  <2>2. fate' \in [1 .. MaxSends -> Fates] /\ left \in Seq(Entry)
    BY <1>4, <2>1, AcknowledgeTyped DEF RecvAnswer, Acknowledge
  <2>3. pending' = [i \in 1 .. Len(left) |-> left[i].stz] /\ resending' \in BOOLEAN
    BY <1>4 DEF RecvAnswer
  <2> HIDE DEF left
  <2>4. Len(left) \in Nat /\ \A i \in 1 .. Len(left) : left[i].stz \in Nat
    BY <2>2, IdsAreNat
  <2>5. pending' \in Seq(Nat)
    BY <2>3, <2>4
  <2> QED BY <1>0, <1>4, <2>2, <2>3, <2>5 DEF RecvAnswer
<1>5. CASE ResendOne
  BY <1>0, <1>5 DEF ResendOne, sendVars
<1>6. CASE ResendDone \/ ResendFails
  <2>1. <<>> \in Seq(Nat)
    OBVIOUS
  <2>2. pending' \in {pending, <<>>} /\ resending' = FALSE /\ UNCHANGED sendVars
    BY <1>6 DEF ResendDone, ResendFails
  <2> QED BY <1>0, <2>1, <2>2 DEF sendVars
<1>7. CASE \E s \in Senders : SendStart(s)
  <2>1. PICK s \in Senders : SendStart(s)
    BY <1>7
  <2>2. count.sends + 1 \in Nat
    BY <1>0, BoundsAssumption DEF CountTypeOK
  <2>3. [pc |-> "append", idx |-> PushIdx(uaq), seen |-> <<>>, obj |-> queueObj,
         stz |-> count.sends + 1] \in Call
    BY <1>0, <2>2, PushIdxTyped DEF Call
  <2> QED BY <1>0, <2>1, <2>3 DEF SendStart, resendVars
<1>15. CASE \E s \in Senders : SendAppend(s)
  <2>1. PICK s \in Senders : SendAppend(s)
    BY <1>15
  <2> DEFINE q == IF sender[s].obj = queueObj THEN uaq ELSE <<>>
  <2>2. sender[s] \in Call /\ q \in Seq(Entry)
    BY <1>0
  <2>3. sender' = [sender EXCEPT ![s] = [[sender[s] EXCEPT !.pc = "push"] EXCEPT !.seen = q]]
    BY <1>0, <2>1 DEF SendAppend
  <2>4. [[sender[s] EXCEPT !.pc = "push"] EXCEPT !.seen = q] \in Call
    <3> HIDE DEF q
    <3> QED BY <2>2 DEF Call
  <2> HIDE DEF q
  <2> QED BY <1>0, <2>1, <2>3, <2>4 DEF SendAppend, resendVars
<1>8. CASE \E s \in Senders : SendPush(s)
  <2>1. PICK s \in Senders : SendPush(s)
    BY <1>8
  <2>2. fate' \in [1 .. MaxSends -> Fates]
    BY <1>0, <2>1 DEF SendPush, Fates
  <2>3. sender[s] \in Call /\ <<>> \in Seq(Entry)
    BY <1>0
  <2>4. [[sender[s] EXCEPT !.pc = "write"] EXCEPT !.seen = <<>>] \in Call
    BY <2>3 DEF Call
  <2>5. sender' = [sender EXCEPT ![s] = [[sender[s] EXCEPT !.pc = "write"] EXCEPT !.seen = <<>>]]
    BY <1>0, <2>1 DEF SendPush
  <2> QED BY <1>0, <2>1, <2>2, <2>4, <2>5 DEF SendPush, resendVars
<1>9. CASE \E s \in Senders : SendWrite(s)
  <2>1. NoCall \in Call
    BY DEF NoCall, Call
  <2> QED BY <1>0, <1>9, <2>1 DEF SendWrite, resendVars
<1>10. CASE Connecting /\ ~ReadResumed
  BY <1>2, <1>10
  DEF Connecting, Dial, NegotiationFails, SessionLost, BeginResume, BeginEnable,
      ReadResumeFailed, ResumeError, ReadEnabled, ReadEnableFailed, EnableError,
      PostSessionSetup, SetupFails, KeepSMState, ClearSMState, NewSMState
<1>11. CASE RecvStanza \/ RecvRequest \/ RecvRequestFails
  BY <1>1, <1>11 DEF RecvStanza, RecvRequest, RecvRequestFails
<1>14. CASE RecvError
  BY <1>2, <1>14 DEF RecvError, KeepSMState
<1>12. CASE SendRequest \/ Server \/ ConnectionLost
  BY <1>1, <1>12
  DEF SendRequest, ConnectionLost,
      Server, ServerStanza, ServerAnswers, ServerAcked, ServerResumes, ServerRefusesResume,
      ServerMismatch, ServerEnables, ServerRefusesEnable, ServerSends, ServerRequests,
      ServerForgets, Serve
<1>13. CASE UNCHANGED vars
  BY <1>1, <1>13 DEF vars
<1> QED
  BY <1>3, <1>4, <1>5, <1>6, <1>7, <1>8, <1>9, <1>10, <1>11, <1>12, <1>13, <1>14, <1>15
  DEF Next, Receiving, Sending

LEMMA NetType ==
  ASSUME TypeOK, [Next]_vars
  PROVE  NetTypeOK'
<1> USE DEF NetTypeOK
<1>0. /\ NetTypeOK /\ <<>> \in Seq(Msg)
      /\ smId \in Nat /\ inbound \in Nat /\ count.enables + 1 \in Nat
      /\ pending \in Seq(Nat) /\ \A s \in Senders : sender[s].stz \in Nat
      /\ srv.sid \in Nat /\ srv.h \in Nat /\ srv.sent \in Nat
  BY DEF TypeOK, ClientTypeOK, SendTypeOK, CountTypeOK, ServerTypeOK, Call
<1>t. toClient # <<>> => Tail(toClient) \in Seq(Msg)
  BY <1>0
<1>s. toServer # <<>> => Tail(toServer) \in Seq(Msg) /\ Head(toServer).n \in Nat
                         /\ Head(toServer).h \in Nat
  BY <1>0, HeadTyped
<1>1. CASE UNCHANGED netVars
  BY <1>0, <1>1 DEF netVars
<1>2. CASE Dial \/ ConnectionLost
  BY <1>0, <1>2 DEF Dial, ConnectionLost
<1>3. CASE NegotiationFails \/ SessionLost \/ ResumeError \/ ReadEnableFailed \/ EnableError
  BY <1>0, <1>3
  DEF NegotiationFails, SessionLost, ResumeError, ReadEnableFailed, EnableError, CloseConnection
<1>4. CASE BeginResume
  <2>1. SMResume(smId, inbound) \in Msg
    BY <1>0, MessagesTyped
  <2> QED BY <1>0, <1>4, <2>1, WriteTyped DEF BeginResume
<1>5. CASE BeginEnable \/ ReadResumeFailed
  <2>1. SMEnable(count.enables + 1) \in Msg
    BY <1>0, MessagesTyped
  <2> QED BY <1>0, <1>t, <1>5, <2>1, WriteTyped DEF BeginEnable, ReadResumeFailed, WriteEnable
<1>6. CASE ReadResumed \/ ReadEnabled
  BY <1>0, <1>t, <1>6 DEF ReadResumed, ReadEnabled
<1>7. CASE PostSessionSetup \/ SetupFails
  <2>1. InitialPresence \in Msg
    BY ConstantMessagesTyped
  <2> QED BY <1>0, <1>7, <2>1, WriteTyped DEF PostSessionSetup, SetupFails
<1>8. CASE RecvStanza \/ RecvRequestFails \/ RecvAnswer
  BY <1>0, <1>t, <1>8 DEF RecvStanza, RecvRequestFails, RecvAnswer, Reading
<1>9. CASE RecvRequest
  <2>1. SMAnswer(inbound) \in Msg
    BY <1>0, MessagesTyped
  <2> QED BY <1>0, <1>t, <1>9, <2>1, WriteTyped DEF RecvRequest, Reading
<1>10. CASE ResendOne
  <2>1. Head(pending) \in Nat
    BY <1>0, <1>10 DEF ResendOne
  <2>2. Stz(Head(pending)) \in Msg
    BY <2>1, MessagesTyped
  <2> QED BY <1>0, <1>10, <2>2, WriteTyped DEF ResendOne
<1>11. CASE ResendDone \/ SendRequest
  <2>1. SMRequest \in Msg
    BY ConstantMessagesTyped
  <2> QED BY <1>0, <1>11, <2>1, WriteTyped DEF ResendDone, SendRequest
<1>12. CASE ResendFails \/ RecvError
  BY <1>1, <1>12 DEF ResendFails, RecvError
<1>13. CASE \E s \in Senders : SendStart(s) \/ SendAppend(s) \/ SendPush(s)
  BY <1>1, <1>13 DEF SendStart, SendAppend, SendPush
<1>14. CASE \E s \in Senders : SendWrite(s)
  <2>1. PICK s \in Senders : SendWrite(s)
    BY <1>14
  <2>2. Stz(sender[s].stz) \in Msg
    BY <1>0, MessagesTyped
  <2> QED BY <1>0, <2>1, <2>2, WriteTyped DEF SendWrite
<1>15. CASE ServerStanza \/ ServerAcked
  BY <1>0, <1>s, <1>15 DEF ServerStanza, ServerAcked, Serve
<1>16. CASE ServerAnswers
  <2>1. <<SMAnswer(srv.h)>> \in Seq(Msg)
    BY <1>0, MessagesTyped
  <2> QED BY <1>0, <1>s, <1>16, <2>1, ReplyTyped DEF ServerAnswers, Serve
<1>17. CASE ServerResumes
  <2> DEFINE h == Head(toServer).h
             k == IF h < srv.sent THEN srv.sent - h ELSE 0
             again == [i \in 1 .. k |-> Stz(h + i)]
  <2>1. h \in Nat /\ k \in Nat
    BY <1>0, <1>s, <1>17 DEF ServerResumes, Serve
  <2>2. \A i \in 1 .. k : Stz(h + i) \in Msg
    <3> SUFFICES ASSUME NEW i \in 1 .. k PROVE Stz(h + i) \in Msg
      OBVIOUS
    <3>1. h + i \in Nat
      BY <2>1
    <3> QED BY <3>1, MessagesTyped
  <2>3. again \in Seq(Msg)
    <3> HIDE DEF h, k
    <3> QED BY <2>1, <2>2
  <2>4. <<SMResumed(srv.sid, srv.h)>> \in Seq(Msg)
    BY <1>0, MessagesTyped
  <2>5. toClient' = toClient \o (<<SMResumed(srv.sid, srv.h)>> \o again)
    BY <1>17 DEF ServerResumes, Reply
  <2>6. toClient' \in Seq(Msg)
    <3> HIDE DEF again
    <3> QED BY <1>0, <2>3, <2>4, <2>5
  <2> QED BY <1>0, <1>s, <1>17, <2>6 DEF ServerResumes, Serve
<1>18. CASE ServerRefusesResume \/ ServerRefusesEnable
  <2>1. <<SMFailed>> \in Seq(Msg) /\ <<SMRequest>> \in Seq(Msg)
    BY ConstantMessagesTyped
  <2> QED BY <1>0, <1>s, <1>18, <2>1, ReplyTyped DEF ServerRefusesResume, ServerRefusesEnable, Serve
<1>19. CASE ServerMismatch
  <2>0. toServer # <<>>
    BY <1>19 DEF ServerMismatch, Serve
  <2>1. <<SMResumed(Head(toServer).n + 1, 0)>> \in Seq(Msg)
    <3>1. Head(toServer).n + 1 \in Nat
      BY <2>0, <1>s
    <3>2. SMResumed(Head(toServer).n + 1, 0) \in Msg
      BY <3>1, MessagesTyped
    <3> QED BY <3>2
  <2> QED BY <1>0, <1>s, <1>19, <2>1, ReplyTyped DEF ServerMismatch, Serve
<1>20. CASE ServerEnables
  <2>1. PICK res \in BOOLEAN :
          Reply(<<SMEnabled(IF res THEN Head(toServer).n ELSE 0, res)>>)
    BY <1>20 DEF ServerEnables
  <2>2. (IF res THEN Head(toServer).n ELSE 0) \in Nat
    BY <1>s, <1>20 DEF ServerEnables, Serve
  <2>3. <<SMEnabled(IF res THEN Head(toServer).n ELSE 0, res)>> \in Seq(Msg)
    BY <2>2, MessagesTyped
  <2> QED BY <1>0, <1>s, <1>20, <2>1, <2>3, ReplyTyped DEF ServerEnables, Serve
<1>21. CASE ServerSends
  <2>1. srv.sent + 1 \in Nat
    BY <1>0
  <2>2. Stz(srv.sent + 1) \in Msg
    BY <2>1, MessagesTyped
  <2>3. <<Stz(srv.sent + 1)>> \in Seq(Msg)
    BY <2>2
  <2> QED BY <1>0, <1>21, <2>3, ReplyTyped DEF ServerSends
<1>22. CASE ServerRequests
  <2>1. <<SMRequest>> \in Seq(Msg)
    BY ConstantMessagesTyped
  <2> QED BY <1>0, <1>22, <2>1, ReplyTyped DEF ServerRequests
<1>23. CASE ServerForgets
  BY <1>1, <1>23 DEF ServerForgets
<1>24. CASE UNCHANGED vars
  BY <1>1, <1>24 DEF vars
<1> QED
  BY <1>2, <1>3, <1>4, <1>5, <1>6, <1>7, <1>8, <1>9, <1>10, <1>11, <1>12, <1>13, <1>14,
     <1>15, <1>16, <1>17, <1>18, <1>19, <1>20, <1>21, <1>22, <1>23, <1>24
  DEF Next, Connecting, Receiving, Sending, Server

LEMMA ServerType ==
  ASSUME TypeOK, [Next]_vars
  PROVE  ServerTypeOK'
<1> USE DEF ServerTypeOK
<1>0. ServerTypeOK /\ toServer \in Seq(Msg)
  BY DEF TypeOK, NetTypeOK
<1>s. toServer # <<>> => Head(toServer).n \in Nat /\ Head(toServer).h \in Nat
  BY <1>0, HeadTyped
<1>1. CASE UNCHANGED srvVars
  BY <1>0, <1>1 DEF srvVars
<1>2. CASE UNCHANGED handled /\ srv' = [srv EXCEPT !.active = FALSE]
  BY <1>0, <1>2
<1>3. CASE UNCHANGED handled /\ srv' = [srv EXCEPT !.live = FALSE]
  BY <1>0, <1>3
<1>4. CASE ServerStanza
  <2>1. srv' = [srv EXCEPT !.h = @ + 1] /\ handled' = handled \cup {Head(toServer).n}
    BY <1>4 DEF ServerStanza
  <2>2. Head(toServer).n \in Nat
    BY <1>s, <1>4 DEF ServerStanza, Serve
  <2>3. srv'.h \in Nat /\ srv' \in [sid : Nat, live : BOOLEAN, active : BOOLEAN,
                                     h : Nat, sent : Nat, acked : Nat]
    BY <1>0, <2>1
  <2>4. handled' \in SUBSET Nat
    BY <1>0, <2>1, <2>2
  <2> QED BY <2>3, <2>4
<1>5. CASE ServerAcked
  BY <1>0, <1>s, <1>5 DEF ServerAcked, Serve
<1>6. CASE ServerResumes
  BY <1>0, <1>s, <1>6 DEF ServerResumes, Serve
<1>7. CASE ServerEnables
  BY <1>0, <1>s, <1>7 DEF ServerEnables, Serve
<1>8. CASE ServerSends
  BY <1>0, <1>8 DEF ServerSends
<1>9. CASE ServerAnswers \/ ServerRefusesEnable \/ ServerRequests
  BY <1>1, <1>9 DEF ServerAnswers, ServerRefusesEnable, ServerRequests
<1>10. CASE ServerRefusesResume \/ ServerMismatch \/ ServerForgets
  BY <1>3, <1>10 DEF ServerRefusesResume, ServerMismatch, ServerForgets
<1>11. CASE Dial \/ ConnectionLost \/ NegotiationFails \/ SessionLost \/ ResumeError
            \/ ReadEnableFailed \/ EnableError
  BY <1>2, <1>11
  DEF Dial, ConnectionLost, NegotiationFails, SessionLost, ResumeError, ReadEnableFailed,
      EnableError, CloseConnection
<1>12. CASE BeginResume \/ BeginEnable \/ ReadResumed \/ ReadResumeFailed \/ ReadEnabled
            \/ PostSessionSetup \/ SetupFails
  BY <1>1, <1>12
  DEF BeginResume, BeginEnable, ReadResumed, ReadResumeFailed, ReadEnabled,
      PostSessionSetup, SetupFails
<1>13. CASE Receiving
  BY <1>1, <1>13
  DEF Receiving, RecvStanza, RecvRequest, RecvRequestFails, RecvAnswer, ResendOne,
      ResendDone, ResendFails, RecvError
<1>14. CASE Sending
  BY <1>1, <1>14 DEF Sending, SendRequest, SendStart, SendAppend, SendPush, SendWrite
<1>15. CASE UNCHANGED vars
  BY <1>1, <1>15 DEF vars
<1> QED
  BY <1>4, <1>5, <1>6, <1>7, <1>8, <1>9, <1>10, <1>11, <1>12, <1>13, <1>14, <1>15
  DEF Next, Connecting, Server

LEMMA CountType ==
  ASSUME TypeOK, [Next]_vars
  PROVE  CountTypeOK'
<1> USE BoundsAssumption DEF CountTypeOK
<1>0. CountTypeOK
  BY DEF TypeOK
<1>1. CASE UNCHANGED count
  BY <1>0, <1>1
<1>2. CASE Dial
  BY <1>0, <1>2 DEF Dial
<1>3. CASE WriteEnable
  BY <1>0, <1>3 DEF WriteEnable
<1>4. CASE SendRequest \/ ServerRequests
  BY <1>0, <1>4 DEF SendRequest, ServerRequests
<1>5. CASE \E s \in Senders : SendStart(s)
  BY <1>0, <1>5 DEF SendStart
<1>6. CASE BeginEnable \/ ReadResumeFailed
  BY <1>3, <1>6 DEF BeginEnable, ReadResumeFailed
<1>7. CASE NegotiationFails \/ SessionLost \/ BeginResume \/ ReadResumed \/ ResumeError
           \/ ReadEnabled \/ ReadEnableFailed \/ EnableError \/ PostSessionSetup \/ SetupFails
  BY <1>1, <1>7
  DEF NegotiationFails, SessionLost, BeginResume, ReadResumed, ResumeError, ReadEnabled,
      ReadEnableFailed, EnableError, PostSessionSetup, SetupFails
<1>8. CASE Receiving
  BY <1>1, <1>8
  DEF Receiving, RecvStanza, RecvRequest, RecvRequestFails, RecvAnswer, ResendOne,
      ResendDone, ResendFails, RecvError
<1>9. CASE ConnectionLost \/ \E s \in Senders : SendAppend(s) \/ SendPush(s) \/ SendWrite(s)
  BY <1>1, <1>9 DEF ConnectionLost, SendAppend, SendPush, SendWrite
<1>10. CASE Server /\ ~ServerRequests
  BY <1>1, <1>10
  DEF Server, ServerStanza, ServerAnswers, ServerAcked, ServerResumes, ServerRefusesResume,
      ServerMismatch, ServerEnables, ServerRefusesEnable, ServerSends, ServerForgets, Serve
<1>11. CASE UNCHANGED vars
  BY <1>1, <1>11 DEF vars
<1> QED
  BY <1>2, <1>4, <1>5, <1>6, <1>7, <1>8, <1>9, <1>10, <1>11 DEF Next, Connecting, Sending

-----------------------------------------------------------------------------

LEMMA NextTypeOK == TypeOK /\ [Next]_vars => TypeOK'
BY ClientType, SendType, NetType, ServerType, CountType DEF TypeOK

(* Every variable keeps its type, whatever the number of senders,          *)
(* connections, stanzas and requests.                                      *)
THEOREM TypeCorrectness == Spec => []TypeOK
BY InitTypeOK, NextTypeOK, PTL DEF Spec

-----------------------------------------------------------------------------
(* One sending goroutine.  Push reads the queue twice, is overtaken by any *)
(* number of trimmings, and assigns; what it read is then older than the   *)
(* queue but holds all that is still in it, and its id still follows.      *)

SoleSender == \A s, t \in Senders : s = t

Sequential(q) == \A i \in 1 .. Len(q) - 1 : q[i + 1].stz = q[i].stz + 1

Pushing == \E s \in Senders : sender[s].pc \in {"append", "push"}

(* The newest stanza in the queue is the last the application sent, the    *)
(* one whose Push is still under way left aside.                           *)
NewestIsLast ==
  uaq # <<>> => uaq[Len(uaq)].stz = IF Pushing THEN count.sends - 1 ELSE count.sends

PushIsNext ==
  \A s \in Senders : sender[s].pc \in {"append", "push"} =>
    /\ sender[s].stz = count.sends
    /\ sender[s].obj # queueObj => uaq = <<>>
    /\ uaq # <<>> => sender[s].idx = uaq[Len(uaq)].id + 1

(* What the second read found.                                             *)
SeenIsOlder ==
  \A s \in Senders : sender[s].pc = "push" =>
    LET q == sender[s].seen
    IN /\ Sequential(q) /\ Consecutive(q)
       /\ q # <<>> => /\ q[Len(q)].stz + 1 = sender[s].stz
                      /\ sender[s].idx = q[Len(q)].id + 1
       /\ Stanzas(uaq) \subseteq Stanzas(q)

Ordered ==
  /\ Consecutive(uaq) /\ Sequential(uaq)
  /\ NewestIsLast /\ PushIsNext /\ SeenIsOlder /\ StoredUntilAcked

OrderInv == TypeOK /\ Ordered

(* Trimming drops a prefix, and no entry above the acknowledged count.     *)
LEMMA TrimKeeps ==
  ASSUME NEW q \in Seq(Entry), Consecutive(q), NEW h \in Nat
  PROVE  /\ Sequential(q) => Sequential(TrimAcked(q, h))
         /\ TrimAcked(q, h) # <<>> =>
              q # <<>> /\ TrimAcked(q, h)[Len(TrimAcked(q, h))] = q[Len(q)]
         /\ Stanzas(TrimAcked(q, h)) \subseteq Stanzas(q)
         /\ \A i \in 1 .. Len(q) : q[i].id > h => q[i].stz \in Stanzas(TrimAcked(q, h))
<1> DEFINE k == AckIdx(q, h)
           t == TrimAcked(q, h)
<1>1. k \in 0 .. Len(q) /\ Len(q) \in Nat
      /\ \A i \in 1 .. Len(q) : i <= k => q[i].id <= h
  BY AckIdxInQueue
<1>2. t = SubSeq(q, k + 1, Len(q))
  BY DEF TrimAcked
<1> HIDE DEF k, t
<1>3. t \in Seq(Entry) /\ Len(t) = Len(q) - k
      /\ \A i \in 1 .. Len(t) : t[i] = q[k + i]
  BY <1>1, <1>2
<1>4. ASSUME Sequential(q) PROVE Sequential(t)
  <2> SUFFICES ASSUME NEW i \in 1 .. Len(t) - 1 PROVE t[i + 1].stz = t[i].stz + 1
    BY DEF Sequential
  <2>1. t[i] = q[k + i] /\ t[i + 1] = q[k + (i + 1)] /\ k + i \in 1 .. Len(q) - 1
    BY <1>1, <1>3
  <2>2. k + (i + 1) = (k + i) + 1
    BY <1>1
  <2> QED BY <1>4, <2>1, <2>2 DEF Sequential
<1>5. ASSUME t # <<>> PROVE q # <<>> /\ t[Len(t)] = q[Len(q)]
  <2>1. Len(t) \in 1 .. Len(t)
    BY <1>3, <1>5
  <2>2. k + Len(t) = Len(q) /\ Len(q) # 0
    BY <1>1, <1>3, <2>1
  <2> QED BY <1>3, <2>1, <2>2
<1>6. Stanzas(t) \subseteq Stanzas(q)
  <2>1. ASSUME NEW i \in 1 .. Len(t) PROVE t[i] = q[k + i] /\ k + i \in 1 .. Len(q)
    BY <1>1, <1>3
  <2> QED BY <2>1 DEF Stanzas
<1>7. ASSUME NEW i \in 1 .. Len(q), q[i].id > h PROVE q[i].stz \in Stanzas(t)
  <2>0. q[i].id \in Nat
    BY IdsAreNat
  <2>1. ~(i <= k)
    BY <1>1, <1>7, <2>0
  <2>2. i - k \in 1 .. Len(t)
    BY <1>1, <1>3, <2>1
  <2>3. k + (i - k) = i
    BY <1>1
  <2>4. t[i - k] = q[i]
    BY <1>3, <2>2, <2>3
  <2> QED BY <2>2, <2>4 DEF Stanzas
<1> QED BY <1>4, <1>5, <1>6, <1>7 DEF t

LEMMA PushKeeps ==
  ASSUME NEW q \in Seq(Entry), Sequential(q), NEW id \in Nat, NEW stz \in Nat,
         q # <<>> => q[Len(q)].stz + 1 = stz
  PROVE  /\ Sequential(Push(q, id, stz)) /\ Push(q, id, stz) # <<>>
         /\ Push(q, id, stz)[Len(Push(q, id, stz))].stz = stz
         /\ Stanzas(q) \cup {stz} \subseteq Stanzas(Push(q, id, stz))
<1> DEFINE e == [id |-> id, stz |-> stz]
           p == Push(q, id, stz)
<1>1. p = Append(q, e) /\ e.stz = stz
  BY DEF Push
<1> HIDE DEF p, e
<1>2. Len(p) = Len(q) + 1 /\ p[Len(q) + 1] = e /\ Len(q) \in Nat
      /\ \A i \in 1 .. Len(q) : p[i] = q[i]
  BY <1>1
<1>3. Sequential(p)
  <2> SUFFICES ASSUME NEW i \in 1 .. Len(q) PROVE p[i + 1].stz = p[i].stz + 1
    BY <1>2 DEF Sequential
  <2>1. CASE i = Len(q)
    <3>1. q # <<>>
      BY <2>1
    <3> QED BY <1>1, <1>2, <2>1, <3>1
  <2>2. CASE i # Len(q)
    <3>1. i \in 1 .. Len(q) - 1 /\ i + 1 \in 1 .. Len(q)
      BY <1>2, <2>2
    <3> QED BY <1>2, <3>1 DEF Sequential
  <2> QED BY <2>1, <2>2
<1>4. p # <<>> /\ p[Len(p)].stz = stz
  BY <1>1, <1>2
<1>5. Stanzas(q) \cup {stz} \subseteq Stanzas(p)
  <2>1. Len(q) + 1 \in 1 .. Len(p) /\ \A i \in 1 .. Len(q) : i \in 1 .. Len(p)
    BY <1>2
  <2> QED BY <1>1, <1>2, <2>1 DEF Stanzas
<1> QED BY <1>3, <1>4, <1>5 DEF p

LEMMA InitOrderInv == Init => OrderInv
<1> SUFFICES ASSUME Init PROVE OrderInv
  OBVIOUS
<1>1. TypeOK
  BY InitTypeOK
<1>2. uaq = <<>> /\ \A s \in Senders : sender[s].pc = "idle"
  BY DEF Init, NewUnAckQueue, NoCall
<1>3. StoredUntilAcked
  BY DEF Init, StoredUntilAcked
<1>4. Consecutive(uaq) /\ Sequential(uaq) /\ NewestIsLast
  BY <1>2 DEF Consecutive, Sequential, NewestIsLast
<1>5. PushIsNext /\ SeenIsOlder
  BY <1>2 DEF PushIsNext, SeenIsOlder
<1> QED BY <1>1, <1>3, <1>4, <1>5 DEF OrderInv, Ordered

(* A step that starts a new queue and forgets what was in the old one.     *)
LEMMA OrderNewQueue ==
  ASSUME OrderInv, uaq' = <<>>, fate' = Abandon(fate), UNCHANGED sender,
         count'.sends = count.sends
  PROVE  Ordered'
<1>1. PushIsNext /\ SeenIsOlder
  BY DEF OrderInv, Ordered
<1>2. Stanzas(uaq') = {}
  BY DEF Stanzas
<1>3. Consecutive(uaq)' /\ Sequential(uaq)' /\ NewestIsLast'
  BY DEF Consecutive, Sequential, NewestIsLast
<1>4. PushIsNext' /\ SeenIsOlder'
  BY <1>1, <1>2 DEF PushIsNext, SeenIsOlder
<1>5. fate \in [1 .. MaxSends -> Fates]
  BY DEF OrderInv, TypeOK, SendTypeOK
<1>6. StoredUntilAcked'
  BY <1>5 DEF StoredUntilAcked, Abandon
<1> QED BY <1>3, <1>4, <1>6 DEF Ordered

LEMMA OrderAcknowledge ==
  ASSUME OrderInv, NEW h \in Nat, Acknowledge(h), UNCHANGED <<sender, queueObj>>,
         count'.sends = count.sends
  PROVE  Ordered'
<1>1. /\ Consecutive(uaq) /\ Sequential(uaq)
      /\ NewestIsLast /\ PushIsNext /\ SeenIsOlder /\ StoredUntilAcked
      /\ uaq \in Seq(Entry) /\ fate \in [1 .. MaxSends -> Fates]
  BY DEF OrderInv, Ordered, TypeOK, ClientTypeOK, SendTypeOK
<1>2. uaq' = TrimAcked(uaq, h)
      /\ fate' = [n \in DOMAIN fate |-> IF n \in AckedBy(h) THEN "acked" ELSE fate[n]]
  BY DEF Acknowledge
<1>3. /\ Consecutive(uaq') /\ Sequential(uaq')
      /\ uaq' # <<>> => uaq # <<>> /\ uaq'[Len(uaq')] = uaq[Len(uaq)]
      /\ Stanzas(uaq') \subseteq Stanzas(uaq)
      /\ \A i \in 1 .. Len(uaq) : uaq[i].id > h => uaq[i].stz \in Stanzas(uaq')
  BY <1>1, <1>2, TrimKeeps, TrimConsecutive
<1>4. NewestIsLast'
  BY <1>1, <1>3 DEF NewestIsLast, Pushing
<1>5. PushIsNext' /\ SeenIsOlder'
  <2>1. PushIsNext'
    BY <1>1, <1>3 DEF PushIsNext
  <2>2. SeenIsOlder'
    BY <1>1, <1>3 DEF SeenIsOlder
  <2> QED BY <2>1, <2>2
<1>6. StoredUntilAcked'
  <2> SUFFICES ASSUME NEW n \in 1 .. MaxSends, fate'[n] = "queued" PROVE n \in Stanzas(uaq')
    BY DEF StoredUntilAcked
  <2>1. n \notin AckedBy(h) /\ fate[n] = "queued"
    BY <1>1, <1>2
  <2>2. PICK i \in 1 .. Len(uaq) : uaq[i].stz = n
    BY <1>1, <2>1 DEF StoredUntilAcked, Stanzas
  <2>3. uaq[i].id > h
    <3>1. uaq[i].id \in Nat
      BY <1>1, IdsAreNat
    <3>2. ~(uaq[i].id <= h)
      BY <2>1, <2>2 DEF AckedBy
    <3> QED BY <3>1, <3>2
  <2> QED BY <1>3, <2>2, <2>3
<1> QED BY <1>3, <1>4, <1>5, <1>6 DEF Ordered

(* The first read of Push.                                                 *)
LEMMA OrderStart ==
  ASSUME SoleSender, OrderInv, NEW s \in Senders, SendStart(s)
  PROVE  Ordered'
<1>1. /\ Consecutive(uaq) /\ Sequential(uaq) /\ NewestIsLast /\ StoredUntilAcked
      /\ uaq \in Seq(Entry) /\ sender \in [Senders -> Call] /\ CountTypeOK
  BY DEF OrderInv, Ordered, TypeOK, ClientTypeOK, SendTypeOK
<1>2. /\ sender[s].pc = "idle" /\ UNCHANGED <<uaq, queueObj, fate>>
      /\ sender' = [sender EXCEPT ![s] = [pc |-> "append", idx |-> PushIdx(uaq), seen |-> <<>>,
                                          obj |-> queueObj, stz |-> count.sends + 1]]
      /\ count' = [count EXCEPT !.sends = @ + 1]
  BY DEF SendStart, clientVars
<1>3. count'.sends = count.sends + 1 /\ count.sends \in Nat
  BY <1>1, <1>2, BoundsAssumption DEF CountTypeOK
<1>4. \A r \in Senders : r = s
  BY DEF SoleSender
<1>5. sender'[s] = [pc |-> "append", idx |-> PushIdx(uaq), seen |-> <<>>, obj |-> queueObj,
                    stz |-> count.sends + 1]
  BY <1>1, <1>2
<1>6. /\ sender'[s].pc = "append" /\ sender'[s].obj = queueObj
      /\ sender'[s].stz = count.sends + 1
      /\ uaq # <<>> => sender'[s].idx = uaq[Len(uaq)].id + 1
  BY <1>5 DEF PushIdx
<1>7. ~Pushing /\ Pushing'
  BY <1>2, <1>4, <1>6 DEF Pushing
<1>8. uaq # <<>> => uaq[Len(uaq)].stz = count.sends
  BY <1>1, <1>7 DEF NewestIsLast
<1>9. NewestIsLast'
  BY <1>2, <1>3, <1>7, <1>8 DEF NewestIsLast
<1>10. PushIsNext' /\ SeenIsOlder'
  BY <1>2, <1>3, <1>4, <1>6 DEF PushIsNext, SeenIsOlder
<1>11. Consecutive(uaq)' /\ Sequential(uaq)' /\ StoredUntilAcked'
  BY <1>1, <1>2 DEF StoredUntilAcked
<1> QED BY <1>9, <1>10, <1>11 DEF Ordered

(* The second read of Push: what it finds may be shorter than what the     *)
(* first one found.                                                        *)
LEMMA OrderAppend ==
  ASSUME SoleSender, OrderInv, NEW s \in Senders, SendAppend(s)
  PROVE  Ordered'
<1>1. /\ Consecutive(uaq) /\ Sequential(uaq)
      /\ NewestIsLast /\ PushIsNext /\ StoredUntilAcked
      /\ sender \in [Senders -> Call] /\ CountTypeOK
  BY DEF OrderInv, Ordered, TypeOK, SendTypeOK
<1> DEFINE q == IF sender[s].obj = queueObj THEN uaq ELSE <<>>
<1>2. /\ sender[s].pc = "append" /\ UNCHANGED <<uaq, queueObj, fate, count>>
      /\ sender' = [sender EXCEPT ![s].pc = "push", ![s].seen = q]
  BY DEF SendAppend, clientVars
<1> HIDE DEF q
<1>3. \A r \in Senders : r = s
  BY DEF SoleSender
<1>4. /\ sender'[s].pc = "push" /\ sender'[s].seen = q /\ sender'[s].obj = sender[s].obj
      /\ sender'[s].stz = sender[s].stz /\ sender'[s].idx = sender[s].idx
  BY <1>1, <1>2 DEF Call
<1>5. /\ sender[s].stz = count.sends
      /\ sender[s].obj # queueObj => uaq = <<>>
      /\ uaq # <<>> => sender[s].idx = uaq[Len(uaq)].id + 1
  BY <1>1, <1>2 DEF PushIsNext
<1>6. q = uaq
  BY <1>5 DEF q
<1>7. Pushing /\ Pushing' /\ count.sends \in Nat
  BY <1>1, <1>2, <1>4, BoundsAssumption DEF Pushing, CountTypeOK
<1>8. NewestIsLast' /\ (uaq # <<>> => uaq[Len(uaq)].stz = count.sends - 1)
  BY <1>1, <1>2, <1>7 DEF NewestIsLast
<1>9. PushIsNext'
  BY <1>2, <1>3, <1>4, <1>5 DEF PushIsNext
<1>10. SeenIsOlder'
  <2>1. uaq # <<>> => uaq[Len(uaq)].stz + 1 = sender'[s].stz
    BY <1>4, <1>5, <1>7, <1>8
  <2> QED BY <1>1, <1>2, <1>3, <1>4, <1>5, <1>6, <2>1 DEF SeenIsOlder
<1>11. Consecutive(uaq)' /\ Sequential(uaq)' /\ StoredUntilAcked'
  BY <1>1, <1>2 DEF StoredUntilAcked
<1> QED BY <1>8, <1>9, <1>10, <1>11 DEF Ordered

LEMMA OrderPush ==
  ASSUME SoleSender, OrderInv, NEW s \in Senders, SendPush(s)
  PROVE  Ordered'
<1>1. /\ PushIsNext /\ SeenIsOlder /\ StoredUntilAcked
      /\ sender[s] \in Call /\ fate \in [1 .. MaxSends -> Fates]
      /\ sender \in [Senders -> Call]
  BY DEF OrderInv, Ordered, TypeOK, ClientTypeOK, SendTypeOK
<1>2. sender[s].pc = "push" /\ count' = count /\ queueObj' = queueObj
      /\ sender' = [sender EXCEPT ![s].pc = "write", ![s].seen = <<>>]
  BY DEF SendPush
<1>3. sender'[s].pc = "write"
  BY <1>1, <1>2 DEF Call
<1>4. \A r \in Senders : r = s
  BY DEF SoleSender
<1>5. ~Pushing' /\ PushIsNext' /\ SeenIsOlder'
  BY <1>3, <1>4 DEF Pushing, PushIsNext, SeenIsOlder
<1> DEFINE q == sender[s].seen
           id == sender[s].idx
           z == sender[s].stz
<1>6. /\ q \in Seq(Entry) /\ id \in Nat /\ z \in Nat /\ z = count.sends
      /\ Sequential(q) /\ Consecutive(q)
      /\ q # <<>> => q[Len(q)].stz + 1 = z /\ id = q[Len(q)].id + 1
      /\ Stanzas(uaq) \subseteq Stanzas(q)
      /\ sender[s].obj # queueObj => uaq = <<>>
  BY <1>1, <1>2 DEF PushIsNext, SeenIsOlder, Call
<1>7. CASE sender[s].obj = queueObj
  <2>1. uaq' = Push(q, id, z) /\ fate' = [fate EXCEPT ![z] = "queued"]
    BY <1>7 DEF SendPush
  <2> HIDE DEF q, id, z
  <2>2. Sequential(uaq') /\ uaq'[Len(uaq')].stz = z /\ Stanzas(q) \cup {z} \subseteq Stanzas(uaq')
    BY <1>6, <2>1, PushKeeps
  <2>3. Consecutive(uaq')
    BY <1>6, <2>1, PushConsecutive
  <2>4. NewestIsLast'
    BY <1>2, <1>5, <1>6, <2>2 DEF NewestIsLast
  <2>5. \A n \in 1 .. MaxSends : fate'[n] = "queued" => n = z \/ fate[n] = "queued"
    BY <1>1, <2>1
  <2>6. StoredUntilAcked'
    BY <1>1, <1>6, <2>2, <2>5 DEF StoredUntilAcked
  <2> QED BY <1>5, <2>2, <2>3, <2>4, <2>6 DEF Ordered
<1>8. CASE sender[s].obj # queueObj
  <2>1. uaq' = <<>> /\ uaq = <<>> /\ fate' = [fate EXCEPT ![z] = "abandoned"]
    BY <1>6, <1>8 DEF SendPush
  <2>2. Consecutive(uaq') /\ Sequential(uaq') /\ NewestIsLast'
    BY <2>1 DEF Consecutive, Sequential, NewestIsLast
  <2>3. \A n \in 1 .. MaxSends : fate'[n] = "queued" => fate[n] = "queued"
    BY <1>1, <2>1
  <2>4. StoredUntilAcked'
    BY <1>1, <2>1, <2>3 DEF StoredUntilAcked
  <2> QED BY <1>5, <2>2, <2>4 DEF Ordered
<1> QED BY <1>7, <1>8

LEMMA NextOrderInv ==
  ASSUME SoleSender, OrderInv, [Next]_vars
  PROVE  OrderInv'
<1>i. TypeOK'
  BY NextTypeOK DEF OrderInv
<1> SUFFICES Ordered'
  BY <1>i DEF OrderInv
<1>0. /\ Consecutive(uaq) /\ Sequential(uaq)
      /\ NewestIsLast /\ PushIsNext /\ SeenIsOlder /\ StoredUntilAcked
      /\ sender \in [Senders -> Call] /\ CountTypeOK /\ toClient \in Seq(Msg)
  BY DEF OrderInv, Ordered, TypeOK, SendTypeOK, NetTypeOK
<1>1. CASE UNCHANGED <<uaq, sender, queueObj, fate>> /\ count'.sends = count.sends
  <2>1. NewestIsLast' /\ StoredUntilAcked'
    BY <1>0, <1>1 DEF NewestIsLast, StoredUntilAcked, Pushing
  <2>2. PushIsNext' /\ SeenIsOlder'
    BY <1>0, <1>1 DEF PushIsNext, SeenIsOlder
  <2> QED BY <1>0, <1>1, <2>1, <2>2 DEF Ordered
<1>2. CASE Dial \/ NegotiationFails \/ BeginResume \/ BeginEnable \/ EnableError
           \/ PostSessionSetup \/ SetupFails
  <2>1. UNCHANGED <<uaq, sender, queueObj, fate>>
    BY <1>2 DEF Dial, NegotiationFails, BeginResume, BeginEnable, EnableError,
                PostSessionSetup, SetupFails, KeepSMState
  <2>2. count'.sends = count.sends
    BY <1>0, <1>2 DEF CountTypeOK, Dial, NegotiationFails, BeginResume, BeginEnable, WriteEnable,
                      EnableError, PostSessionSetup, SetupFails
  <2> QED BY <1>1, <2>1, <2>2
<1>3. CASE SessionLost \/ ReadResumeFailed \/ ResumeError \/ ReadEnabled \/ ReadEnableFailed
  <2>1. uaq' = <<>> /\ fate' = Abandon(fate) /\ UNCHANGED sender
    BY <1>3 DEF SessionLost, ReadResumeFailed, ResumeError, ReadEnabled, ReadEnableFailed,
                ClearSMState, NewSMState, NewUnAckQueue
  <2>2. count'.sends = count.sends
    BY <1>0, <1>3 DEF CountTypeOK, SessionLost, ReadResumeFailed, WriteEnable, ResumeError,
                      ReadEnabled, ReadEnableFailed
  <2> QED BY <2>1, <2>2, OrderNewQueue
<1>4. CASE ReadResumed \/ RecvAnswer
  <2>1. PICK h \in Nat : Acknowledge(h)
    BY <1>0, <1>4, HeadTyped DEF ReadResumed, RecvAnswer, Reading
  <2>2. UNCHANGED <<sender, queueObj>> /\ count' = count
    BY <1>4 DEF ReadResumed, RecvAnswer
  <2> QED BY <2>1, <2>2, OrderAcknowledge
<1>5. CASE \E s \in Senders : SendStart(s) \/ SendAppend(s)
  BY <1>5, OrderStart, OrderAppend
<1>6. CASE \E s \in Senders : SendPush(s)
  BY <1>6, OrderPush
<1>7. CASE \E s \in Senders : SendWrite(s)
  <2>1. PICK s \in Senders : SendWrite(s)
    BY <1>7
  <2>2. UNCHANGED <<uaq, queueObj, fate, count>> /\ sender[s].pc = "write"
        /\ sender' = [sender EXCEPT ![s] = NoCall]
    BY <2>1 DEF SendWrite, clientVars
  <2>3. sender'[s].pc = "idle" /\ \A r \in Senders : r = s
    BY <1>0, <2>2 DEF NoCall, SoleSender
  <2>4. ~Pushing /\ ~Pushing' /\ PushIsNext' /\ SeenIsOlder'
    BY <2>2, <2>3 DEF Pushing, PushIsNext, SeenIsOlder
  <2>5. NewestIsLast' /\ StoredUntilAcked'
    BY <1>0, <2>2, <2>4 DEF NewestIsLast, StoredUntilAcked
  <2> QED BY <1>0, <2>2, <2>4, <2>5 DEF Ordered
<1>8. CASE Receiving /\ ~RecvAnswer
  BY <1>1, <1>8
  DEF Receiving, RecvStanza, RecvRequest, RecvRequestFails, ResendOne, ResendDone,
      ResendFails, RecvError, KeepSMState, clientVars, sendVars
<1>9. CASE SendRequest \/ ConnectionLost \/ UNCHANGED vars
  <2>1. UNCHANGED <<uaq, sender, queueObj, fate>>
    BY <1>9 DEF SendRequest, ConnectionLost, vars, clientVars, sendVars
  <2>2. count'.sends = count.sends
    BY <1>0, <1>9 DEF CountTypeOK, SendRequest, ConnectionLost, vars
  <2> QED BY <1>1, <2>1, <2>2
<1>10. CASE Server
  <2>1. UNCHANGED <<clientVars, sendVars>>
    BY <1>10
    DEF Server, ServerStanza, ServerAnswers, ServerAcked, ServerResumes, ServerRefusesResume,
        ServerMismatch, ServerEnables, ServerRefusesEnable, ServerSends, ServerRequests,
        ServerForgets, Serve
  <2>2. count'.sends = count.sends
    BY <1>0, <1>10
    DEF CountTypeOK, Server, ServerStanza, ServerAnswers, ServerAcked, ServerResumes,
        ServerRefusesResume, ServerMismatch, ServerEnables, ServerRefusesEnable, ServerSends,
        ServerRequests, ServerForgets, Serve
  <2> QED BY <1>1, <2>1, <2>2 DEF clientVars, sendVars
<1> QED
  BY <1>2, <1>3, <1>4, <1>5, <1>6, <1>7, <1>8, <1>9, <1>10 DEF Next, Connecting, Sending

(* With one sending goroutine the order invariant holds in every state.    *)
THEOREM OrderInvariance ==
  ASSUME SoleSender
  PROVE  Spec => []OrderInv
<1>1. OrderInv /\ [Next]_vars => OrderInv'
  BY NextOrderInv
<1> QED BY <1>1, InitOrderInv, PTL DEF Spec

(* With one sending goroutine the ids in the queue are consecutive,        *)
(* whatever SendMissingStz and Session.resume trim between the two reads   *)
(* and the assignment of the unlocked Push.                                *)
THEOREM QueueNumbering ==
  ASSUME SoleSender
  PROVE  Spec => []IdsConsecutive
<1>1. OrderInv => IdsConsecutive
  BY DEF OrderInv, Ordered, IdsConsecutive
<1> QED BY <1>1, OrderInvariance, PTL

(* With one sending goroutine the queue keeps the order in which the       *)
(* stanzas were sent, without a gap, whatever trimming comes between the   *)
(* reads and the assignment of the unlocked Push.                          *)
THEOREM SendOrderKept ==
  ASSUME SoleSender
  PROVE  Spec => []QueueInSendOrder
<1>1. OrderInv => QueueInSendOrder
  BY DEF OrderInv, Ordered, Sequential, QueueInSendOrder
<1> QED BY <1>1, OrderInvariance, PTL

(* With one sending goroutine no stored stanza leaves the queue before an  *)
(* acknowledgement covers it or its session is given up.                   *)
THEOREM NothingStoredIsLost ==
  ASSUME SoleSender
  PROVE  Spec => []StoredUntilAcked
<1>1. OrderInv => StoredUntilAcked
  BY DEF OrderInv, Ordered
<1> QED BY <1>1, OrderInvariance, PTL

=============================================================================

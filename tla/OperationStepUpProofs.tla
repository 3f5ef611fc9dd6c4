------------------------ MODULE OperationStepUpProofs ------------------------
(***************************************************************************)
(* Proofs about OperationStepUp, for any number of requests, challenges    *)
(* and calls: a step-up authorizes one write, of its own act.              *)
(***************************************************************************)
EXTENDS OperationStepUp, TLAPS

LEMMA NoActIsNone == NoAct \notin Act
<1>1. ASSUME NoAct \in Act
      PROVE  DOMAIN NoAct = {"purpose", "bound"}
  BY <1>1 DEF Act, Promise!Act
<1>2. DOMAIN NoAct = {"bound"}
  BY DEF NoAct, Promise!NoAct
<1> QED
  BY <1>1, <1>2

LEMMA InitIInv == StepUpAssumption /\ Init => IInv
<1> SUFFICES ASSUME StepUpAssumption, Init
             PROVE  IInv
  OBVIOUS
<1>1. /\ raisedFor = [c \in Challenges |-> NoAct] /\ writes = [c \in Challenges |-> <<>>]
      /\ spendable = {} /\ answers = {} /\ sent = {} /\ calls = 0 /\ lapsed = {}
      /\ \A r \in Requests : pc[r] = "idle"
  BY DEF Init, Promise!Init, NoAct
<1>2. writes \in [Challenges -> Seq(Promise!Write)]
  BY <1>1
<1>3. TypeOK
  BY <1>1, <1>2 DEF Init, TypeOK, Working, Key
<1>4. KeysInv /\ SpentOnce /\ WritesInv /\ HashInv
  BY <1>1 DEF KeysInv, SpentOnce, WritesInv, HashInv, Working
<1>5. ReservationInv
  BY <1>1 DEF ReservationInv, Working
<1> QED
  BY <1>3, <1>4, <1>5 DEF IInv
-----------------------------------------------------------------------------
\* Steps of auth.

LEMMA StepUpInv ==
    ASSUME IInv, NEW c \in Challenges, StepUp(c)
    PROVE  IInv'
<1> USE DEF auth, host, task
<1>1. PICK act \in Act : /\ raisedFor[c] = NoAct
                         /\ raisedFor' = [raisedFor EXCEPT ![c] = act]
                         /\ UNCHANGED writes
  BY DEF StepUp, Promise!StepUp, NoAct
<1>2. /\ spendable' = spendable \cup {c} /\ ended' = NoEnd
      /\ UNCHANGED <<answers, sent, calls, reservation, lapsed, pc, call, key>>
  BY DEF StepUp
<1>3. TypeOK'
  BY <1>1, <1>2 DEF IInv, TypeOK
<1>4. KeysInv' /\ ReservationInv' /\ HashInv'
  BY <1>1, <1>2 DEF IInv, KeysInv, ReservationInv, HashInv, Message
<1>5. \A m \in sent, a \in answers : m.key = a.key /\ a.kind = "ok" => m.challenge # c
  BY <1>1, NoActIsNone DEF IInv, SpentOnce
<1>6. \A m \in sent : m.challenge \in Challenges
  BY DEF IInv, TypeOK
<1>7. \A m \in sent : Redeemed(m) => m.challenge # c
  BY <1>5 DEF Redeemed
<1>8. \A m \in sent : m.challenge # c => raisedFor'[m.challenge] = raisedFor[m.challenge]
  BY <1>1, <1>6 DEF IInv, TypeOK
<1>9. \A m \in sent : Redeemed(m)' <=> Redeemed(m)
  <2> SUFFICES ASSUME NEW m \in sent
               PROVE  Redeemed(m)' <=> Redeemed(m)
    OBVIOUS
  <2>1. CASE m.challenge # c
    BY <1>2, <1>8, <2>1 DEF Redeemed
  <2>2. CASE m.challenge = c
    <3>1. ~Redeemed(m)
      BY <1>7, <2>2
    <3>2. ~Redeemed(m)'
      BY <1>2, <1>5, <2>2 DEF Redeemed
    <3> QED
      BY <3>1, <3>2
  <2> QED
    BY <2>1, <2>2
<1>10. SpentOnce'
  <2>1. \A d \in spendable' : raisedFor'[d] \in Act
    BY <1>1, <1>2 DEF IInv, SpentOnce, TypeOK
  <2>2. \A m \in sent, a \in answers :
          m.key = a.key /\ a.kind = "ok" =>
            a.act = raisedFor'[m.challenge] /\ a.act \in Act /\ m.challenge \notin spendable'
    BY <1>2, <1>5, <1>8 DEF IInv, SpentOnce
  <2>3. \A m, n \in sent :
          Redeemed(m)' /\ Redeemed(n)' /\ m.challenge = n.challenge => m = n
    BY <1>9 DEF IInv, SpentOnce
  <2> QED
    BY <1>2, <2>1, <2>2, <2>3 DEF SpentOnce
<1>11. WritesInv'
  <2>1. ASSUME NEW r \in Requests, pc[r] = "verified"
        PROVE  /\ Message(r) \in sent /\ Redeemed(Message(r))
               /\ raisedFor'[call[r].challenge] = raisedFor[call[r].challenge]
               /\ raisedFor[call[r].challenge].purpose = call[r].purpose
               /\ raisedFor[call[r].challenge].bound \in {NoHash, call[r].body}
               /\ writes[call[r].challenge] = <<>>
    BY <1>7, <1>8, <2>1 DEF IInv, WritesInv, KeysInv, Message
  <2>3. \A r \in Requests : pc'[r] = "verified" =>
          LET a == raisedFor'[call'[r].challenge]
          IN /\ Redeemed(Message(r))'
             /\ a.purpose = call'[r].purpose
             /\ a.bound \in {NoHash, call'[r].body}
             /\ writes'[call'[r].challenge] = <<>>
    <3> SUFFICES ASSUME NEW r \in Requests, pc'[r] = "verified"
                 PROVE  /\ Redeemed(Message(r))'
                        /\ raisedFor'[call'[r].challenge].purpose = call'[r].purpose
                        /\ raisedFor'[call'[r].challenge].bound \in {NoHash, call'[r].body}
                        /\ writes'[call'[r].challenge] = <<>>
      OBVIOUS
    <3>1. /\ pc[r] = "verified" /\ Message(r)' = Message(r)
          /\ call' = call /\ writes' = writes
      BY <1>1, <1>2 DEF Message
    <3>2. Redeemed(Message(r))'
      BY <1>9, <2>1, <3>1 DEF Redeemed
    <3> QED
      BY <2>1, <3>1, <3>2
  <2>4. \A d \in Challenges : writes'[d] # <<>> =>
          \E m \in sent' :
             /\ m.challenge = d /\ Redeemed(m)'
             /\ \A r \in Requests : pc'[r] \in Working /\ key'[r] = m.key => pc'[r] = "written"
    BY <1>1, <1>2, <1>9 DEF IInv, WritesInv
  <2> QED
    BY <2>3, <2>4 DEF WritesInv
<1> QED
  BY <1>3, <1>4, <1>10, <1>11 DEF IInv

\* Nothing else of auth changes when a challenge expires or a reservation lapses.
LEMMA ExpireInv ==
    ASSUME IInv, NEW c \in Challenges, Expire(c)
    PROVE  IInv'
<1> USE DEF auth, host, task
<1>1. /\ spendable' = spendable \ {c} /\ ended' = NoEnd
      /\ UNCHANGED <<raisedFor, answers, sent, calls, reservation, lapsed, pc, call, key,
                     writes>>
  BY DEF Expire
<1>2. TypeOK'
  BY <1>1 DEF IInv, TypeOK
<1>3. KeysInv' /\ ReservationInv' /\ HashInv' /\ WritesInv'
  BY <1>1 DEF IInv, KeysInv, ReservationInv, HashInv, WritesInv, Message, Redeemed
<1>4. SpentOnce'
  BY <1>1 DEF IInv, SpentOnce, Redeemed
<1> QED
  BY <1>2, <1>3, <1>4 DEF IInv

LEMMA LapseInv ==
    ASSUME StepUpAssumption, IInv, NEW c \in Challenges, Lapse(c)
    PROVE  IInv'
<1> USE DEF auth, host, task
<1>1. /\ reservation' = [reservation EXCEPT ![c] = "free"] /\ lapsed' = lapsed \cup {c}
      /\ ended' = NoEnd
      /\ UNCHANGED <<raisedFor, spendable, answers, sent, calls, pc, call, key, writes>>
  BY DEF Lapse
<1>2. TypeOK'
  BY <1>1 DEF IInv, TypeOK
<1>3. KeysInv' /\ HashInv' /\ WritesInv' /\ SpentOnce'
  BY <1>1 DEF IInv, KeysInv, HashInv, WritesInv, SpentOnce, Message, Redeemed
<1>4. ReservationInv'
  BY <1>1 DEF IInv, TypeOK, ReservationInv
<1> QED
  BY <1>2, <1>3, <1>4 DEF IInv

\* Auth's answer under a new key: it consumes the challenge, or it is a refusal.
LEMMA AuthInv ==
    ASSUME IInv, NEW m \in sent, AuthVerifies(m) \/ AuthRefuses(m)
    PROVE  IInv'
<1> USE DEF auth, host, task
<1> DEFINE c == m.challenge
<1>1. /\ ended' = NoEnd
      /\ UNCHANGED <<raisedFor, sent, calls, reservation, lapsed, pc, call, key, writes>>
  BY DEF AuthVerifies, AuthRefuses
<1>2. m.key \in Key /\ c \in Challenges /\ \A a \in answers : a.key # m.key
  BY DEF IInv, TypeOK, AuthVerifies, AuthRefuses, Unanswered
<1>3. PICK new :
        /\ answers' = answers \cup {new} /\ new.key = m.key
        /\ \/ /\ c \in spendable /\ spendable' = spendable \ {c}
              /\ new = [key |-> m.key, kind |-> "ok", act |-> raisedFor[c]]
           \/ /\ new \in {[key |-> m.key, kind |-> k, act |-> NoAct] : k \in {"miss", "forbidden"}}
              /\ spendable' \subseteq spendable
  BY DEF AuthVerifies, AuthRefuses
<1>4. new \in Answer
  BY <1>2, <1>3 DEF Answer, IInv, TypeOK
<1>5. TypeOK'
  BY <1>1, <1>3, <1>4 DEF IInv, TypeOK
<1>6. KeysInv'
  <2>1. \A a, b \in answers' : a.key = b.key => a = b
    BY <1>2, <1>3 DEF IInv, KeysInv
  <2>2. \A a \in answers' : \E n \in sent : n.key = a.key
    BY <1>3 DEF IInv, KeysInv
  <2> QED
    BY <1>1, <2>1, <2>2 DEF IInv, KeysInv, Message
<1>7. ReservationInv' /\ HashInv'
  BY <1>1 DEF IInv, ReservationInv, HashInv
<1>8. \A n \in sent : Redeemed(n) => Redeemed(n)'
  BY <1>1, <1>3 DEF Redeemed
<1>9. \A n \in sent : n.key = m.key => n = m
  BY DEF IInv, KeysInv
<1>10. WritesInv'
  <2>1. \A r \in Requests : pc[r] = "verified" => Redeemed(Message(r))'
    BY <1>1, <1>8 DEF IInv, WritesInv, KeysInv, Message, Redeemed
  <2>2. \A d \in Challenges : writes'[d] # <<>> =>
          \E n \in sent' :
             /\ n.challenge = d /\ Redeemed(n)'
             /\ \A r \in Requests : pc'[r] \in Working /\ key'[r] = n.key => pc'[r] = "written"
    BY <1>1, <1>8 DEF IInv, WritesInv
  <2> QED
    BY <1>1, <2>1, <2>2 DEF IInv, WritesInv
<1>11. SpentOnce'
  <2>1. \A d \in spendable' : raisedFor'[d] \in Act
    BY <1>1, <1>3 DEF IInv, SpentOnce
  <2>2. ASSUME NEW n \in sent, NEW a \in answers', n.key = a.key, a.kind = "ok"
        PROVE  a.act = raisedFor[n.challenge] /\ a.act \in Act /\ n.challenge \notin spendable'
    <3>1. CASE a \in answers
      BY <1>3, <2>2, <3>1 DEF IInv, SpentOnce
    <3>2. CASE a = new /\ n = m
      BY <1>3, <2>2, <3>2 DEF IInv, SpentOnce
    <3> QED
      BY <1>3, <1>9, <2>2, <3>1, <3>2
  <2>3. ASSUME NEW n \in sent, NEW o \in sent,
               Redeemed(n)', Redeemed(o)', n.challenge = o.challenge
        PROVE  n = o
    <3>1. ASSUME NEW p \in sent, Redeemed(p)', ~Redeemed(p)
          PROVE  p = m /\ c \in spendable
      BY <1>1, <1>3, <1>9, <3>1 DEF Redeemed
    <3>2. \A p \in sent : Redeemed(p) => p.challenge \notin spendable
      BY DEF Redeemed, IInv, SpentOnce
    <3>3. CASE Redeemed(n) /\ Redeemed(o)
      BY <2>3, <3>3 DEF IInv, SpentOnce
    <3> QED
      BY <2>3, <3>1, <3>2, <3>3
  <2> QED
    BY <1>1, <2>1, <2>2, <2>3 DEF SpentOnce
<1> QED
  BY <1>5, <1>6, <1>7, <1>10, <1>11 DEF IInv
-----------------------------------------------------------------------------
\* Steps of a request.

LEMMA EndsInv ==
    ASSUME StepUpAssumption, IInv, NEW r \in Requests, pc[r] \in Working,
           NEW how \in Outcome, Ends(r, how), UNCHANGED <<auth, sent, calls, lapsed, writes>>,
           NEW end \in {"free", "stored"}, end = "free" => pc[r] # "written",
           \/ UNCHANGED reservation
           \/ reservation' = [reservation EXCEPT ![call[r].challenge] =
                                 IF @ = r THEN end ELSE @]
    PROVE  IInv'
<1> USE DEF auth
<1>1. /\ pc' = [pc EXCEPT ![r] = "idle"] /\ call' = [call EXCEPT ![r] = NoCall]
      /\ key' = [key EXCEPT ![r] = 0]
      /\ ended' = [challenge |-> call[r].challenge, key |-> key[r], how |-> how]
  BY DEF Ends
<1>2. /\ call[r] \in Call /\ key[r] \in Key /\ call[r].challenge \in Challenges
      /\ "idle" \notin Working
  BY DEF IInv, TypeOK, Call, Working
<1>3. /\ pc' \in [Requests -> Working \cup {"idle"}] /\ pc'[r] = "idle"
      /\ \A q \in Requests : pc'[q] \in Working =>
            q # r /\ pc'[q] = pc[q] /\ call'[q] = call[q] /\ key'[q] = key[q]
  <2>1. ASSUME NEW q \in Requests, q # r
        PROVE  pc'[q] = pc[q] /\ key'[q] = key[q]
    BY <1>1, <2>1 DEF IInv, TypeOK
  <2>2. ASSUME NEW q \in Requests, q # r
        PROVE  call'[q] = call[q]
    BY <1>1, <2>2 DEF IInv, TypeOK
  <2> QED
    BY <1>1, <1>2, <2>1, <2>2 DEF IInv, TypeOK
<1>4. TypeOK'
  <2>1. call' \in [Requests -> Call \cup {NoCall}]
    BY <1>1 DEF IInv, TypeOK
  <2>2. key' \in [Requests -> Key]
    BY <1>1 DEF IInv, TypeOK, Key
  <2>3. ended' \in Ended
    BY <1>1, <1>2 DEF Ended
  <2>4. reservation' \in [Challenges -> Requests \cup {"free", "stored"}]
    BY DEF IInv, TypeOK
  <2> QED
    BY <1>3, <2>1, <2>2, <2>3, <2>4 DEF IInv, TypeOK
<1>5. KeysInv'
  <2>1. \A q \in Requests : pc'[q] \in Working => Message(q)' = Message(q)
    BY <1>3 DEF Message
  <2> QED
    BY <1>3, <2>1 DEF IInv, KeysInv, Working
<1>6. SpentOnce' /\ HashInv'
  BY <1>3 DEF IInv, SpentOnce, Redeemed, HashInv
<1>7. WritesInv'
  <2>1. ASSUME NEW q \in Requests, pc'[q] = "verified"
        PROVE  /\ Redeemed(Message(q))'
               /\ raisedFor'[call'[q].challenge].purpose = call'[q].purpose
               /\ raisedFor'[call'[q].challenge].bound \in {NoHash, call'[q].body}
               /\ writes'[call'[q].challenge] = <<>>
    <3>1. pc[q] = "verified" /\ call'[q] = call[q] /\ key'[q] = key[q]
      BY <1>3, <2>1 DEF Working
    <3> QED
      BY <3>1 DEF IInv, WritesInv, Message, Redeemed
  <2>2. ASSUME NEW d \in Challenges, writes'[d] # <<>>
        PROVE  \E n \in sent' :
                  /\ n.challenge = d /\ Redeemed(n)'
                  /\ \A q \in Requests : pc'[q] \in Working /\ key'[q] = n.key
                                          => pc'[q] = "written"
    <3>1. PICK n \in sent :
            /\ n.challenge = d /\ Redeemed(n)
            /\ \A q \in Requests : pc[q] \in Working /\ key[q] = n.key => pc[q] = "written"
      BY <2>2 DEF IInv, WritesInv
    <3>2. Redeemed(n)'
      BY <3>1 DEF Redeemed
    <3>3. ASSUME NEW q \in Requests, pc'[q] \in Working, key'[q] = n.key
          PROVE  pc'[q] = "written"
      BY <1>3, <3>1, <3>3
    <3> QED
      BY <3>1, <3>2, <3>3
  <2> QED
    BY <2>1, <2>2 DEF WritesInv
<1>8. ReservationInv'
  <2>1. ASSUME NEW q \in Requests, pc'[q] \in Working, call'[q].challenge \notin lapsed'
        PROVE  /\ reservation'[call'[q].challenge] = q
               /\ pc'[q] # "written" => writes'[call'[q].challenge] = <<>>
    <3>1. q # r /\ pc'[q] = pc[q] /\ call'[q] = call[q] /\ call[q].challenge \in Challenges
      BY <1>3, <2>1 DEF IInv, TypeOK, Call
    <3>2. reservation[call[q].challenge] = q /\ (pc[q] # "written" => writes[call[q].challenge] = <<>>)
      BY <2>1, <3>1 DEF IInv, ReservationInv
    <3>3. reservation'[call[q].challenge] = reservation[call[q].challenge]
      BY <1>2, <3>1, <3>2 DEF IInv, TypeOK
    <3> QED
      BY <3>1, <3>2, <3>3
  <2>2. ASSUME NEW d \in Challenges \ lapsed, reservation'[d] = "free"
        PROVE  writes[d] = <<>>
    <3>1. CASE reservation[d] = "free"
      BY <2>2, <3>1 DEF IInv, ReservationInv
    <3>2. CASE reservation[d] # "free"
      <4>1. d = call[r].challenge /\ end = "free"
        BY <1>2, <2>2, <3>2 DEF IInv, TypeOK
      <4> QED
        BY <2>2, <4>1 DEF IInv, ReservationInv
    <3> QED
      BY <3>1, <3>2
  <2> QED
    BY <2>1, <2>2 DEF ReservationInv
<1> QED
  BY <1>4, <1>5, <1>6, <1>7, <1>8 DEF IInv

LEMMA ArriveInv ==
    ASSUME StepUpAssumption, IInv, NEW r \in Requests, Arrive(r)
    PROVE  IInv'
<1> USE DEF auth
<1>1. PICK new \in Call :
        /\ new.hash \in {new.body, NoHash, MediaHash}
        /\ reservation[new.challenge] = "free"
        /\ reservation' = [reservation EXCEPT ![new.challenge] = r]
        /\ pc' = [pc EXCEPT ![r] = "connecting"]
        /\ call' = [call EXCEPT ![r] = new]
        /\ key' = [key EXCEPT ![r] = calls + 1]
  BY DEF Arrive, FreshKey
<1>2. /\ pc[r] = "idle" /\ calls' = calls + 1 /\ ended' = NoEnd
      /\ UNCHANGED <<raisedFor, spendable, answers, sent, lapsed, writes>>
  BY DEF Arrive
<1>3. /\ new.challenge \in Challenges /\ calls \in Nat /\ calls + 1 \in Key
      /\ {"connecting"} \subseteq Working /\ "idle" \notin Working
  BY DEF IInv, TypeOK, Call, Key, Working
<1>4. /\ pc'[r] = "connecting" /\ call'[r] = new /\ key'[r] = calls + 1
      /\ \A q \in Requests : q # r =>
            pc'[q] = pc[q] /\ call'[q] = call[q] /\ key'[q] = key[q]
  BY <1>1 DEF IInv, TypeOK
<1>5. TypeOK'
  <2>1. call' \in [Requests -> Call \cup {NoCall}] /\ pc' \in [Requests -> Working \cup {"idle"}]
    BY <1>1, <1>3 DEF IInv, TypeOK
  <2>2. key' \in [Requests -> Key] /\ calls' \in Nat
    BY <1>1, <1>2, <1>3 DEF IInv, TypeOK
  <2>3. reservation' \in [Challenges -> Requests \cup {"free", "stored"}]
    BY <1>1 DEF IInv, TypeOK
  <2>4. \A q \in Requests : pc'[q] \in Working => call'[q] \in Call
    BY <1>4 DEF IInv, TypeOK
  <2> QED
    BY <1>2, <2>1, <2>2, <2>3, <2>4 DEF IInv, TypeOK
<1>6. \A m \in sent : m.key \in 1..calls /\ m.key # calls + 1
  BY <1>3 DEF IInv, KeysInv
<1>7. \A q \in Requests : q # r /\ pc[q] \in Working => key[q] \in 1..calls /\ key[q] # calls + 1
  BY <1>3 DEF IInv, KeysInv
<1>8. KeysInv'
  <2>1. \A q \in Requests : pc'[q] \in Working => key'[q] \in 1..calls'
    BY <1>2, <1>3, <1>4, <1>7
  <2>2. \A p, q \in Requests :
          p # q /\ pc'[p] \in Working /\ pc'[q] \in Working => key'[p] # key'[q]
    BY <1>4, <1>7 DEF IInv, KeysInv
  <2>3. \A m \in sent' : m.key \in 1..calls'
    BY <1>2, <1>3, <1>6
  <2>4. \A q \in Requests : pc'[q] = "connecting" => \A m \in sent' : m.key # key'[q]
    BY <1>2, <1>4, <1>6 DEF IInv, KeysInv
  <2>5. \A q \in Requests : pc'[q] \in {"sent", "verified", "written"} => Message(q)' \in sent'
    BY <1>2, <1>4 DEF IInv, KeysInv, Message
  <2> QED
    BY <1>2, <2>1, <2>2, <2>3, <2>4, <2>5 DEF IInv, KeysInv
<1>9. SpentOnce' /\ HashInv'
  BY <1>1, <1>2, <1>4 DEF IInv, SpentOnce, Redeemed, HashInv
<1>10. WritesInv'
  <2>1. ASSUME NEW q \in Requests, pc'[q] = "verified"
        PROVE  /\ Redeemed(Message(q))'
               /\ raisedFor'[call'[q].challenge].purpose = call'[q].purpose
               /\ raisedFor'[call'[q].challenge].bound \in {NoHash, call'[q].body}
               /\ writes'[call'[q].challenge] = <<>>
    <3>1. pc[q] = "verified" /\ call'[q] = call[q] /\ key'[q] = key[q]
      BY <1>4, <2>1
    <3> QED
      BY <1>2, <3>1 DEF IInv, WritesInv, Message, Redeemed
  <2>2. ASSUME NEW d \in Challenges, writes'[d] # <<>>
        PROVE  \E n \in sent' :
                  /\ n.challenge = d /\ Redeemed(n)'
                  /\ \A q \in Requests : pc'[q] \in Working /\ key'[q] = n.key
                                          => pc'[q] = "written"
    <3>1. PICK n \in sent :
            /\ n.challenge = d /\ Redeemed(n)
            /\ \A q \in Requests : pc[q] \in Working /\ key[q] = n.key => pc[q] = "written"
      BY <1>2, <2>2 DEF IInv, WritesInv
    <3>2. Redeemed(n)'
      BY <1>2, <3>1 DEF Redeemed
    <3>3. ASSUME NEW q \in Requests, pc'[q] \in Working, key'[q] = n.key
          PROVE  pc'[q] = "written"
      BY <1>4, <1>6, <3>1, <3>3
    <3> QED
      BY <1>2, <3>1, <3>2, <3>3
  <2> QED
    BY <2>1, <2>2 DEF WritesInv
<1>11. ReservationInv'
  <2>1. ASSUME NEW q \in Requests, pc'[q] \in Working, call'[q].challenge \notin lapsed'
        PROVE  /\ reservation'[call'[q].challenge] = q
               /\ pc'[q] # "written" => writes'[call'[q].challenge] = <<>>
    <3>1. CASE q = r
      BY <1>1, <1>2, <1>3, <1>4, <2>1, <3>1 DEF IInv, TypeOK, ReservationInv
    <3>2. CASE q # r
      <4>1. /\ pc[q] \in Working /\ call[q].challenge \in Challenges
            /\ reservation[call[q].challenge] = q
            /\ pc[q] # "written" => writes[call[q].challenge] = <<>>
        BY <1>2, <1>4, <2>1, <3>2 DEF IInv, ReservationInv, TypeOK, Call
      <4>2. call[q].challenge # new.challenge
        BY <1>1, <4>1 DEF StepUpAssumption
      <4> QED
        BY <1>1, <1>2, <1>4, <3>2, <4>1, <4>2 DEF IInv, TypeOK
    <3> QED
      BY <3>1, <3>2
  <2>2. ASSUME NEW d \in Challenges \ lapsed, reservation'[d] = "free"
        PROVE  writes[d] = <<>>
    BY <1>1, <2>2 DEF IInv, TypeOK, ReservationInv, StepUpAssumption
  <2> QED
    BY <1>2, <2>1, <2>2 DEF ReservationInv
<1> QED
  BY <1>5, <1>8, <1>9, <1>10, <1>11 DEF IInv

LEMMA SendInv ==
    ASSUME IInv, NEW r \in Requests, Send(r)
    PROVE  IInv'
<1> USE DEF auth, host
<1>1. /\ pc[r] = "connecting" /\ sent' = sent \cup {Message(r)} /\ ended' = NoEnd
      /\ pc' = [pc EXCEPT ![r] = "sent"]
      /\ UNCHANGED <<raisedFor, spendable, answers, calls, reservation, lapsed, call, key,
                     writes>>
  BY DEF Send, Message
<1>2. /\ call[r] \in Call /\ Message(r).key = key[r] /\ key[r] \in 1..calls
      /\ Message(r) \in [key : Key, challenge : Challenges]
      /\ \A m \in sent : m.key # key[r]
  BY <1>1 DEF IInv, TypeOK, KeysInv, Message, Call, Working
<1>3. /\ pc'[r] = "sent" /\ \A q \in Requests : q # r => pc'[q] = pc[q]
      /\ \A q \in Requests : (pc'[q] \in Working <=> pc[q] \in Working)
  BY <1>1 DEF IInv, TypeOK, Working
<1>4. TypeOK'
  BY <1>1, <1>2, <1>3 DEF IInv, TypeOK, Working
<1>5. \A a \in answers : a.key # key[r]
  BY <1>2 DEF IInv, KeysInv
<1>6. ~Redeemed(Message(r)) /\ \A m \in sent' : Redeemed(m)' <=> Redeemed(m)
  BY <1>1, <1>2, <1>5 DEF Redeemed
<1>7. KeysInv'
  <2>1. \A m, n \in sent' : m.key = n.key => m = n
    BY <1>1, <1>2 DEF IInv, KeysInv
  <2>2. ASSUME NEW q \in Requests, pc'[q] = "connecting"
        PROVE  \A m \in sent' : m.key # key'[q]
    <3>1. q # r /\ pc[q] = "connecting" /\ key[q] # key[r]
      BY <1>1, <1>3, <2>2 DEF IInv, KeysInv, Working
    <3> QED
      BY <1>1, <1>2, <3>1 DEF IInv, KeysInv
  <2>3. \A q \in Requests : pc'[q] \in {"sent", "verified", "written"} => Message(q)' \in sent'
    BY <1>1, <1>3 DEF IInv, KeysInv, Message
  <2>4. \A m \in sent' : m.key \in 1..calls'
    BY <1>1, <1>2 DEF IInv, KeysInv
  <2>5. \A a \in answers' : \E m \in sent' : m.key = a.key
    BY <1>1 DEF IInv, KeysInv
  <2> QED
    BY <1>1, <1>3, <2>1, <2>2, <2>3, <2>4, <2>5 DEF IInv, KeysInv
<1>8. ReservationInv' /\ HashInv'
  BY <1>1, <1>3 DEF IInv, ReservationInv, HashInv
<1>9. SpentOnce'
  <2>1. \A m \in sent', a \in answers' : m.key = a.key => m \in sent
    BY <1>1, <1>2, <1>5
  <2>2. \A m \in sent' : Redeemed(m)' => m \in sent /\ Redeemed(m)
    BY <1>1, <1>6
  <2> QED
    BY <1>1, <2>1, <2>2 DEF IInv, SpentOnce
<1>10. WritesInv'
  <2>1. ASSUME NEW q \in Requests, pc'[q] = "verified"
        PROVE  /\ Redeemed(Message(q))'
               /\ raisedFor'[call'[q].challenge].purpose = call'[q].purpose
               /\ raisedFor'[call'[q].challenge].bound \in {NoHash, call'[q].body}
               /\ writes'[call'[q].challenge] = <<>>
    <3>1. pc[q] = "verified"
      BY <1>3, <2>1
    <3> QED
      BY <1>1, <3>1 DEF IInv, WritesInv, Message, Redeemed
  <2>2. ASSUME NEW d \in Challenges, writes'[d] # <<>>
        PROVE  \E n \in sent' :
                  /\ n.challenge = d /\ Redeemed(n)'
                  /\ \A q \in Requests : pc'[q] \in Working /\ key'[q] = n.key
                                          => pc'[q] = "written"
    <3>1. PICK n \in sent :
            /\ n.challenge = d /\ Redeemed(n)
            /\ \A q \in Requests : pc[q] \in Working /\ key[q] = n.key => pc[q] = "written"
      BY <1>1, <2>2 DEF IInv, WritesInv
    <3>2. n \in sent' /\ Redeemed(n)'
      BY <1>1, <3>1 DEF Redeemed
    <3>3. ASSUME NEW q \in Requests, pc'[q] \in Working, key'[q] = n.key
          PROVE  pc'[q] = "written"
      BY <1>1, <1>2, <1>3, <3>1, <3>3
    <3> QED
      BY <3>1, <3>2, <3>3
  <2> QED
    BY <2>1, <2>2 DEF WritesInv
<1> QED
  BY <1>4, <1>7, <1>8, <1>9, <1>10 DEF IInv

\* The branch of Receive on which the challenge is this act's.
Verified(r) ==
    /\ pc[r] = "sent"
    /\ \E a \in answers : /\ a.key = key[r] /\ a.kind = "ok"
                          /\ a.act.purpose = call[r].purpose /\ CheckBody(a.act, call[r].hash)
    /\ pc' = [pc EXCEPT ![r] = "verified"] /\ ended' = NoEnd
    /\ UNCHANGED <<auth, sent, calls, host, call, key, writes>>

LEMMA VerifiedInv ==
    ASSUME StepUpAssumption, IInv, NEW r \in Requests, Verified(r)
    PROVE  IInv'
<1> USE DEF auth, host
<1>1. /\ pc[r] = "sent" /\ pc' = [pc EXCEPT ![r] = "verified"] /\ ended' = NoEnd
      /\ UNCHANGED <<raisedFor, spendable, answers, sent, calls, reservation, lapsed, call,
                     key, writes>>
  BY DEF Verified
<1>2. PICK a \in answers : /\ a.key = key[r] /\ a.kind = "ok"
                           /\ a.act.purpose = call[r].purpose /\ CheckBody(a.act, call[r].hash)
  BY DEF Verified
<1> DEFINE c == call[r].challenge
<1>3. /\ call[r] \in Call /\ c \in Challenges /\ Message(r) \in sent
      /\ Message(r).key = key[r] /\ Message(r).challenge = c
  BY <1>1 DEF IInv, TypeOK, KeysInv, Message, Call, Working
<1>4. a.act = raisedFor[c] /\ a.act \in Act
  BY <1>2, <1>3 DEF IInv, SpentOnce
<1>5. Redeemed(Message(r))
  <2>1. a = [key |-> key[r], kind |-> "ok", act |-> raisedFor[c]]
    BY <1>2, <1>4 DEF IInv, TypeOK, Answer
  <2> QED
    BY <1>3, <2>1 DEF Redeemed
<1>6. a.act.bound \in {NoHash, call[r].body}
  <2>1. call[r].hash \in {call[r].body, NoHash, MediaHash}
    BY <1>1 DEF IInv, HashInv, Working
  <2>2. a.act.bound \in Bodies \cup {NoHash}
    BY <1>4 DEF Act, Promise!Act
  <2> QED
    BY <1>2, <2>1, <2>2 DEF CheckBody, StepUpAssumption
<1>7. writes[c] = <<>>
  <2>1. ASSUME writes[c] # <<>>
        PROVE  FALSE
    <3>1. PICK m \in sent :
            /\ m.challenge = c /\ Redeemed(m)
            /\ \A q \in Requests : pc[q] \in Working /\ key[q] = m.key => pc[q] = "written"
      BY <1>3, <2>1 DEF IInv, WritesInv
    <3>2. m = Message(r)
      BY <1>3, <1>5, <3>1 DEF IInv, SpentOnce
    <3> QED
      BY <1>1, <1>3, <3>1, <3>2 DEF Working
  <2> QED
    BY <2>1
<1>8. /\ pc'[r] = "verified" /\ \A q \in Requests : q # r => pc'[q] = pc[q]
      /\ \A q \in Requests : (pc'[q] \in Working <=> pc[q] \in Working)
      /\ \A q \in Requests : (pc'[q] = "written" <=> pc[q] = "written")
      /\ \A q \in Requests : (pc'[q] = "connecting" <=> pc[q] = "connecting")
  BY <1>1 DEF IInv, TypeOK, Working
<1>9. TypeOK'
  BY <1>1, <1>8 DEF IInv, TypeOK, Working
<1>10. KeysInv'
  BY <1>1, <1>3, <1>8 DEF IInv, KeysInv, Message
<1>11. SpentOnce' /\ HashInv' /\ ReservationInv'
  BY <1>1, <1>8 DEF IInv, SpentOnce, Redeemed, HashInv, ReservationInv
<1>12. WritesInv'
  <2>1. ASSUME NEW q \in Requests, pc'[q] = "verified"
        PROVE  /\ Redeemed(Message(q))'
               /\ raisedFor'[call'[q].challenge].purpose = call'[q].purpose
               /\ raisedFor'[call'[q].challenge].bound \in {NoHash, call'[q].body}
               /\ writes'[call'[q].challenge] = <<>>
    <3>1. CASE q = r
      BY <1>1, <1>2, <1>4, <1>5, <1>6, <1>7, <3>1 DEF Message, Redeemed
    <3>2. CASE q # r
      <4>1. pc[q] = "verified"
        BY <1>8, <2>1, <3>2
      <4> QED
        BY <1>1, <4>1 DEF IInv, WritesInv, Message, Redeemed
    <3> QED
      BY <3>1, <3>2
  <2>2. \A d \in Challenges : writes'[d] # <<>> =>
          \E n \in sent' :
             /\ n.challenge = d /\ Redeemed(n)'
             /\ \A q \in Requests : pc'[q] \in Working /\ key'[q] = n.key => pc'[q] = "written"
    <3> SUFFICES ASSUME NEW d \in Challenges, writes'[d] # <<>>
                 PROVE  \E n \in sent' :
                           /\ n.challenge = d /\ Redeemed(n)'
                           /\ \A q \in Requests : pc'[q] \in Working /\ key'[q] = n.key
                                                   => pc'[q] = "written"
      OBVIOUS
    <3>1. PICK n \in sent :
            /\ n.challenge = d /\ Redeemed(n)
            /\ \A q \in Requests : pc[q] \in Working /\ key[q] = n.key => pc[q] = "written"
      BY <1>1 DEF IInv, WritesInv
    <3> QED
      BY <1>1, <1>8, <3>1 DEF Redeemed
  <2> QED
    BY <2>1, <2>2 DEF WritesInv
<1> QED
  BY <1>9, <1>10, <1>11, <1>12 DEF IInv

\* The write is the one the challenge authorizes, and the first under it.
LEMMA PerformIsAuthorized ==
    ASSUME IInv, NEW r \in Requests, Perform(r)
    PROVE  LET c == call[r].challenge
               write == [purpose |-> call[r].purpose, body |-> call[r].body]
           IN /\ c \in Challenges /\ write \in Promise!Write
              /\ raisedFor[c] \in Act /\ raisedFor[c].purpose = write.purpose
              /\ raisedFor[c].bound \in {NoHash, write.body}
              /\ writes[c] = <<>> /\ writes' = [writes EXCEPT ![c] = <<write>>]
<1> DEFINE c == call[r].challenge
           write == [purpose |-> call[r].purpose, body |-> call[r].body]
<1>1. pc[r] = "verified" /\ writes' = [writes EXCEPT ![c] = Append(@, write)]
  BY DEF Perform
<1>2. call[r] \in Call /\ c \in Challenges /\ write \in Promise!Write
  BY <1>1 DEF IInv, TypeOK, Call, Promise!Write, Working
<1>3. /\ Redeemed(Message(r)) /\ Message(r) \in sent /\ writes[c] = <<>>
      /\ raisedFor[c].purpose = write.purpose /\ raisedFor[c].bound \in {NoHash, write.body}
  BY <1>1 DEF IInv, WritesInv, KeysInv
<1>4. raisedFor[c] \in Act
  BY <1>3 DEF IInv, SpentOnce, Redeemed, Message
<1>5. writes' = [writes EXCEPT ![c] = <<write>>]
  <2>1. Append(writes[c], write) = <<write>>
    BY <1>3
  <2> QED
    BY <1>1, <2>1
<1> QED
  BY <1>2, <1>3, <1>4, <1>5

LEMMA PerformInv ==
    ASSUME StepUpAssumption, IInv, NEW r \in Requests, Perform(r)
    PROVE  IInv'
<1> USE DEF auth, host
<1> DEFINE c == call[r].challenge
           write == [purpose |-> call[r].purpose, body |-> call[r].body]
<1>1. /\ pc[r] = "verified" /\ pc' = [pc EXCEPT ![r] = "written"] /\ ended' = NoEnd
      /\ UNCHANGED <<raisedFor, spendable, answers, sent, calls, reservation, lapsed, call, key>>
  BY DEF Perform
<1>2. /\ c \in Challenges /\ write \in Promise!Write
      /\ writes' = [writes EXCEPT ![c] = <<write>>]
  BY PerformIsAuthorized
<1> HIDE DEF write
<1>3. /\ c \in Challenges /\ Message(r) \in sent /\ Redeemed(Message(r))
      /\ Message(r).challenge = c /\ Message(r).key = key[r]
  <2>1. Message(r) \in sent /\ Redeemed(Message(r))
    BY <1>1 DEF IInv, KeysInv, WritesInv
  <2> QED
    BY <1>2, <2>1 DEF Message
<1>4. /\ pc'[r] = "written" /\ \A q \in Requests : q # r => pc'[q] = pc[q]
      /\ \A q \in Requests : (pc'[q] \in Working <=> pc[q] \in Working)
      /\ pc[r] \in Working
  BY <1>1 DEF IInv, TypeOK, Working
<1>5. writes'[c] # <<>> /\ \A d \in Challenges : d # c => writes'[d] = writes[d]
  BY <1>2, <1>3 DEF IInv, TypeOK
<1>6. TypeOK'
  <2>1. writes' \in [Challenges -> Seq(Promise!Write)]
    <3>1. <<write>> \in Seq(Promise!Write)
      BY <1>2
    <3> QED
      BY <1>2, <3>1 DEF IInv, TypeOK
  <2>2. pc' \in [Requests -> Working \cup {"idle"}]
    BY <1>1 DEF IInv, TypeOK, Working
  <2> QED
    BY <1>1, <1>4, <2>1, <2>2 DEF IInv, TypeOK
<1>7. KeysInv'
  BY <1>1, <1>3, <1>4 DEF IInv, KeysInv, Message
<1>8. SpentOnce' /\ HashInv'
  BY <1>1, <1>4 DEF IInv, SpentOnce, Redeemed, HashInv
<1>9. WritesInv'
  <2>1. ASSUME NEW q \in Requests, pc'[q] = "verified"
        PROVE  /\ Redeemed(Message(q))'
               /\ raisedFor'[call'[q].challenge].purpose = call'[q].purpose
               /\ raisedFor'[call'[q].challenge].bound \in {NoHash, call'[q].body}
               /\ writes'[call'[q].challenge] = <<>>
    <3>1. q # r /\ pc[q] = "verified"
      BY <1>4, <2>1
    <3>2. /\ Message(q) \in sent /\ Redeemed(Message(q)) /\ key[q] # key[r]
          /\ call[q].challenge \in Challenges
      BY <1>4, <3>1 DEF IInv, TypeOK, KeysInv, WritesInv, Call, Working
    <3>3. call[q].challenge # c
      BY <1>3, <3>2 DEF IInv, SpentOnce, Message
    <3> QED
      BY <1>1, <1>5, <3>1, <3>2, <3>3 DEF IInv, WritesInv, Message, Redeemed
  <2>2. ASSUME NEW d \in Challenges, writes'[d] # <<>>
        PROVE  \E n \in sent' :
                  /\ n.challenge = d /\ Redeemed(n)'
                  /\ \A q \in Requests : pc'[q] \in Working /\ key'[q] = n.key
                                          => pc'[q] = "written"
    <3>1. CASE d = c
      <4>1. \A q \in Requests : pc'[q] \in Working /\ key'[q] = key[r] => pc'[q] = "written"
        BY <1>1, <1>4 DEF IInv, KeysInv
      <4> QED
        BY <1>1, <1>3, <3>1, <4>1 DEF Redeemed
    <3>2. CASE d # c
      <4>1. PICK n \in sent :
              /\ n.challenge = d /\ Redeemed(n)
              /\ \A q \in Requests : pc[q] \in Working /\ key[q] = n.key => pc[q] = "written"
        BY <1>5, <2>2, <3>2 DEF IInv, WritesInv
      <4> QED
        BY <1>1, <1>4, <4>1 DEF Redeemed
    <3> QED
      BY <3>1, <3>2
  <2> QED
    BY <2>1, <2>2 DEF WritesInv
<1>10. ReservationInv'
  <2>1. c \notin lapsed => reservation[c] = r
    BY <1>4 DEF IInv, ReservationInv
  <2>2. ASSUME NEW q \in Requests, pc'[q] \in Working, call'[q].challenge \notin lapsed'
        PROVE  /\ reservation'[call'[q].challenge] = q
               /\ pc'[q] # "written" => writes'[call'[q].challenge] = <<>>
    <3>1. /\ pc[q] \in Working /\ reservation[call[q].challenge] = q
          /\ call[q].challenge \in Challenges
          /\ pc[q] # "written" => writes[call[q].challenge] = <<>>
      BY <1>1, <1>4, <2>2 DEF IInv, ReservationInv, TypeOK, Call
    <3>2. q # r => call[q].challenge # c
      BY <1>1, <2>1, <2>2, <3>1
    <3> QED
      BY <1>1, <1>4, <1>5, <3>1, <3>2
  <2>3. ASSUME NEW d \in Challenges \ lapsed, reservation'[d] = "free"
        PROVE  writes'[d] = <<>>
    <3>1. d # c /\ reservation[d] = "free"
      BY <1>1, <2>1, <2>3 DEF StepUpAssumption
    <3> QED
      BY <1>5, <2>3, <3>1 DEF IInv, ReservationInv
  <2> QED
    BY <1>1, <2>2, <2>3 DEF ReservationInv
<1> QED
  BY <1>6, <1>7, <1>8, <1>9, <1>10 DEF IInv
-----------------------------------------------------------------------------
\* Every step of a request is one of these.
LEMMA RequestCases ==
    ASSUME NEW r \in Requests, Step(r)
    PROVE  \/ Arrive(r) \/ Send(r) \/ Perform(r) \/ Store(r) \/ Crash(r) \/ Verified(r)
           \/ pc[r] \in {"connecting", "sent", "verified"}
              /\ \E how \in Outcome \ {"miss"} : Refuses(r, how)
           \/ pc[r] = "sent" /\ Refuses(r, "miss")
BY DEF Step, WriteFails, RefusedUnsent, ConnectFails, AnswerLost, Receive, Verified, Outcome

LEMMA RequestInv ==
    ASSUME StepUpAssumption, IInv, NEW r \in Requests, Step(r)
    PROVE  IInv'
<1>1. ASSUME NEW how \in Outcome, Refuses(r, how), pc[r] \in {"connecting", "sent", "verified"}
      PROVE  IInv'
  BY <1>1, EndsInv DEF Refuses, Working
<1>2. CASE Store(r)
  BY <1>2, EndsInv DEF Store, Working, Outcome
<1>3. CASE Crash(r)
  <2>1. UNCHANGED reservation /\ UNCHANGED lapsed
    BY <1>3 DEF Crash, host
  <2>2. "crashed" \in Outcome /\ "stored" # "free"
    BY DEF Outcome
  <2> QED
    BY <1>3, <2>1, <2>2, EndsInv DEF Crash
<1>4. "miss" \in Outcome
  BY DEF Outcome
<1> QED
  BY <1>1, <1>2, <1>3, <1>4, RequestCases, ArriveInv, SendInv, PerformInv, VerifiedInv

LEMMA StepIInv == StepUpAssumption /\ IInv /\ [Next]_vars => IInv'
<1> SUFFICES ASSUME StepUpAssumption, IInv, [Next]_vars
             PROVE  IInv'
  OBVIOUS
<1>1. CASE UNCHANGED vars
  <2>1. TypeOK' /\ KeysInv'
    BY <1>1 DEF vars, auth, host, task, IInv, TypeOK, KeysInv, Message
  <2>2. SpentOnce' /\ HashInv'
    BY <1>1 DEF vars, auth, task, IInv, SpentOnce, Redeemed, HashInv
  <2>3. WritesInv'
    BY <1>1 DEF vars, auth, task, IInv, WritesInv, Redeemed, Message
  <2>4. ReservationInv'
    BY <1>1 DEF vars, host, task, IInv, ReservationInv
  <2> QED
    BY <2>1, <2>2, <2>3, <2>4 DEF IInv
<1> QED
  BY <1>1, StepUpInv, ExpireInv, LapseInv, AuthInv, RequestInv DEF Next

\* Every variable keeps its type, no key is used twice, and no challenge is
\* consumed or written under twice.
THEOREM KeysAreFresh == Spec => []IInv
BY InitIInv, StepIInv, StepUpAssumption, PTL DEF Spec

\* The code keeps the promise of SingleUse: the write of a request is the first
\* under its challenge, for the purpose and of the body it was raised for.
THEOREM StepUpAuthorizesOneWrite == Spec => ActsOnce
<1>1. Init => Promise!Init
  BY DEF Init
<1>2. ASSUME IInv, [Next]_vars
      PROVE  [Promise!Next]_<<raisedFor, writes>>
  <2> USE DEF auth
  <2>1. ASSUME NEW c \in Challenges, StepUp(c)
        PROVE  Promise!Next
    BY <2>1 DEF StepUp, Promise!Next, Act
  <2>2. ASSUME NEW r \in Requests, Perform(r)
        PROVE  Promise!Next
    <3> DEFINE c == call[r].challenge
               write == [purpose |-> call[r].purpose, body |-> call[r].body]
    <3>1. c \in Challenges /\ write \in Promise!Write
      BY <1>2, <2>2, PerformIsAuthorized
    <3>2. Promise!Perform(c, write)
      BY <1>2, <2>2, PerformIsAuthorized DEF Perform, Promise!Perform, Act
    <3> QED
      BY <3>1, <3>2 DEF Promise!Next
  <2>3. ASSUME NEW r \in Requests, Step(r), ~Perform(r)
        PROVE  UNCHANGED <<raisedFor, writes>>
    BY <2>3, RequestCases DEF Arrive, Send, Store, Crash, Verified, Refuses
  <2>4. ASSUME NEW c \in Challenges, Expire(c) \/ Lapse(c)
        PROVE  UNCHANGED <<raisedFor, writes>>
    BY <2>4 DEF Expire, Lapse
  <2>5. ASSUME NEW m \in sent, AuthVerifies(m) \/ AuthRefuses(m)
        PROVE  UNCHANGED <<raisedFor, writes>>
    BY <2>5 DEF AuthVerifies, AuthRefuses
  <2>6. CASE UNCHANGED vars
    BY <2>6 DEF vars
  <2> QED
    BY <1>2, <2>1, <2>2, <2>3, <2>4, <2>5, <2>6 DEF Next
<1> QED
  BY <1>1, <1>2, KeysAreFresh, PTL DEF Spec, ActsOnce, Promise!Spec

\* While its reservation lasts, a request whose act was written is not told that
\* its challenge is gone.
THEOREM WrittenActsAreNotMissed == Spec => []WrittenIsNeverMissed
<1>1. Init => WrittenIsNeverMissed
  BY DEF Init, NoEnd, WrittenIsNeverMissed
<1>2. ASSUME IInv, WrittenIsNeverMissed, [Next]_vars
      PROVE  WrittenIsNeverMissed'
  <2> USE DEF auth, host, NoEnd
  <2>1. ASSUME NEW r \in Requests, pc[r] = "sent", Refuses(r, "miss")
        PROVE  WrittenIsNeverMissed'
    BY <1>2, <2>1 DEF Refuses, Ends, WrittenIsNeverMissed, IInv, ReservationInv, Working
  <2>2. ASSUME ended'.how # "miss"
        PROVE  WrittenIsNeverMissed'
    BY <2>2 DEF WrittenIsNeverMissed
  <2>3. ASSUME NEW r \in Requests, Step(r), ~(pc[r] = "sent" /\ Refuses(r, "miss"))
        PROVE  ended'.how # "miss"
    <3>1. CASE Arrive(r) \/ Send(r) \/ Perform(r) \/ Verified(r)
      BY <3>1 DEF Arrive, Send, Perform, Verified
    <3>2. CASE Store(r) \/ Crash(r)
      BY <3>2 DEF Store, Crash, Ends
    <3>3. ASSUME NEW how \in Outcome \ {"miss"}, Refuses(r, how)
          PROVE  ended'.how # "miss"
      BY <3>3 DEF Refuses, Ends
    <3> QED
      BY <2>3, <3>1, <3>2, <3>3, RequestCases
  <2>4. ASSUME NEW c \in Challenges, StepUp(c) \/ Expire(c) \/ Lapse(c)
        PROVE  ended'.how # "miss"
    BY <2>4 DEF StepUp, Expire, Lapse
  <2>5. ASSUME NEW m \in sent, AuthVerifies(m) \/ AuthRefuses(m)
        PROVE  ended'.how # "miss"
    BY <2>5 DEF AuthVerifies, AuthRefuses
  <2>6. CASE UNCHANGED vars
    BY <1>2, <2>6 DEF vars, WrittenIsNeverMissed
  <2> QED
    BY <1>2, <2>1, <2>2, <2>3, <2>4, <2>5, <2>6 DEF Next
<1> QED
  BY <1>1, <1>2, KeysAreFresh, PTL DEF Spec

\* The outcomes RefusalTellsSpent says something of, and what each is said for.
Telling == {"unsent", "misconfigured", "miss", "purpose", "body", "unhashed", "failed"}

Holds(r, kinds) == \E a \in answers : a.key = key[r] /\ a.kind \in kinds

Because(r, how) ==
    \/ how = "unsent" /\ pc[r] = "connecting"
    \/ how \in {"misconfigured", "miss"} /\ Holds(r, {"forbidden", "miss"})
    \/ how \in {"purpose", "body", "unhashed"} /\ Holds(r, {"ok"})
    \/ how = "failed" /\ pc[r] = "verified"

EndsBecause(r, how) ==
    /\ ended' = [challenge |-> call[r].challenge, key |-> key[r], how |-> how]
    /\ answers' = answers /\ Because(r, how)

LEMMA RefusedBecause ==
    ASSUME NEW r \in Requests, Step(r), ended'.how \in Telling
    PROVE  \E how \in Telling : EndsBecause(r, how)
<1>1. ASSUME NEW how, Refuses(r, how), Because(r, how), how \in Telling
      PROVE  \E k \in Telling : EndsBecause(r, k)
  BY <1>1 DEF Refuses, Ends, auth, EndsBecause
<1>2. CASE Arrive(r) \/ Perform(r) \/ Send(r)
  BY <1>2 DEF Arrive, Perform, Send, NoEnd, Telling
<1>3. CASE Store(r) \/ Crash(r)
  BY <1>3 DEF Store, Crash, Ends, Telling
<1>4. CASE WriteFails(r) \/ RefusedUnsent(r)
  BY <1>1, <1>4 DEF WriteFails, RefusedUnsent, Because, Telling
<1>5. CASE ConnectFails(r) \/ AnswerLost(r)
  BY <1>5 DEF ConnectFails, AnswerLost, Refuses, Ends, Telling
<1>6. CASE Receive(r)
  <2>1. PICK a \in answers :
          /\ a.key = key[r]
          /\ \/ a.kind = "forbidden" /\ Refuses(r, "misconfigured")
             \/ a.kind = "miss" /\ Refuses(r, "miss")
             \/ a.kind = "ok" /\ \E how \in {"purpose", "body", "unhashed"} : Refuses(r, how)
             \/ ended' = NoEnd
    BY <1>6 DEF Receive
  <2>2. CASE ended' = NoEnd
    BY <2>2 DEF NoEnd, Telling
  <2>3. /\ a.kind \in {"forbidden", "miss"} => Holds(r, {"forbidden", "miss"})
        /\ a.kind = "ok" => Holds(r, {"ok"})
    BY <2>1 DEF Holds
  <2> QED
    BY <2>1, <2>2, <2>3, <1>1 DEF Because, Telling
<1> QED
  BY <1>2, <1>3, <1>4, <1>5, <1>6 DEF Step

LEMMA RefusedTells ==
    ASSUME IInv, NEW r \in Requests, NEW how \in Telling, EndsBecause(r, how)
    PROVE  RefusalTellsSpent'
<1>1. /\ KeysInv /\ WritesInv
      /\ ended'.how = how /\ ended'.key = key[r] /\ answers' = answers
  BY DEF EndsBecause, IInv
<1>2. ASSUME how \in {"unsent", "misconfigured", "miss"}
      PROVE  ~Holds(r, {"ok"})
  <2>1. CASE pc[r] = "connecting"
    BY <1>1, <2>1 DEF KeysInv, Holds
  <2>2. CASE Holds(r, {"forbidden", "miss"})
    BY <1>1, <2>2 DEF KeysInv, Holds
  <2> QED
    BY <1>2, <2>1, <2>2 DEF EndsBecause, Because
<1>3. ASSUME how \in {"purpose", "body", "unhashed", "failed"}
      PROVE  Holds(r, {"ok"})
  <2>1. CASE pc[r] = "verified"
    BY <1>1, <2>1 DEF WritesInv, Redeemed, Message, Holds
  <2> QED
    BY <1>3, <2>1 DEF EndsBecause, Because
<1>4. Spent' <=> Holds(r, {"ok"})
  BY <1>1 DEF Spent, Holds
<1> QED
  BY <1>1, <1>2, <1>3, <1>4 DEF RefusalTellsSpent

\* A refusal that is not an indeterminate one tells whether the request's own
\* call consumed the challenge.
THEOREM RefusalsTell == Spec => []RefusalTellsSpent
<1>1. Init => RefusalTellsSpent
  BY DEF Init, NoEnd, RefusalTellsSpent
<1>2. ASSUME IInv, RefusalTellsSpent, [Next]_vars
      PROVE  RefusalTellsSpent'
  <2>1. ASSUME ended'.how \notin Telling
        PROVE  RefusalTellsSpent'
    BY <2>1 DEF RefusalTellsSpent, Telling
  <2>2. ASSUME NEW r \in Requests, Step(r)
        PROVE  RefusalTellsSpent'
    BY <1>2, <2>1, <2>2, RefusedBecause, RefusedTells
  <2>3. ASSUME NEW c \in Challenges, StepUp(c) \/ Expire(c) \/ Lapse(c)
        PROVE  RefusalTellsSpent'
    BY <2>1, <2>3 DEF StepUp, Expire, Lapse, NoEnd, Telling
  <2>4. ASSUME NEW m \in sent, AuthVerifies(m) \/ AuthRefuses(m)
        PROVE  RefusalTellsSpent'
    BY <2>1, <2>4 DEF AuthVerifies, AuthRefuses, NoEnd, Telling
  <2>5. CASE UNCHANGED vars
    BY <1>2, <2>5 DEF vars, auth, RefusalTellsSpent, Spent
  <2> QED
    BY <1>2, <2>2, <2>3, <2>4, <2>5 DEF Next
<1> QED
  BY <1>1, <1>2, KeysAreFresh, PTL DEF Spec
=============================================================================

------------------------ MODULE SerialBroadcastProofs ------------------------
(***************************************************************************)
(* Machine-checked proof that a serial broadcast, whatever implements it,  *)
(* calls every callback with each event it is owed once and in order.      *)
(***************************************************************************)
EXTENDS SerialBroadcast, SequenceTheorems, TLAPS

BroadcastTypeOK ==
  /\ log \in Seq(EventTypes)
  /\ begun \in 0 .. Len(log)
  /\ members \in [EventTypes -> Seq(Callbacks)]
  /\ pending \in Seq(Callbacks)
  /\ calls \in [Callbacks -> Seq(Nat)]
  /\ joined \in [Callbacks -> Nat]

(* A callback is in the list of its own type only. *)
MembersSorted ==
  \A t \in EventTypes : \A i \in DOMAIN members[t] : TypeOf[members[t][i]] = t

(* subscribe() is called once per callback. *)
MembersDistinct ==
  \A t \in EventTypes : \A i, j \in DOMAIN members[t] :
    members[t][i] = members[t][j] => i = j

(* Who is still to be called was registered before the event was begun, is *)
(* registered for its type, and is to be called once.                      *)
PendingOwed ==
  /\ \A i \in DOMAIN pending : /\ begun > 0
                               /\ pending[i] \in Registered
                               /\ TypeOf[pending[i]] = log[begun]
                               /\ joined[pending[i]] < begun
  /\ \A i, j \in DOMAIN pending : pending[i] = pending[j] => i = j

JoinedBefore == \A c \in Callbacks : joined[c] <= begun

BroadcastInv == /\ BroadcastTypeOK
                /\ MembersSorted
                /\ MembersDistinct
                /\ PendingOwed
                /\ JoinedBefore
                /\ ExactlyOnceInOrder
-----------------------------------------------------------------------------
(* What Append and Tail leave where. *)
LEMMA AppendAt ==
  ASSUME NEW S, NEW s \in Seq(S), NEW e \in S
  PROVE  /\ Append(s, e) \in Seq(S)
         /\ DOMAIN Append(s, e) = DOMAIN s \cup {Len(s) + 1}
         /\ Len(s) + 1 \notin DOMAIN s
         /\ \A i \in DOMAIN s : Append(s, e)[i] = s[i]
         /\ Append(s, e)[Len(s) + 1] = e
<1>1. DOMAIN s = 1 .. Len(s) /\ Len(s) \in Nat
  BY LenProperties
<1>2. DOMAIN Append(s, e) = 1 .. Len(s) + 1
  BY AppendProperties, LenProperties
<1>. QED BY <1>1, <1>2, AppendProperties

LEMMA TailAt ==
  ASSUME NEW S, NEW s \in Seq(S), s # <<>>
  PROVE  /\ Tail(s) \in Seq(S)
         /\ Head(s) \in S
         /\ Head(s) = s[1]
         /\ 1 \in DOMAIN s
         /\ \A i \in DOMAIN Tail(s) : i + 1 \in DOMAIN s /\ i + 1 # 1 /\ Tail(s)[i] = s[i + 1]
         /\ \A i \in DOMAIN s : i # 1 => i - 1 \in DOMAIN Tail(s) /\ Tail(s)[i - 1] = s[i]
<1>1. /\ DOMAIN s = 1 .. Len(s)
      /\ Len(s) \in Nat \ {0}
  BY LenProperties, EmptySeq
<1>2. /\ Tail(s) \in Seq(S)
      /\ Len(Tail(s)) = Len(s) - 1
      /\ DOMAIN Tail(s) = 1 .. Len(s) - 1
      /\ \A i \in 1 .. Len(Tail(s)) : Tail(s)[i] = s[i + 1]
      /\ Head(s) \in S
  BY HeadTailProperties, LenProperties
<1>. QED BY <1>1, <1>2
-----------------------------------------------------------------------------
LEMMA BroadcastInit == Init => BroadcastInv
<1>. SUFFICES ASSUME Init PROVE BroadcastInv
  OBVIOUS
<1>1. /\ \A S : <<>> \in Seq(S)
      /\ Len(<<>>) = 0
      /\ DOMAIN <<>> = {}
  BY EmptySeq
<1>2. BroadcastTypeOK
  <2>1. begun \in 0 .. Len(log)
    BY <1>1 DEF Init
  <2>2. /\ members \in [EventTypes -> Seq(Callbacks)]
        /\ calls \in [Callbacks -> Seq(Nat)]
        /\ joined \in [Callbacks -> Nat]
    BY <1>1 DEF Init
  <2>3. log \in Seq(EventTypes) /\ pending \in Seq(Callbacks)
    BY <1>1, Zenon DEF Init
  <2>. QED BY <2>1, <2>2, <2>3 DEF BroadcastTypeOK
<1>3. MembersSorted /\ MembersDistinct
  BY <1>1 DEF Init, MembersSorted, MembersDistinct
<1>4. PendingOwed
  BY <1>1 DEF Init, PendingOwed
<1>5. JoinedBefore
  BY DEF Init, JoinedBefore
<1>6. ASSUME NEW c \in Callbacks
      PROVE  /\ {calls[c][n] : n \in DOMAIN calls[c]} = Owed(c)
             /\ \A m, n \in DOMAIN calls[c] : m < n => calls[c][m] < calls[c][n]
  <2>1. Owed(c) = {}
    BY DEF Owed, Init
  <2>2. DOMAIN calls[c] = {}
    BY <1>1 DEF Init
  <2>. QED BY <2>1, <2>2
<1>. QED
  BY <1>2, <1>3, <1>4, <1>5, <1>6 DEF BroadcastInv, ExactlyOnceInOrder
-----------------------------------------------------------------------------
(* What a callback was called with is between its registration and begun.  *)
LEMMA CallsBounded ==
  ASSUME BroadcastInv, NEW c \in Callbacks, NEW n \in DOMAIN calls[c]
  PROVE  /\ calls[c][n] \in Nat
         /\ calls[c][n] <= begun
         /\ c \in Registered
         /\ IsPending(c) => calls[c][n] < begun
<1>1. calls[c][n] \in Owed(c)
  BY DEF BroadcastInv, ExactlyOnceInOrder
<1>2. calls[c] \in Seq(Nat) /\ calls[c][n] \in Nat
  BY ElementOfSeq, LenProperties DEF BroadcastInv, BroadcastTypeOK
<1>3. begun \in Nat
  BY LenProperties DEF BroadcastInv, BroadcastTypeOK
<1>. QED BY <1>1, <1>2, <1>3 DEF Owed

(* Publishing lengthens the log beyond what has been begun. *)
LEMMA PostKeeps ==
  ASSUME BroadcastInv, NEW t \in EventTypes, Post(t)
  PROVE  BroadcastInv'
<1>1. /\ Append(log, t) \in Seq(EventTypes)
      /\ Len(log) \in Nat
      /\ Len(Append(log, t)) = Len(log) + 1
      /\ \A i \in 1 .. Len(log) : Append(log, t)[i] = log[i]
  BY AppendProperties, LenProperties DEF BroadcastInv, BroadcastTypeOK
<1>2. BroadcastTypeOK'
  BY <1>1 DEF Post, BroadcastInv, BroadcastTypeOK
<1>3. begun > 0 => log'[begun] = log[begun]
  BY <1>1 DEF Post, BroadcastInv, BroadcastTypeOK
<1>4. MembersSorted' /\ MembersDistinct' /\ JoinedBefore'
  BY DEF Post, BroadcastInv, MembersSorted, MembersDistinct, JoinedBefore
<1>5. PendingOwed'
  BY <1>3 DEF Post, BroadcastInv, PendingOwed, Registered
<1>6. ASSUME NEW c \in Callbacks PROVE Owed(c)' = Owed(c)
  <2>1. joined[c] \in Nat /\ begun \in Nat /\ begun <= Len(log)
    BY <1>1 DEF BroadcastInv, BroadcastTypeOK
  <2>2. \A i \in joined[c] + 1 .. begun : log'[i] = log[i]
    BY <1>1, <2>1 DEF Post
  <2>3. (c \in Registered)' <=> c \in Registered
    BY DEF Post, Registered
  <2>4. IsPending(c)' <=> IsPending(c)
    BY DEF Post, IsPending
  <2>5. joined' = joined /\ begun' = begun
    BY DEF Post
  <2>. QED BY <2>2, <2>3, <2>4, <2>5 DEF Owed
<1>7. ExactlyOnceInOrder'
  BY <1>6 DEF Post, BroadcastInv, ExactlyOnceInOrder
<1>. QED BY <1>2, <1>4, <1>5, <1>7 DEF BroadcastInv

(* Who registers is owed nothing of the past and gets nothing of the       *)
(* event being dispatched.                                                 *)
LEMMA RegisterKeeps ==
  ASSUME TypeOf \in [Callbacks -> EventTypes], BroadcastInv,
         NEW c \in Callbacks, Register(c)
  PROVE  BroadcastInv'
<1>. DEFINE t == TypeOf[c]
            list == members[t]
<1>1. t \in EventTypes /\ list \in Seq(Callbacks)
  BY DEF BroadcastInv, BroadcastTypeOK
<1>2. /\ Append(list, c) \in Seq(Callbacks)
      /\ DOMAIN Append(list, c) = DOMAIN list \cup {Len(list) + 1}
      /\ Len(list) + 1 \notin DOMAIN list
      /\ \A i \in DOMAIN list : Append(list, c)[i] = list[i]
      /\ Append(list, c)[Len(list) + 1] = c
  BY <1>1, AppendAt
<1>3. /\ members' = [members EXCEPT ![t] = Append(list, c)]
      /\ members'[t] = Append(list, c)
      /\ \A u \in EventTypes : u # t => members'[u] = members[u]
  BY <1>1 DEF Register, BroadcastInv, BroadcastTypeOK
<1>4. begun \in Nat
  BY LenProperties DEF BroadcastInv, BroadcastTypeOK
<1>. HIDE DEF t, list
<1>5. BroadcastTypeOK'
  BY <1>1, <1>2, <1>3, <1>4 DEF Register, BroadcastInv, BroadcastTypeOK
<1>6. MembersSorted'
  BY <1>2, <1>3 DEF BroadcastInv, MembersSorted, t, list
<1>7. \A i \in DOMAIN list : list[i] # c
  BY DEF Register, Registered, t, list
<1>8. MembersDistinct'
  <2>1. ASSUME NEW i \in DOMAIN Append(list, c), NEW j \in DOMAIN Append(list, c),
               Append(list, c)[i] = Append(list, c)[j]
        PROVE  i = j
    BY <1>1, <1>2, <1>7, <2>1 DEF BroadcastInv, MembersDistinct, list
  <2>. QED BY <2>1, <1>3 DEF BroadcastInv, MembersDistinct
<1>9. ASSUME NEW d \in Callbacks
      PROVE  (d \in Registered)' <=> d \in Registered \/ d = c
  <2>1. TypeOf[d] \in EventTypes
    OBVIOUS
  <2>2. CASE d = c
    BY <1>2, <1>3, <2>2 DEF Registered, t
  <2>3. CASE d # c /\ TypeOf[d] # t
    BY <1>3, <2>1, <2>3 DEF Registered
  <2>4. CASE d # c /\ TypeOf[d] = t
    BY <1>2, <1>3, <2>4 DEF Registered, list
  <2>. QED BY <2>2, <2>3, <2>4
<1>10. ASSUME NEW d \in Callbacks, d # c PROVE joined'[d] = joined[d]
  BY <1>10 DEF Register, BroadcastInv, BroadcastTypeOK
<1>11. joined'[c] = begun
  BY DEF Register, BroadcastInv, BroadcastTypeOK
<1>12. ASSUME NEW i \in DOMAIN pending
       PROVE  pending[i] \in Callbacks /\ pending[i] # c
  BY <1>12 DEF BroadcastInv, PendingOwed, Register, Registered
<1>13. PendingOwed'
  BY <1>9, <1>10, <1>12 DEF Register, BroadcastInv, PendingOwed
<1>14. JoinedBefore'
  BY <1>4, <1>10, <1>11 DEF Register, BroadcastInv, JoinedBefore
<1>15. ASSUME NEW d \in Callbacks PROVE Owed(d)' = Owed(d)
  <2>1. CASE d = c
    <3>1. Owed(c) = {}
      BY DEF Owed, Register
    <3>2. joined'[c] + 1 .. begun' = {}
      BY <1>4, <1>11 DEF Register
    <3>. QED BY <2>1, <3>1, <3>2 DEF Owed
  <2>2. CASE d # c
    BY <1>9, <1>10, <2>2 DEF Owed, IsPending, Register
  <2>. QED BY <2>1, <2>2
<1>16. ExactlyOnceInOrder'
  BY <1>15 DEF Register, BroadcastInv, ExactlyOnceInOrder
<1>. QED BY <1>5, <1>6, <1>8, <1>13, <1>14, <1>16 DEF BroadcastInv

(* Beginning an event owes it to nobody yet: all it is for are pending. *)
LEMMA BeginKeeps ==
  ASSUME TypeOf \in [Callbacks -> EventTypes], BroadcastInv, Begin
  PROVE  BroadcastInv'
<1>. DEFINE t == log[begun + 1]
<1>1. /\ begun \in Nat
      /\ begun + 1 \in 1 .. Len(log)
      /\ t \in EventTypes
  BY LenProperties, ElementOfSeq DEF Begin, BroadcastInv, BroadcastTypeOK
<1>2. members[t] \in Seq(Callbacks)
  BY <1>1 DEF BroadcastInv, BroadcastTypeOK
<1>. HIDE DEF t
<1>3. /\ begun' = begun + 1
      /\ pending' = members[t]
      /\ UNCHANGED <<log, members, calls, joined>>
      /\ pending = <<>>
  BY DEF Begin, t
<1>4. BroadcastTypeOK'
  BY <1>1, <1>2, <1>3 DEF BroadcastInv, BroadcastTypeOK
<1>5. MembersSorted' /\ MembersDistinct'
  BY <1>3 DEF BroadcastInv, MembersSorted, MembersDistinct
<1>6. \A c \in Callbacks : joined[c] \in Nat /\ joined[c] < begun + 1
  BY <1>1 DEF BroadcastInv, JoinedBefore, BroadcastTypeOK
<1>7. JoinedBefore'
  BY <1>1, <1>3, <1>6 DEF JoinedBefore
<1>8. ASSUME NEW i \in DOMAIN members[t]
      PROVE  /\ members[t][i] \in Callbacks
             /\ TypeOf[members[t][i]] = t
             /\ members[t][i] \in Registered
  <2>1. members[t][i] \in Callbacks
    BY <1>2, ElementOfSeq, LenProperties
  <2>2. TypeOf[members[t][i]] = t
    BY <1>1 DEF BroadcastInv, MembersSorted
  <2>. QED BY <2>1, <2>2 DEF Registered
<1>9. Registered' = Registered
  BY <1>3 DEF Registered
<1>10. PendingOwed'
  <2>1. \A i, j \in DOMAIN members[t] : members[t][i] = members[t][j] => i = j
    BY <1>1 DEF BroadcastInv, MembersDistinct
  <2>. QED BY <1>1, <1>3, <1>6, <1>8, <1>9, <2>1 DEF PendingOwed, t
<1>11. ASSUME NEW c \in Callbacks PROVE Owed(c)' = Owed(c)
  <2>1. DOMAIN pending = {}
    BY <1>3, EmptySeq
  <2>2. Owed(c) = {i \in joined[c] + 1 .. begun : c \in Registered /\ log[i] = TypeOf[c]}
    BY <2>1 DEF Owed, IsPending
  <2>3. Owed(c)' = {i \in joined[c] + 1 .. begun + 1 :
                     /\ c \in Registered
                     /\ log[i] = TypeOf[c]
                     /\ ~ (i = begun + 1 /\ IsPending(c)')}
    BY <1>3, <1>9 DEF Owed
  <2>4. c \in Registered /\ log[begun + 1] = TypeOf[c] => IsPending(c)'
    BY <1>3 DEF Registered, IsPending, t
  <2>5. ASSUME NEW i PROVE i \in joined[c] + 1 .. begun + 1
                           <=> i \in joined[c] + 1 .. begun \/ i = begun + 1
    BY <1>1, <1>6
  <2>6. begun + 1 \notin joined[c] + 1 .. begun
    BY <1>1, <1>6
  <2>. QED BY <2>2, <2>3, <2>4, <2>5, <2>6
<1>12. ExactlyOnceInOrder'
  BY <1>3, <1>11 DEF BroadcastInv, ExactlyOnceInOrder
<1>. QED BY <1>4, <1>5, <1>7, <1>10, <1>12 DEF BroadcastInv

(* A call is the one callback's only call with the event being dispatched. *)
LEMMA CallKeeps ==
  ASSUME BroadcastInv, Call
  PROVE  BroadcastInv'
<1>0. PICK c : c = Head(pending)
  OBVIOUS
<1>1. /\ Tail(pending) \in Seq(Callbacks)
      /\ c \in Callbacks
      /\ c = pending[1]
      /\ 1 \in DOMAIN pending
      /\ \A i \in DOMAIN Tail(pending) :
           i + 1 \in DOMAIN pending /\ i + 1 # 1 /\ Tail(pending)[i] = pending[i + 1]
      /\ \A i \in DOMAIN pending :
           i # 1 => i - 1 \in DOMAIN Tail(pending) /\ Tail(pending)[i - 1] = pending[i]
  BY <1>0, TailAt DEF Call, BroadcastInv, BroadcastTypeOK
<1>2. begun \in Nat /\ begun > 0
  BY <1>1, LenProperties DEF BroadcastInv, BroadcastTypeOK, PendingOwed
<1>3. calls[c] \in Seq(Nat)
  BY <1>1 DEF BroadcastInv, BroadcastTypeOK
<1>4. /\ Append(calls[c], begun) \in Seq(Nat)
      /\ DOMAIN Append(calls[c], begun) = DOMAIN calls[c] \cup {Len(calls[c]) + 1}
      /\ Len(calls[c]) + 1 \notin DOMAIN calls[c]
      /\ \A i \in DOMAIN calls[c] : Append(calls[c], begun)[i] = calls[c][i]
      /\ Append(calls[c], begun)[Len(calls[c]) + 1] = begun
  <2>1. PICK list : list = calls[c]
    OBVIOUS
  <2>. QED BY <1>2, <1>3, <2>1, AppendAt
<1>5. /\ pending' = Tail(pending)
      /\ calls' = [calls EXCEPT ![c] = Append(calls[c], begun)]
      /\ UNCHANGED <<log, begun, members, joined>>
  BY <1>0 DEF Call
<1>6. /\ calls'[c] = Append(calls[c], begun)
      /\ \A d \in Callbacks : d # c => calls'[d] = calls[d]
  BY <1>1, <1>5 DEF BroadcastInv, BroadcastTypeOK
<1>7. BroadcastTypeOK'
  BY <1>1, <1>4, <1>5 DEF BroadcastInv, BroadcastTypeOK
<1>8. MembersSorted' /\ MembersDistinct' /\ JoinedBefore' /\ Registered' = Registered
  BY <1>5 DEF BroadcastInv, MembersSorted, MembersDistinct, JoinedBefore, Registered
<1>9. PendingOwed'
  <2>1. ASSUME NEW i \in DOMAIN Tail(pending), NEW j \in DOMAIN Tail(pending),
               Tail(pending)[i] = Tail(pending)[j]
        PROVE  i = j
    <3>1. i + 1 = j + 1
      BY <1>1, <2>1 DEF BroadcastInv, PendingOwed
    <3>2. i \in Int /\ j \in Int
      BY <1>1, LenProperties
    <3>. QED BY <3>1, <3>2
  <2>2. \A i \in DOMAIN Tail(pending) :
           /\ Tail(pending)[i] \in Registered
           /\ TypeOf[Tail(pending)[i]] = log[begun]
           /\ joined[Tail(pending)[i]] < begun
    BY <1>1 DEF BroadcastInv, PendingOwed
  <2>. QED BY <1>2, <1>5, <1>8, <2>1, <2>2 DEF PendingOwed
<1>10. /\ IsPending(c)
       /\ ~ IsPending(c)'
       /\ \A d \in Callbacks : d # c => (IsPending(d)' <=> IsPending(d))
  <2>1. IsPending(c)
    BY <1>1 DEF IsPending
  <2>2. ASSUME NEW i \in DOMAIN Tail(pending), Tail(pending)[i] = c PROVE FALSE
    <3>1. pending[i + 1] = pending[1] /\ i + 1 \in DOMAIN pending /\ i + 1 # 1
      BY <1>1, <2>2
    <3>. QED BY <1>1, <3>1 DEF BroadcastInv, PendingOwed
  <2>3. ~ IsPending(c)'
    BY <1>5, <2>2 DEF IsPending
  <2>4. ASSUME NEW d \in Callbacks, d # c PROVE IsPending(d)' <=> IsPending(d)
    <3>1. ASSUME NEW i \in DOMAIN pending, pending[i] = d
          PROVE  \E j \in DOMAIN Tail(pending) : Tail(pending)[j] = d
      BY <1>1, <2>4, <3>1
    <3>2. ASSUME NEW j \in DOMAIN Tail(pending), Tail(pending)[j] = d
          PROVE  \E i \in DOMAIN pending : pending[i] = d
      BY <1>1, <3>2
    <3>. QED BY <1>5, <3>1, <3>2 DEF IsPending
  <2>. QED BY <2>1, <2>3, <2>4
<1>11. /\ c \in Registered
       /\ TypeOf[c] = log[begun]
       /\ joined[c] < begun
       /\ joined[c] \in Nat
  BY <1>1 DEF BroadcastInv, PendingOwed, BroadcastTypeOK
<1>12. Owed(c)' = Owed(c) \cup {begun}
  <2>1. Owed(c) = {i \in joined[c] + 1 .. begun : log[i] = TypeOf[c] /\ i # begun}
    BY <1>10, <1>11 DEF Owed
  <2>2. Owed(c)' = {i \in joined[c] + 1 .. begun : log[i] = TypeOf[c]}
    BY <1>5, <1>8, <1>10, <1>11 DEF Owed
  <2>3. begun \in joined[c] + 1 .. begun
    BY <1>2, <1>11
  <2>. QED BY <1>11, <2>1, <2>2, <2>3
<1>13. ASSUME NEW d \in Callbacks, d # c PROVE Owed(d)' = Owed(d)
  BY <1>5, <1>8, <1>10, <1>13 DEF Owed
<1>14. ASSUME NEW d \in Callbacks
       PROVE  /\ {calls'[d][n] : n \in DOMAIN calls'[d]} = Owed(d)'
              /\ \A m, n \in DOMAIN calls'[d] : m < n => calls'[d][m] < calls'[d][n]
  <2>1. CASE d # c
    BY <1>6, <1>13, <2>1 DEF BroadcastInv, ExactlyOnceInOrder
  <2>2. CASE d = c
    <3>1. {calls'[c][n] : n \in DOMAIN calls'[c]}
            = {calls[c][n] : n \in DOMAIN calls[c]} \cup {begun}
      BY <1>4, <1>6
    <3>2. {calls[c][n] : n \in DOMAIN calls[c]} = Owed(c)
      BY <1>1 DEF BroadcastInv, ExactlyOnceInOrder
    <3>3. \A n \in DOMAIN calls[c] : calls[c][n] < begun /\ n < Len(calls[c]) + 1 /\ n \in Nat
      BY <1>1, <1>3, <1>10, CallsBounded, LenProperties
    <3>4. \A m, n \in DOMAIN calls[c] : m < n => calls[c][m] < calls[c][n]
      BY <1>1 DEF BroadcastInv, ExactlyOnceInOrder
    <3>5. Len(calls[c]) \in Nat
      BY <1>3, LenProperties
    <3>6. ASSUME NEW m \in DOMAIN calls'[c], NEW n \in DOMAIN calls'[c], m < n
          PROVE  calls'[c][m] < calls'[c][n]
      <4>1. m \in DOMAIN calls[c]
        BY <1>4, <1>6, <3>3, <3>5, <3>6
      <4>. QED BY <1>4, <1>6, <3>3, <3>4, <3>6, <4>1
    <3>. QED BY <1>12, <2>2, <3>1, <3>2, <3>6
  <2>. QED BY <2>1, <2>2
<1>15. ExactlyOnceInOrder'
  BY <1>14 DEF ExactlyOnceInOrder
<1>. QED BY <1>7, <1>8, <1>9, <1>15 DEF BroadcastInv

LEMMA BroadcastStep ==
  ASSUME TypeOf \in [Callbacks -> EventTypes], BroadcastInv, [Next]_vars
  PROVE  BroadcastInv'
<1>1. ASSUME NEW t \in EventTypes, Post(t) PROVE BroadcastInv'
  BY <1>1, PostKeeps
<1>2. ASSUME NEW c \in Callbacks, Register(c) PROVE BroadcastInv'
  BY <1>2, RegisterKeeps
<1>3. CASE Begin
  BY <1>3, BeginKeeps
<1>4. CASE Call
  BY <1>4, CallKeeps
<1>5. CASE UNCHANGED vars
  <2>1. /\ BroadcastTypeOK'
        /\ MembersSorted'
        /\ MembersDistinct'
        /\ JoinedBefore'
    BY <1>5 DEF vars, BroadcastInv, BroadcastTypeOK, MembersSorted, MembersDistinct,
                JoinedBefore
  <2>2. PendingOwed'
    BY <1>5 DEF vars, BroadcastInv, PendingOwed, Registered
  <2>3. \A c \in Callbacks : Owed(c)' = Owed(c)
    BY <1>5 DEF vars, Owed, IsPending, Registered
  <2>4. ExactlyOnceInOrder'
    BY <1>5, <2>3 DEF vars, BroadcastInv, ExactlyOnceInOrder
  <2>. QED BY <2>1, <2>2, <2>4 DEF BroadcastInv
<1>. QED BY <1>1, <1>2, <1>3, <1>4, <1>5 DEF Next

(* Handlers may keep unsynchronised state: whatever publishes, registers   *)
(* or is called in whatever order, each callback gets every event it is    *)
(* owed, once and in the order of publication.                             *)
THEOREM OnceInOrder ==
  ASSUME TypeOf \in [Callbacks -> EventTypes]
  PROVE  Spec => []ExactlyOnceInOrder
<1>1. Init => BroadcastInv
  BY BroadcastInit
<1>2. BroadcastInv /\ [Next]_vars => BroadcastInv'
  BY BroadcastStep
<1>3. BroadcastInv => ExactlyOnceInOrder
  BY DEF BroadcastInv
<1>. QED BY <1>1, <1>2, <1>3, PTL DEF Spec
=============================================================================

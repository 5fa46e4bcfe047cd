-------------------------- MODULE UdpSourceProofs ---------------------------
(***************************************************************************)
(* The frames of a node are taken in the order in which they were sent,    *)
(* for every even width of the numbers of protocol 2 and every delay that  *)
(* is less than half of it; and the table of the sources agrees with the   *)
(* clients, for any clients and sources.                                   *)
(***************************************************************************)
EXTENDS UdpSource, TLAPS

(* A number that has left the range of the width by less than the width. *)
LEMMA Wraps ==
    ASSUME NEW x \in Int, -Width <= x, x < 2 * Width
    PROVE  x % Width = IF x < 0 THEN x + Width ELSE IF x < Width THEN x ELSE x - Width
<1>1. Width \in Nat /\ Width > 0
  BY SourceAssumption
<1> QED BY <1>1

(* Half of the width, without the division. *)
LEMMA Half ==
    /\ Width \div 2 \in Nat
    /\ Width = 2 * (Width \div 2)
    /\ MaxDelay \in Nat /\ MaxDelay + 1 <= Width \div 2
BY SourceAssumption

-----------------------------------------------------------------------------
(* n frames after the one of the number seq comes that of the number tx. *)
Follows(c, seq, n, tx) == tx = IF c \in v2 THEN (seq + n) % Width ELSE seq + n

(* A number of the client c. *)
Number(c) == IF c \in v2 THEN 0 .. Width - 1 ELSE Nat

NumbersOK ==
    /\ next_tx \in [Client -> Nat] /\ next_rx \in [Client -> Nat]
    /\ newest \in [Client -> 0 .. Ancient]
    /\ \A c \in Client : next_tx[c] \in Number(c) /\ next_rx[c] \in Number(c)

WireOK ==
    /\ wire \subseteq Datagram
    /\ \A d \in wire : (d.reg => d.client \notin v2 /\ d.seq = 0)
    /\ \A d \in wire : ~d.reg =>
          d.seq \in Number(d.client) /\ Follows(d.client, d.seq, d.age + 1, next_tx[d.client])

(* What is expected next is as far behind as the newest frame is old. *)
ExpectedOK ==
    \A c \in Client : newest[c] <= MaxDelay => Follows(c, next_rx[c], newest[c], next_tx[c])

(* The nodes that run have a source. *)
SourcesOK == at \in [Client -> Source \cup {None}]

IInv == SourcesOK /\ NumbersOK /\ WireOK /\ ExpectedOK

(* The number after that of the last frame follows whatever it followed. *)
LEMMA FollowsOn ==
    ASSUME NEW c \in Client, NEW seq \in Number(c), NEW n \in Nat, n <= MaxDelay + 1,
           NEW tx, Follows(c, seq, n, tx)
    PROVE  LET next == IF c \in v2 THEN (tx + 1) % Width ELSE tx + 1 IN
           next \in Number(c) /\ Follows(c, seq, n + 1, next)
<1>1. Width \in Nat /\ Width > 0 /\ n < Width
  BY Half, SourceAssumption
<1>2. CASE c \in v2
  <2>1. seq + n \in Int /\ -Width <= seq + n /\ seq + n < 2 * Width
    BY <1>1, <1>2 DEF Number
  <2>2. tx = IF seq + n < Width THEN seq + n ELSE seq + n - Width
    BY <1>1, <1>2, <2>1, Wraps DEF Follows, Number
  <2>3. tx \in 0 .. Width - 1
    BY <1>1, <1>2, <2>2 DEF Number
  <2>4. (tx + 1) % Width = IF tx + 1 < Width THEN tx + 1 ELSE tx + 1 - Width
    BY <1>1, <2>3, Wraps
  <2>5. (seq + (n + 1)) % Width = IF seq + n + 1 < Width THEN seq + n + 1 ELSE seq + n + 1 - Width
    <3>1. seq + (n + 1) \in Int /\ -Width <= seq + (n + 1) /\ seq + (n + 1) < 2 * Width
      BY <1>1, <1>2 DEF Number
    <3> QED BY <1>1, <1>2, <3>1, Wraps DEF Number
  <2> QED BY <1>1, <1>2, <2>2, <2>3, <2>4, <2>5 DEF Number, Follows
<1>3. CASE c \notin v2
  BY <1>3 DEF Number, Follows
<1> QED BY <1>2, <1>3

(* A frame in sequence is newer than the newest, and after it the next. *)
LEMMA InSequenceIsNewer ==
    ASSUME IInv, NEW d \in wire, ~d.reg, InSequence(d.client, d)
    PROVE  d.age < newest[d.client]
<1> DEFINE c == d.client
           rx == next_rx[c]
<1>1. /\ c \in Client /\ d.age \in Nat /\ d.age <= MaxDelay /\ d.seq \in Number(c)
      /\ rx \in Number(c) /\ newest[c] \in 0 .. Ancient
  BY Half DEF IInv, WireOK, NumbersOK, Datagram
<1>2. SUFFICES ASSUME newest[c] <= d.age PROVE FALSE
  BY <1>1, Half DEF Ancient
<1>3. Follows(c, rx, newest[c], next_tx[c]) /\ Follows(c, d.seq, d.age + 1, next_tx[c])
  BY <1>1, <1>2, Half DEF IInv, ExpectedOK, WireOK, Ancient
<1>4. Width \in Nat /\ Width > 0 /\ newest[c] \in Nat /\ newest[c] < Width /\ d.age + 1 <= Width \div 2
  BY <1>1, <1>2, Half, SourceAssumption DEF Ancient
<1>5. CASE c \in v2
  <2>1. rx \in 0 .. Width - 1 /\ d.seq \in 0 .. Width - 1
    BY <1>1, <1>5 DEF Number
  <2>2. (d.seq - rx) % Width <= Width \div 2 - 1
    BY <1>5 DEF InSequence
  <2>3. d.age \in Nat
    BY <1>1, Half
  <2> DEFINE x == rx + newest[c]
             y == d.seq + (d.age + 1)
             z == d.seq - rx
  <2>4. x = y % Width \/ x = (y % Width) + Width
    <3>1. x % Width = y % Width
      BY <1>3, <1>5 DEF Follows
    <3>2. x \in Int /\ -Width <= x /\ x < 2 * Width /\ x >= 0
      BY <1>4, <2>1
    <3> HIDE DEF x, y
    <3>3. x % Width = x \/ x % Width = x - Width
      BY <1>4, <3>2, Wraps
    <3>4. Width \in Int /\ x \in Int
      BY <1>4, <3>2
    <3> QED BY <3>1, <3>3, <3>4
  <2>5. y % Width = y \/ y % Width = y - Width
    <3>1. d.age + 1 <= Width
      BY <1>4, <2>3, Half
    <3>2. y \in Int /\ -Width <= y /\ y < 2 * Width /\ y >= 0
      BY <1>4, <2>1, <2>3, <3>1
    <3> HIDE DEF y
    <3> QED BY <1>4, <3>2, Wraps
  <2>6. z % Width = z \/ (z < 0 /\ z % Width = z + Width)
    <3>1. z \in Int /\ -Width <= z /\ z < Width /\ z < 2 * Width
      BY <1>4, <2>1
    <3> HIDE DEF z
    <3> QED BY <1>4, <3>1, Wraps
  <2>7. z % Width <= Width \div 2 - 1 /\ x = rx + newest[c] /\ y = d.seq + d.age + 1 /\ z = d.seq - rx
    BY <2>1, <2>2, <2>3
  <2> HIDE DEF x, y, z, c, rx
  <2> QED BY <1>2, <1>4, <2>1, <2>3, <2>4, <2>5, <2>6, <2>7, Half
<1>6. CASE c \notin v2
  BY <1>1, <1>2, <1>3, <1>4, <1>6 DEF InSequence, Expected, Follows, Number
<1> QED BY <1>5, <1>6

LEMMA NextFollows ==
    ASSUME NEW c \in Client, NEW seq \in Number(c), NEW n \in Nat, n <= MaxDelay,
           NEW tx, Follows(c, seq, n + 1, tx)
    PROVE  LET next == IF c \in v2 THEN (seq + 1) % Width ELSE seq + 1 IN
           next \in Number(c) /\ Follows(c, next, n, tx)
<1>1. Width \in Nat /\ Width > 0 /\ n + 1 < Width + 1 /\ n < Width
  BY Half, SourceAssumption
<1>2. CASE c \in v2
  <2>1. seq \in 0 .. Width - 1
    BY <1>2 DEF Number
  <2>2. (seq + 1) % Width = IF seq + 1 < Width THEN seq + 1 ELSE 0
    BY <1>1, <2>1, Wraps
  <2>3. (seq + (n + 1)) % Width = IF seq + (n + 1) < Width THEN seq + (n + 1) ELSE seq + (n + 1) - Width
    BY <1>1, <2>1, Wraps
  <2>4. (seq + 1 + n) % Width = IF seq + 1 + n < Width THEN seq + 1 + n ELSE seq + 1 + n - Width
    BY <1>1, <2>1, Wraps
  <2>5. (0 + n) % Width = n
    BY <1>1, Wraps
  <2> QED BY <1>1, <1>2, <2>1, <2>2, <2>3, <2>4, <2>5 DEF Number, Follows
<1>3. CASE c \notin v2
  BY <1>3 DEF Number, Follows
<1> QED BY <1>2, <1>3

LEMMA SenderIsClient ==
    ASSUME NEW d PROVE Sender(d) = NoClient \/ Sender(d) = d.client
BY DEF Sender

-----------------------------------------------------------------------------
LEMMA IInvInit == Init => IInv
<1> SUFFICES ASSUME Init PROVE IInv
  OBVIOUS
<1>1. Width \in Nat /\ Width > 1 /\ Ancient \in Nat /\ ~(Ancient <= MaxDelay)
  BY Half DEF Ancient
<1> QED BY <1>1 DEF Init, IInv, SourcesOK, NumbersOK, WireOK, ExpectedOK, Number

LEMMA IInvNext == IInv /\ [Next]_vars => IInv'
<1> SUFFICES ASSUME IInv, [Next]_vars PROVE IInv'
  OBVIOUS
<1>0. Ancient \in Nat /\ ~(Ancient <= MaxDelay) /\ Width \in Nat /\ Width > 1
  BY Half DEF Ancient
<1>11. SourcesOK'
  BY DEF IInv, SourcesOK, Next, vars, node, Connects, Moves, Registers, Sends, Refused, Deleted,
         Lost, Receive, Tick
<1>1. ASSUME UNCHANGED <<v2, next_tx, next_rx, newest>>, wire' \subseteq wire, SourcesOK' PROVE IInv'
  <2>1. NumbersOK'
    BY <1>1 DEF IInv, NumbersOK, Number
  <2>2. WireOK'
    BY <1>1 DEF IInv, WireOK, Number, Follows
  <2>3. ExpectedOK'
    BY <1>1 DEF IInv, ExpectedOK, Follows
  <2> QED BY <1>1, <2>1, <2>2, <2>3 DEF IInv
<1>2. ASSUME NEW c \in Client, NEW s \in Source, Connects(c, s) \/ Moves(c, s) PROVE IInv'
  BY <1>1, <1>11, <1>2 DEF Connects, Moves
<1>3. ASSUME NEW c \in Client, Refused(c) PROVE IInv'
  BY <1>1, <1>11, <1>3 DEF Refused, node
<1>4. CASE Tick
  BY <1>1, <1>11, <1>4 DEF Tick, node
<1>5. ASSUME NEW d \in wire, Lost(d) PROVE IInv'
  BY <1>1, <1>11, <1>5 DEF Lost, node
<1>6. CASE UNCHANGED vars
  BY <1>1, <1>11, <1>6 DEF vars, node
<1>7. ASSUME NEW c \in Client, Registers(c) PROVE IInv'
  <2> DEFINE r == [client |-> c, reg |-> TRUE, src |-> at[c], seq |-> 0, age |-> 0]
  <2>1. c \notin v2 /\ wire' = wire \cup {r} /\ UNCHANGED <<v2, next_tx, next_rx, newest>>
    BY <1>7 DEF Registers, node
  <2>2. r \in Datagram
    BY <1>7, Half DEF Registers, SourcesOK, IInv, Datagram
  <2>3. NumbersOK' /\ ExpectedOK'
    BY <2>1 DEF IInv, NumbersOK, ExpectedOK, Number, Follows
  <2>4. WireOK'
    <3>1. r.reg /\ r.client = c /\ r.seq = 0
      OBVIOUS
    <3> HIDE DEF r
    <3> QED BY <2>1, <2>2, <3>1 DEF IInv, WireOK, Number, Follows
  <2> QED BY <1>11, <2>3, <2>4 DEF IInv
<1>8. ASSUME NEW c \in Client, Sends(c) PROVE IInv'
  <2> DEFINE tx == IF c \in v2 THEN (next_tx[c] + 1) % Width ELSE next_tx[c] + 1
             f == [client |-> c, reg |-> FALSE, src |-> at[c], seq |-> next_tx[c], age |-> 0]
             under_way == {d \in Of(c) : d.reg \/ d.age < MaxDelay}
             Aged(d) == IF d.reg THEN d ELSE [d EXCEPT !.age = @ + 1]
  <2>1. /\ wire' = (wire \ Of(c)) \cup {Aged(d) : d \in under_way} \cup {f}
        /\ next_tx' = [next_tx EXCEPT ![c] = tx]
        /\ newest' = [newest EXCEPT ![c] = Older(@)]
        /\ UNCHANGED <<v2, next_rx>>
    BY <1>8 DEF Sends
  <2>2. next_tx[c] \in Number(c) /\ next_tx[c] \in Nat
    BY DEF IInv, NumbersOK
  <2>3. Follows(c, next_tx[c], 0, next_tx[c])
    <3>1. CASE c \in v2
      BY <1>0, <2>2, <3>1, Wraps DEF Follows, Number
    <3>2. CASE c \notin v2
      BY <2>2, <3>2 DEF Follows
    <3> QED BY <3>1, <3>2
  <2>4. tx \in Number(c) /\ Follows(c, next_tx[c], 1, tx)
    BY <2>2, <2>3, FollowsOn, Half
  <2>5. tx \in Nat
    BY <1>0, <2>4 DEF Number
  <2>6. NumbersOK'
    <3>1. Older(newest[c]) \in 0 .. Ancient
      BY <1>0 DEF Older, IInv, NumbersOK
    <3> HIDE DEF tx
    <3> QED BY <2>1, <2>4, <2>5, <3>1 DEF IInv, NumbersOK, Number
  <2>7. ASSUME NEW d \in under_way
        PROVE  /\ Aged(d) \in Datagram
               /\ Aged(d).client = c
               /\ Aged(d).reg => c \notin v2 /\ Aged(d).seq = 0
               /\ ~Aged(d).reg => Aged(d).seq \in Number(c) /\ Follows(c, Aged(d).seq, Aged(d).age + 1, tx)
    <3>1. d \in Datagram /\ d \in wire /\ d.client = c
      BY DEF Of, IInv, WireOK
    <3>2. CASE d.reg
      BY <3>1, <3>2 DEF IInv, WireOK
    <3>3. CASE ~d.reg
      <4>1. d.age \in Nat /\ d.age < MaxDelay
        BY <3>1, <3>3, Half DEF Datagram
      <4>2. d.seq \in Number(c) /\ Follows(c, d.seq, d.age + 1, next_tx[c])
        BY <3>1, <3>3 DEF IInv, WireOK
      <4>3. Follows(c, d.seq, d.age + 1 + 1, tx)
        BY <4>1, <4>2, FollowsOn, Half
      <4>4. /\ [d EXCEPT !.age = @ + 1] \in Datagram
            /\ [d EXCEPT !.age = @ + 1].client = c
            /\ [d EXCEPT !.age = @ + 1].seq = d.seq
            /\ [d EXCEPT !.age = @ + 1].age = d.age + 1
            /\ [d EXCEPT !.age = @ + 1].reg = d.reg
        BY <3>1, <4>1, Half DEF Datagram
      <4> HIDE DEF tx
      <4> QED BY <3>3, <4>2, <4>3, <4>4
    <3> QED BY <3>2, <3>3
  <2>8. f \in Datagram
    BY <1>8, <2>2, Half DEF Sends, SourcesOK, IInv, Datagram
  <2>9. WireOK'
    <3>1. ASSUME NEW d \in wire'
          PROVE  /\ d \in Datagram
                 /\ d.reg => d.client \notin v2 /\ d.seq = 0
                 /\ ~d.reg => /\ d.seq \in Number(d.client)
                              /\ Follows(d.client, d.seq, d.age + 1, next_tx'[d.client])
      <4>0. next_tx'[c] = tx
        BY <2>1 DEF IInv, NumbersOK
      <4>1. CASE d \in wire \ Of(c)
        <5>1. d.client # c /\ d.client \in Client
          BY <4>1 DEF Of, IInv, WireOK, Datagram
        <5>2. next_tx'[d.client] = next_tx[d.client]
          BY <2>1, <5>1 DEF IInv, NumbersOK
        <5> QED BY <4>1, <5>2 DEF IInv, WireOK
      <4>2. CASE d \in {Aged(e) : e \in under_way}
        <5> HIDE DEF tx, under_way, Aged
        <5> QED BY <2>7, <4>0, <4>2
      <4>3. CASE d = f
        <5> HIDE DEF tx
        <5> QED BY <2>2, <2>4, <2>8, <4>0, <4>3
      <4> HIDE DEF f, under_way
      <4> QED BY <2>1, <4>1, <4>2, <4>3
    <3> QED BY <2>1, <3>1 DEF WireOK, Number, Follows
  <2>10. ExpectedOK'
    <3>1. ASSUME NEW e \in Client, newest'[e] <= MaxDelay
          PROVE  Follows(e, next_rx[e], newest'[e], next_tx'[e])
      <4>1. CASE e # c
        BY <2>1, <3>1, <4>1 DEF IInv, NumbersOK, ExpectedOK
      <4>2. CASE e = c
        <5>1. newest[c] \in Nat /\ newest'[c] = Older(newest[c]) /\ next_tx'[c] = tx
          BY <2>1 DEF IInv, NumbersOK
        <5>2. newest[c] < MaxDelay /\ newest'[c] = newest[c] + 1
          BY <1>0, <3>1, <4>2, <5>1, Half DEF Older, Ancient
        <5>3. next_rx[c] \in Number(c) /\ Follows(c, next_rx[c], newest[c], next_tx[c])
          BY <5>1, <5>2, Half DEF IInv, NumbersOK, ExpectedOK
        <5>4. Follows(c, next_rx[c], newest[c] + 1, tx)
          BY <5>1, <5>2, <5>3, FollowsOn, Half
        <5> HIDE DEF tx
        <5> QED BY <4>2, <5>1, <5>2, <5>4
      <4> QED BY <4>1, <4>2
    <3> QED BY <2>1, <3>1 DEF ExpectedOK, Follows
  <2> QED BY <1>11, <2>6, <2>9, <2>10 DEF IInv
<1>9. ASSUME NEW c \in Client, Deleted(c) PROVE IInv'
  <2>1. /\ wire' = wire \ Of(c)
        /\ next_tx' = [next_tx EXCEPT ![c] = 0]
        /\ next_rx' = [next_rx EXCEPT ![c] = 0]
        /\ newest' = [newest EXCEPT ![c] = Ancient]
        /\ UNCHANGED v2
    BY <1>9 DEF Deleted
  <2>2. NumbersOK'
    BY <1>0, <2>1 DEF IInv, NumbersOK, Number
  <2>3. WireOK'
    BY <2>1 DEF IInv, WireOK, NumbersOK, Number, Follows, Of, Datagram
  <2>4. ExpectedOK'
    BY <1>0, <2>1 DEF IInv, NumbersOK, ExpectedOK, Follows
  <2> QED BY <1>11, <2>2, <2>3, <2>4 DEF IInv
<1>10. ASSUME NEW d \in wire, Receive(d) PROVE IInv'
  <2> DEFINE c == d.client
             after == IF c \in v2 THEN (d.seq + 1) % Width ELSE d.seq + 1
  <2>1. UNCHANGED <<v2, next_tx, wire>>
    BY <1>10 DEF Receive, node
  <2>2. CASE Sender(d) = NoClient
    BY <1>1, <1>10, <1>11, <2>1, <2>2 DEF Receive, Received
  <2>3. CASE Sender(d) # NoClient
    <3>1. Sender(d) = c
      BY <2>3, SenderIsClient
    <3>2. /\ next_rx' = [next_rx EXCEPT ![c] = IF Accepted(c, d) THEN after ELSE Expected(c, d)]
          /\ newest' = [newest EXCEPT ![c] =
                          IF d.reg THEN Ancient ELSE IF Accepted(c, d) THEN d.age ELSE @]
      BY <1>10, <2>3, <3>1, Zenon DEF Receive, Received
    <3>3. c \in Client /\ d.age \in Nat /\ d.age <= MaxDelay /\ d.seq \in Nat
      BY Half DEF IInv, WireOK, Datagram
    <3>4. /\ after \in Number(c) /\ after \in Nat
          /\ ~d.reg => Follows(c, after, d.age, next_tx[c])
      <4>1. CASE d.reg
        BY <4>1 DEF IInv, WireOK, Number
      <4>2. CASE ~d.reg
        <5>1. d.seq \in Number(c) /\ Follows(c, d.seq, d.age + 1, next_tx[c])
          BY <4>2 DEF IInv, WireOK
        <5>2. after \in Number(c) /\ Follows(c, after, d.age, next_tx[c])
          BY <3>3, <5>1, NextFollows
        <5> HIDE DEF after
        <5> QED BY <1>0, <5>2 DEF Number
      <4> QED BY <4>1, <4>2
    <3>5. Expected(c, d) \in Number(c) /\ Expected(c, d) \in Nat
      BY <1>0, <3>3 DEF Expected, IInv, NumbersOK, Number
    <3> HIDE DEF after, c
    <3>6. NumbersOK'
      BY <1>0, <2>1, <3>2, <3>3, <3>4, <3>5, Half DEF IInv, NumbersOK, Number, Ancient
    <3>7. WireOK'
      BY <2>1 DEF IInv, WireOK, Number, Follows
    <3>8. ExpectedOK'
      <4>1. ASSUME NEW e \in Client, newest'[e] <= MaxDelay
            PROVE  Follows(e, next_rx'[e], newest'[e], next_tx[e])
        <5>1. CASE e # c
          BY <3>2, <4>1, <5>1 DEF IInv, NumbersOK, ExpectedOK
        <5>2. CASE e = c
          <6>1. ~d.reg
            BY <1>0, <3>2, <3>3, <4>1, <5>2 DEF IInv, NumbersOK
          <6>2. CASE Accepted(c, d)
            BY <3>2, <3>3, <3>4, <5>2, <6>1, <6>2 DEF IInv, NumbersOK
          <6>3. CASE ~Accepted(c, d)
            <7>1. newest'[c] = newest[c] /\ next_rx'[c] = next_rx[c]
              BY <3>2, <3>3, <6>1, <6>3 DEF IInv, NumbersOK, Expected
            <7> QED BY <3>3, <4>1, <5>2, <7>1 DEF IInv, ExpectedOK
          <6> QED BY <6>2, <6>3
        <5> QED BY <5>1, <5>2
      <4> QED BY <2>1, <4>1 DEF ExpectedOK, Follows
    <3> QED BY <1>11, <3>6, <3>7, <3>8 DEF IInv
  <2> QED BY <2>2, <2>3
<1> QED BY <1>2, <1>3, <1>4, <1>5, <1>6, <1>7, <1>8, <1>9, <1>10 DEF Next

(* Late and repeated frames are dropped for every width of the numbers,    *)
(* whatever is lost, whoever moves and whichever protocol a node speaks.   *)
THEOREM FramesInOrder == Safe => []TakenInOrder
<1>1. IInv => TakenInOrder
  <2> SUFFICES ASSUME IInv, NEW d \in wire,
                      Sender(d) # NoClient, ~d.reg, Accepted(Sender(d), d)
               PROVE  d.age < newest[Sender(d)]
    BY DEF TakenInOrder
  <2>1. Sender(d) = d.client
    BY SenderIsClient
  <2> QED BY <2>1, InSequenceIsNewer DEF Accepted
<1> QED BY <1>1, IInvInit, IInvNext, PTL DEF Safe

-----------------------------------------------------------------------------
(* The table of the sources. *)
TableOK ==
    /\ con \in [Client -> {"none", "connected", "leaving", "gone"}]
    /\ remote_udp_port \in [Client -> Port \cup {None}]
    /\ client_src \in [Client -> Source \cup {None}]
    /\ client_src_map \in [Source -> Client \cup {NoClient}]

(* A client in session that has an entry has a port as well, so that a     *)
(* registration from elsewhere does not enter it a second time.            *)
EntryHasPort ==
    \A s \in Source : LET c == client_src_map[s] IN
        c # NoClient /\ con[c] = "connected" => remote_udp_port[c] # None

TableInv == TableOK /\ OneSource /\ EntryHasPort

LEMMA TableInit == Init => TableInv
BY DEF Init, TableInv, TableOK, OneSource, EntryHasPort

LEMMA ReceiveKeepsTable ==
    ASSUME IInv, TableInv, NEW d \in wire, Receive(d)
    PROVE  TableInv'
<1> DEFINE c == d.client
<1>1. d \in Datagram /\ UNCHANGED con
  BY DEF IInv, WireOK, Receive
<1>2. c \in Client /\ d.src \in Source /\ d.src.port \in Port /\ c # NoClient
  BY <1>1, SourceAssumption DEF Datagram, Source
<1>3. CASE UNCHANGED table
  BY <1>1, <1>3 DEF TableInv, TableOK, OneSource, EntryHasPort, table, Alive
<1>4. CASE ~UNCHANGED table
  <2>1. Sender(d) = c /\ Alive(c) /\ SourceSet(c, d)
    <3>1. Sender(d) # NoClient /\ SourceSet(Sender(d), d)
      BY <1>4 DEF Receive, Received
    <3> QED BY <3>1 DEF Sender
  <2>2. remote_udp_port' = [remote_udp_port EXCEPT ![c] = PortOf(c, d)]
    BY <2>1 DEF SourceSet
  <2>3. PortOf(c, d) \in Port /\ PortOf(c, d) # None
    BY <1>2, SourceAssumption DEF PortOf, TableInv, TableOK
  <2>4. CASE UNCHANGED <<client_src, client_src_map>>
    BY <1>1, <1>2, <2>2, <2>3, <2>4
       DEF TableInv, TableOK, OneSource, EntryHasPort, Alive
  <2>5. CASE /\ remote_udp_port[c] = None
             /\ client_src' = [client_src EXCEPT ![c] = d.src]
             /\ client_src_map' = [client_src_map EXCEPT ![d.src] = c]
    <3>1. TableOK'
      BY <1>1, <1>2, <2>2, <2>3, <2>5 DEF TableInv, TableOK
    <3>2. EntryHasPort'
      BY <1>1, <1>2, <2>2, <2>3, <2>5 DEF TableInv, TableOK, EntryHasPort
    <3> DEFINE Known(e, s) == \/ con[e] \in {"connected", "leaving"} /\ client_src'[e] = s
                              \/ con[e] \in {"leaving", "gone"} /\ client_src'[e] # s
    <3>3. ASSUME NEW s \in Source, client_src_map'[s] = c
          PROVE  Known(c, s)
      <4>1. client_src'[c] = d.src /\ con[c] \in {"connected", "leaving"}
        BY <1>1, <1>2, <2>1, <2>5 DEF Alive, TableInv, TableOK
      <4>2. s # d.src => con[c] = "leaving"
        BY <1>2, <2>1, <2>5, <3>3 DEF TableInv, TableOK, EntryHasPort, Alive
      <4> QED BY <4>1, <4>2
    <3>4. ASSUME NEW s \in Source, NEW e \in Client, e # c, client_src_map'[s] = e
          PROVE  Known(e, s)
      <4>1. client_src_map[s] = e
        BY <1>2, <2>5, <3>4 DEF TableInv, TableOK
      <4>2. client_src'[e] = client_src[e] /\ e # NoClient
        BY <1>2, <2>5, <3>4, SourceAssumption DEF TableInv, TableOK
      <4> QED BY <4>1, <4>2 DEF TableInv, OneSource, Alive
    <3>5. \A s \in Source : client_src_map'[s] # NoClient => Known(client_src_map'[s], s)
      BY <3>1, <3>3, <3>4 DEF TableOK
    <3>6. OneSource'
      BY <1>1, <3>5 DEF OneSource, Alive
    <3> QED BY <3>1, <3>2, <3>6 DEF TableInv
  <2> QED BY <2>1, <2>4, <2>5 DEF SourceSet
<1> QED BY <1>3, <1>4

LEMMA TableNext == IInv /\ TableInv /\ [Next]_vars => TableInv'
<1> SUFFICES ASSUME IInv, TableInv, [Next]_vars PROVE TableInv'
  OBVIOUS
<1> USE SourceAssumption DEF TableInv, TableOK, OneSource, EntryHasPort, Alive
<1>1. ASSUME NEW c \in Client, NEW s \in Source, Connects(c, s) PROVE TableInv'
  BY <1>1 DEF Connects, table
<1>2. ASSUME UNCHANGED <<con, table>> PROVE TableInv'
  BY <1>2 DEF table
<1>3. ASSUME NEW c \in Client, Refused(c) PROVE TableInv'
  BY <1>3 DEF Refused
<1>4. ASSUME NEW c \in Client, Deleted(c) PROVE TableInv'
  <2>1. /\ con' = [con EXCEPT ![c] = "gone"]
        /\ remote_udp_port' = [remote_udp_port EXCEPT ![c] = None]
        /\ client_src_map' = EntryErased(c)
        /\ UNCHANGED client_src
    BY <1>4 DEF Deleted
  <2>2. CASE client_src[c] = None
    <3>1. client_src_map' = client_src_map /\ \A s \in Source : client_src[c] # s
      BY <2>1, <2>2 DEF EntryErased, Source
    <3> QED BY <2>1, <3>1
  <2>3. CASE client_src[c] # None
    <3>1. client_src_map' = [client_src_map EXCEPT ![client_src[c]] = NoClient]
      BY <2>1, <2>3 DEF EntryErased
    <3> QED BY <2>1, <2>3, <3>1
  <2> QED BY <2>2, <2>3
<1>5. CASE Tick
  <2>1. /\ client_src' = client_src /\ client_src_map' = client_src_map
        /\ \A c \in Client : \/ con'[c] = con[c] /\ remote_udp_port'[c] = remote_udp_port[c]
                             \/ con[c] = "connected" /\ con'[c] = "leaving" /\ remote_udp_port'[c] = None
        /\ con' \in [Client -> {"none", "connected", "leaving", "gone"}]
        /\ remote_udp_port' \in [Client -> Port \cup {None}]
    BY <1>5 DEF Tick
  <2> QED BY <2>1
<1>6. ASSUME NEW d \in wire, Receive(d) PROVE TableInv'
  BY <1>6, ReceiveKeepsTable
<1>7. CASE UNCHANGED vars
  BY <1>2, <1>7 DEF vars
<1> QED BY <1>1, <1>2, <1>3, <1>4, <1>5, <1>6, <1>7
        DEF Next, Moves, Registers, Sends, Lost

(* The source of a client's replies is the one it is known by, and only    *)
(* who registered again while it was leaving has left an entry behind, for *)
(* any clients and sources in any order (setRemoteUdpSource, sendError,    *)
(* ~ReflectorClient).                                                      *)
THEOREM SourcesAreKnown == Safe => []OneSource
<1>1. TableInv => OneSource
  BY DEF TableInv
<1> QED BY <1>1, IInvInit, IInvNext, TableInit, TableNext, PTL DEF Safe
=============================================================================

-------------------------- MODULE TGHandlerProofs --------------------------
(***************************************************************************)
(* Theorems about TGHandler for every set of clients and groups and every  *)
(* value of the timeouts.                                                  *)
(***************************************************************************)
EXTENDS TGHandler, TLAPS

Talkers == Client \cup {NoTalker}

(***************************************************************************)
(* The inductive invariant: types, and the agreement of the three places   *)
(* that hold one membership.  The clauses need each other: that a talker   *)
(* removed with its client leaves no talker behind needs that the client   *)
(* is in no other group.                                                   *)
(***************************************************************************)
IInv == TypeOK /\ IndicesAgree /\ NoDanglingClient /\ TalkerIsMember

-----------------------------------------------------------------------------
(* The operators on one TGInfo. *)

LEMMA NewTGInfoType == NewTGInfo \in TGInfo
  BY TimeAssumption DEF NewTGInfo, TGInfo, StaleAge, QsyUnset

LEMMA SetTalkerType ==
  ASSUME NEW g \in TG, NEW i \in TGInfo, NEW t \in Talkers
  PROVE  /\ SetTalker(g, i, t) \in TGInfo
         /\ SetTalker(g, i, t).clients = i.clients
         /\ SetTalker(g, i, t).talker = t
<1>1. QsyTimeAfter(g, i, t) \in Int
  BY TimeAssumption DEF QsyTimeAfter, TGInfo
<1>2. 0 \in 0 .. StaleAge /\ 0 \in 0 .. SqlTimeout /\ SqlTimeout \in 0 .. SqlTimeout
  BY TimeAssumption DEF StaleAge
<1>3. QED
  BY <1>1, <1>2 DEF SetTalker, TGInfo, Talkers

LEMMA RemoveClientType ==
  ASSUME NEW i \in TGInfo, NEW c \in Client,
         i.talker # NoTalker => i.talker \in i.clients
  PROVE  /\ RemoveClientP(i, c) \in TGInfo
         /\ RemoveClientP(i, c).clients = i.clients \ {c}
         /\ RemoveClientP(i, c).talker = IF i.talker = c THEN NoTalker ELSE i.talker
<1>1. CASE i.clients \ {c} = {}
  BY <1>1, NewTGInfoType DEF RemoveClientP, NewTGInfo, TGInfo
<1>2. CASE i.clients \ {c} # {}
  BY <1>2 DEF RemoveClientP, TGInfo
<1>3. QED
  BY <1>1, <1>2

LEMMA OneSecondLaterType ==
  ASSUME NEW i \in TGInfo
  PROVE  /\ OneSecondLater(i) \in TGInfo
         /\ OneSecondLater(i).clients = i.clients
         /\ OneSecondLater(i).talker = i.talker
         /\ OneSecondLater(i).sql = i.sql
<1>1. (IF i.age < StaleAge THEN i.age + 1 ELSE i.age) \in 0 .. StaleAge
  BY TimeAssumption DEF StaleAge, TGInfo
<1>2. (IF i.qsy >= 0 THEN i.qsy - 1 ELSE i.qsy) \in Int
  BY DEF TGInfo
<1>3. QED
  BY <1>1, <1>2 DEF OneSecondLater, TGInfo

LEMMA AudioCheckedType ==
  ASSUME NEW g \in TG, NEW late \in SUBSET TG, info[g] \in TGInfo
  PROVE  /\ AudioChecked(g, late) \in TGInfo
         /\ AudioChecked(g, late).clients = info[g].clients
         /\ AudioChecked(g, late).talker \in {NoTalker, info[g].talker}
<1>1. NoTalker \in Talkers
  BY DEF Talkers
<1>2. QED
  BY <1>1, OneSecondLaterType, SetTalkerType DEF AudioChecked

LEMMA BlockServedType ==
  ASSUME NEW b \in [time : Nat, remaining : Nat]
  PROVE  BlockServed(b) \in [time : Nat, remaining : Nat]
<1>1. b.remaining # 0 => b.remaining - 1 \in Nat
  OBVIOUS
<1>2. QED
  BY <1>1 DEF BlockServed, Unblocked

(* A tick keeps the clients of a group and at most ends its turn. *)
LEMMA TimersCheckedType ==
  ASSUME NEW g \in TG, NEW late \in SUBSET TG, info[g] \in TGInfo
  PROVE  /\ TimersChecked(g, late) \in TGInfo
         /\ TimersChecked(g, late).clients = info[g].clients
         /\ TimersChecked(g, late).talker \in {NoTalker, info[g].talker}
<1> DEFINE i == AudioChecked(g, late)
<1>1. /\ i \in TGInfo
      /\ i.clients = info[g].clients
      /\ i.talker \in {NoTalker, info[g].talker}
  BY AudioCheckedType
<1> HIDE DEF i
<1>2. NoTalker \in Talkers
  BY DEF Talkers
<1>3. CASE TalkerForTG(g) = NoTalker \/ i.sql = 0
  BY <1>1, <1>3 DEF TimersChecked, i
<1>4. CASE ~(TalkerForTG(g) = NoTalker \/ i.sql = 0) /\ SqlTimesOut(i)
  <2> DEFINE j == [i EXCEPT !.sql = 0]
  <2>1. j \in TGInfo /\ j.clients = i.clients
    BY <1>1, TimeAssumption DEF TGInfo
  <2>2. TimersChecked(g, late) = SetTalker(g, j, NoTalker)
    BY <1>4 DEF TimersChecked, i
  <2> HIDE DEF j
  <2>3. QED
    BY <1>1, <1>2, <2>1, <2>2, SetTalkerType
<1>5. CASE ~(TalkerForTG(g) = NoTalker \/ i.sql = 0) /\ ~SqlTimesOut(i)
  <2> DEFINE j == [i EXCEPT !.sql = @ - 1]
  <2>1. j \in TGInfo /\ j.clients = i.clients /\ j.talker = i.talker
    BY <1>1, <1>5, TimeAssumption DEF TGInfo
  <2>2. TimersChecked(g, late) = j
    BY <1>5 DEF TimersChecked, i
  <2>3. QED
    BY <1>1, <2>1, <2>2
<1>6. QED
  BY <1>3, <1>4, <1>5

-----------------------------------------------------------------------------
(* The updates that several actions share. *)

LEMMA AnnouncedType ==
  ASSUME TypeOK, NEW i \in [TG -> TGInfo], OnTalkerUpdated(i)
  PROVE  announced' \in [TG -> Talkers]
  BY DEF OnTalkerUpdated, TypeOK, TGInfo, Talkers

LEMMA GapType ==
  ASSUME TypeOK, NEW i \in [TG -> TGInfo], NEW heard, GapAfter(i, heard)
  PROVE  gap' \in [TG -> 0 .. StaleAge + 1]
  BY TimeAssumption DEF GapAfter, TypeOK, StaleAge

LEMMA QsyType ==
  ASSUME TypeOK,
         NoQsyRequest \/ \E g \in TG, t \in Talkers : RequestAutoQsy(g, t)
  PROVE  qsyReq' \in SUBSET TG /\ sinceQsy' \in [TG -> Nat]
  BY DEF NoQsyRequest, RequestAutoQsy, TypeOK

(* What a call of setTg establishes, from Connect and from SelectTG. *)
LEMMA SetTgKeeps ==
  ASSUME IInv, NEW c \in Client, NEW g \in TG \cup {NoTG}, SetTg(c, g)
  PROVE  /\ info' \in [TG -> TGInfo]
         /\ clientMap' \in [Client -> TG \cup {NoTG}]
         /\ gap' \in [TG -> 0 .. StaleAge + 1]
         /\ IndicesAgree'
         /\ TalkerIsMember'
         /\ clientMap' = [clientMap EXCEPT ![c] = SwitchedTo(c, g)]
         /\ \A h \in TG : info'[h].talker =
                IF h = clientMap[c] /\ clientMap[c] # SwitchedTo(c, g) /\ info[h].talker = c
                THEN NoTalker ELSE info[h].talker
<1> DEFINE old == clientMap[c]
           new == SwitchedTo(c, g)
           left == [h \in TG |-> IF h = old /\ old # new
                                 THEN RemoveClientP(info[h], c) ELSE info[h]]
<1> USE DEF IInv, TypeOK
<1>1. old \in TG \cup {NoTG} /\ new \in TG \cup {NoTG}
  BY DEF SwitchedTo
<1>2. \A h \in TG : /\ left[h] \in TGInfo
                    /\ left[h].clients = IF h = old /\ old # new
                                         THEN info[h].clients \ {c} ELSE info[h].clients
                    /\ left[h].talker = IF h = old /\ old # new /\ info[h].talker = c
                                        THEN NoTalker ELSE info[h].talker
  <2> TAKE h \in TG
  <2>1. info[h] \in TGInfo /\ (info[h].talker # NoTalker => info[h].talker \in info[h].clients)
    BY DEF TalkerIsMember, TalkerForTG
  <2>2. CASE h = old /\ old # new
    BY <2>1, <2>2, RemoveClientType
  <2>3. CASE ~(h = old /\ old # new)
    BY <2>1, <2>3
  <2>4. QED
    BY <2>2, <2>3
<1> HIDE DEF left
<1>3. info' = [h \in TG |-> IF h = new THEN [left[h] EXCEPT !.clients = @ \cup {c}]
                            ELSE left[h]]
  BY DEF SetTg, left
<1>4. \A h \in TG : /\ info'[h] \in TGInfo
                    /\ info'[h].clients = IF h = new THEN left[h].clients \cup {c}
                                          ELSE left[h].clients
                    /\ info'[h].talker = left[h].talker
  <2> TAKE h \in TG
  <2>1. left[h] \in TGInfo
    BY <1>2
  <2>2. CASE h = new
    <3> DEFINE i == left[h]
               j == [i EXCEPT !.clients = @ \cup {c}]
    <3>1. info'[h] = j
      BY <1>3, <2>2
    <3>2. i \in TGInfo => j \in TGInfo /\ j.clients = i.clients \cup {c} /\ j.talker = i.talker
      <4> HIDE DEF i
      <4> QED BY DEF TGInfo
    <3> HIDE DEF j
    <3> QED BY <2>1, <2>2, <3>1, <3>2
  <2>3. CASE h # new
    BY <1>3, <2>1, <2>3
  <2> QED BY <2>2, <2>3
<1>5. clientMap' = [clientMap EXCEPT ![c] = new] /\ currentTg' = [currentTg EXCEPT ![c] = new]
  BY DEF SetTg, CurrentTgAfter
<1> HIDE DEF new
<1>6. IndicesAgree'
  <2>1. currentTg' = clientMap'
    BY <1>5 DEF IndicesAgree
  <2>2. ASSUME NEW d \in Client, NEW h \in TG
        PROVE  d \in info'[h].clients <=> clientMap'[d] = h
    <3>1. d \in info[h].clients <=> clientMap[d] = h
      BY DEF IndicesAgree
    <3>2. CASE d = c
      <4>1. clientMap'[d] = new
        BY <1>5, <3>2
      <4>2. c \in info'[h].clients <=> h = new \/ c \in left[h].clients
        BY <1>4
      <4>3. c \in left[h].clients <=> h = old /\ old = new
        BY <1>2, <3>1, <3>2
      <4>4. QED
        BY <3>2, <4>1, <4>2, <4>3
    <3>3. CASE d # c
      <4>1. clientMap'[d] = clientMap[d]
        BY <1>5, <3>3
      <4>2. info'[h].clients \in {left[h].clients, left[h].clients \cup {c}}
        BY <1>4
      <4>3. left[h].clients \in {info[h].clients, info[h].clients \ {c}}
        BY <1>2
      <4>4. d \in info'[h].clients <=> d \in info[h].clients
        BY <3>3, <4>2, <4>3
      <4>5. QED
        BY <3>1, <4>1, <4>4
    <3>4. QED
      BY <3>2, <3>3
  <2>3. QED
    BY <2>1, <2>2 DEF IndicesAgree
<1>7. TalkerIsMember'
  <2> SUFFICES ASSUME NEW h \in TG, info'[h].talker # NoTalker
               PROVE  info'[h].talker \in info'[h].clients
    BY DEF TalkerIsMember, TalkerForTG
  <2>1. info[h].talker # NoTalker /\ info[h].talker \in info[h].clients
    BY <1>2, <1>4 DEF TalkerIsMember, TalkerForTG
  <2>2. info'[h].talker = info[h].talker /\ left[h].clients \subseteq info'[h].clients
    BY <1>2, <1>4
  <2>3. h = old /\ old # new => info[h].talker # c
    BY <1>2, <1>4
  <2>4. QED
    BY <2>1, <2>2, <2>3, <1>2
<1>8. info' \in [TG -> TGInfo]
  BY <1>3, <1>4
<1>9. gap' \in [TG -> 0 .. StaleAge + 1]
  BY <1>8, GapType DEF SetTg
<1>10. \A h \in TG : info'[h].talker = IF h = old /\ old # new /\ info[h].talker = c
                                        THEN NoTalker ELSE info[h].talker
  BY <1>2, <1>4
<1>11. QED
  BY <1>1, <1>5, <1>6, <1>7, <1>8, <1>9, <1>10 DEF new

(* What a call of setTalkerForTG establishes, from Audio and from Flush. *)
LEMMA SetTalkerForTGKeeps ==
  ASSUME IInv, NEW g \in TG, NEW t \in Talkers, SetTalkerForTG(g, t),
         t # NoTalker => clientMap[t] = g
  PROVE  /\ info' \in [TG -> TGInfo]
         /\ announced' \in [TG -> Talkers]
         /\ qsyReq' \in SUBSET TG /\ sinceQsy' \in [TG -> Nat]
         /\ \A h \in TG : info'[h].clients = info[h].clients
         /\ \A h \in TG : info'[h].talker = IF h = g THEN t ELSE info[h].talker
         /\ TalkerIsMember'
<1> USE DEF IInv, TypeOK
<1>1. info' = [info EXCEPT ![g] = SetTalker(g, info[g], t)]
  BY DEF SetTalkerForTG
<1>2. info' \in [TG -> TGInfo] /\ \A h \in TG : /\ info'[h].clients = info[h].clients
                                                /\ info'[h].talker = IF h = g THEN t ELSE info[h].talker
  BY <1>1, SetTalkerType
<1>3. announced' \in [TG -> Talkers]
  BY <1>2, AnnouncedType DEF SetTalkerForTG
<1>4. qsyReq' \in SUBSET TG /\ sinceQsy' \in [TG -> Nat]
  BY QsyType DEF SetTalkerForTG
<1>5. TalkerIsMember'
  BY <1>2 DEF TalkerIsMember, TalkerForTG, IndicesAgree, Talkers
<1>6. QED
  BY <1>2, <1>3, <1>4, <1>5

-----------------------------------------------------------------------------
LEMMA IInvInit == Init => IInv
<1> SUFFICES ASSUME Init PROVE IInv
  OBVIOUS
<1>1. TypeOK
  BY NewTGInfoType, TimeAssumption DEF Init, TypeOK, Unblocked, StaleAge, NewTGInfo
<1>2. IndicesAgree /\ NoDanglingClient /\ TalkerIsMember
  BY TGAssumption DEF Init, IndicesAgree, NoDanglingClient, TalkerIsMember, TalkerForTG, NewTGInfo
<1>3. QED
  BY <1>1, <1>2 DEF IInv

LEMMA ConnectKeeps == ASSUME IInv, NEW c \in Client, Connect(c) PROVE IInv'
<1>1. PICK g \in TG \cup {NoTG} : SetTg(c, g)
  BY V1Assumption DEF Connect
<1>2. TypeOK'
  BY <1>1, SetTgKeeps, QsyType DEF Connect, IInv, TypeOK, Unblocked, IndicesAgree
<1>3. NoDanglingClient'
  BY <1>1, SetTgKeeps DEF Connect, IInv, NoDanglingClient, TypeOK
<1>4. QED
  BY <1>1, <1>2, <1>3, SetTgKeeps DEF IInv

LEMMA SelectTGKeeps ==
  ASSUME IInv, NEW c \in Client, NEW g \in TG \cup {NoTG}, SelectTG(c, g)
  PROVE  IInv'
<1>1. SetTg(c, g)
  BY DEF SelectTG
<1>2. TypeOK'
  BY <1>1, SetTgKeeps, QsyType DEF SelectTG, IInv, TypeOK, IndicesAgree
<1>3. NoDanglingClient'
  BY <1>1, SetTgKeeps DEF SelectTG, IInv, NoDanglingClient, TypeOK
<1>4. QED
  BY <1>1, <1>2, <1>3, SetTgKeeps DEF IInv

LEMMA AudioKeeps == ASSUME IInv, NEW c \in Client, Audio(c) PROVE IInv'
<1> DEFINE g == clientMap[c]
<1> USE DEF IInv, TypeOK
<1>1. /\ block' \in [Client -> [time : Nat, remaining : Nat]]
      /\ silent' \in [Client -> Nat]
      /\ UNCHANGED <<online, currentTg, clientMap>>
  BY DEF Audio, BlockRearmed
<1>2. CASE NotBlocked(c) /\ g # NoTG /\ MayTalk(c, g)
  <2>1. g \in TG /\ c \in Talkers
    BY <1>2 DEF Talkers
  <2>2. SetTalkerForTG(g, c) /\ GapAfter(info', {c})
    BY <1>2 DEF Audio
  <2>3. QED
    BY <1>1, <2>1, <2>2, SetTalkerForTGKeeps, GapType, ClientAssumption
       DEF Talkers, IndicesAgree, NoDanglingClient
<1>3. CASE ~(NotBlocked(c) /\ g # NoTG /\ MayTalk(c, g))
  <2>1. NoQsyRequest /\ UNCHANGED <<info, announced, gap>>
    BY <1>3 DEF Audio
  <2>2. QED
    BY <1>1, <2>1, QsyType DEF IndicesAgree, NoDanglingClient, TalkerIsMember, TalkerForTG
<1>4. QED
  BY <1>2, <1>3

LEMMA FlushKeeps == ASSUME IInv, NEW c \in Client, Flush(c) PROVE IInv'
<1> DEFINE g == clientMap[c]
<1>1. g \in TG /\ SetTalkerForTG(g, NoTalker) /\ NoTalker \in Talkers /\ GapAfter(info', {})
  BY DEF Flush, Talkers, IInv, TypeOK
<1>2. QED
  BY <1>1, SetTalkerForTGKeeps, GapType
     DEF Flush, IInv, TypeOK, Talkers, IndicesAgree, NoDanglingClient

LEMMA DisconnectKeeps == ASSUME IInv, NEW c \in Client, Disconnect(c) PROVE IInv'
<1> DEFINE g == clientMap[c]
           stopped(h) == IF info[h].talker = c THEN SetTalker(h, info[h], NoTalker) ELSE info[h]
           left == [h \in TG |-> IF h = g THEN RemoveClientP(stopped(h), c) ELSE info[h]]
<1> USE DEF IInv, TypeOK
<1>1. ASSUME NEW h \in TG
      PROVE  /\ left[h] \in TGInfo
             /\ left[h].clients = info[h].clients \ {c}
             /\ left[h].talker = IF info[h].talker = c THEN NoTalker ELSE info[h].talker
  <2>1. NoTalker \in Talkers /\ info[h] \in TGInfo
    BY DEF Talkers
  <2>2. /\ stopped(h) \in TGInfo
        /\ stopped(h).clients = info[h].clients
        /\ stopped(h).talker = IF info[h].talker = c THEN NoTalker ELSE info[h].talker
    BY <2>1, SetTalkerType
  <2>3. stopped(h).talker # NoTalker => stopped(h).talker \in stopped(h).clients
    BY <2>2 DEF TalkerIsMember, TalkerForTG
  <2> HIDE DEF stopped
  <2>4. CASE h = g
    BY <2>2, <2>3, <2>4, RemoveClientType, ClientAssumption
  <2>5. CASE h # g
    BY <2>1, <2>5 DEF IndicesAgree, TalkerIsMember, TalkerForTG
  <2>6. QED
    BY <2>4, <2>5
<1>2. info' = left
  BY DEF Disconnect
<1> HIDE DEF left
<1>3. info' \in [TG -> TGInfo]
  <2>1. left = [h \in TG |-> left[h]]
    BY DEF left
  <2>2. QED
    BY <1>1, <1>2, <2>1
<1>4. /\ online' = online \ {c}
      /\ currentTg' = [currentTg EXCEPT ![c] = NoTG]
      /\ clientMap' = [clientMap EXCEPT ![c] = NoTG]
      /\ block' \in [Client -> [time : Nat, remaining : Nat]]
      /\ silent' \in [Client -> Nat]
  BY DEF Disconnect, ClientMapWithout, Unblocked
<1>5. announced' \in [TG -> Talkers]
  BY <1>2, <1>3, AnnouncedType DEF Disconnect, left
<1>6. gap' \in [TG -> 0 .. StaleAge + 1]
  BY <1>2, <1>3, GapType DEF Disconnect, left
<1>7. qsyReq' \in SUBSET TG /\ sinceQsy' \in [TG -> Nat]
  <2>1. NoQsyRequest \/ (g \in TG /\ RequestAutoQsy(g, NoTalker))
    BY DEF Disconnect
  <2>2. QED
    BY <2>1, QsyType DEF Talkers
<1>8. TypeOK'
  BY <1>3, <1>4, <1>5, <1>6, <1>7 DEF Talkers
<1>9. IndicesAgree'
  BY <1>1, <1>2, <1>4, TGAssumption DEF IndicesAgree
<1>10. NoDanglingClient'
  BY <1>4 DEF NoDanglingClient
<1>11. TalkerIsMember'
  BY <1>1, <1>2 DEF TalkerIsMember, TalkerForTG
<1>12. QED
  BY <1>8, <1>9, <1>10, <1>11

LEMMA BlockTimersKeep ==
  ASSUME IInv, NEW c \in Client, (\E t \in PtyBlocktime : PtyBlock(c, t)) \/ Heartbeat(c)
  PROVE  IInv'
<1> USE DEF IInv, TypeOK
<1>1. UNCHANGED <<online, currentTg, clientMap, info, announced, gap>> /\ NoQsyRequest
  BY DEF PtyBlock, Heartbeat
<1>2. CASE \E t \in PtyBlocktime : PtyBlock(c, t)
  <2>1. /\ block' \in [Client -> [time : Nat, remaining : Nat]]
        /\ silent' \in [Client -> Nat]
    BY <1>2, TimeAssumption DEF PtyBlock
  <2>2. QED
    BY <1>1, <2>1, QsyType DEF IndicesAgree, NoDanglingClient, TalkerIsMember, TalkerForTG
<1>3. CASE Heartbeat(c)
  <2>1. BlockServed(block[c]) \in [time : Nat, remaining : Nat]
    BY BlockServedType
  <2>2. /\ block' \in [Client -> [time : Nat, remaining : Nat]]
        /\ silent' \in [Client -> Nat]
    BY <1>3, <2>1 DEF Heartbeat
  <2>3. QED
    BY <1>1, <2>2, QsyType DEF IndicesAgree, NoDanglingClient, TalkerIsMember, TalkerForTG
<1>4. QED
  BY <1>2, <1>3

LEMMA CheckTimersKeeps == ASSUME IInv, CheckTimers PROVE IInv'
<1> USE DEF IInv, TypeOK
<1>1. PICK late \in SUBSET TG : CheckTimersWith(late)
  BY DEF CheckTimers
<1>2. \A g \in TG : /\ info'[g] \in TGInfo
                    /\ info'[g].clients = info[g].clients
                    /\ info'[g].talker \in {NoTalker, info[g].talker}
  BY <1>1, TimersCheckedType DEF CheckTimersWith
<1>3. info' \in [TG -> TGInfo]
  BY <1>1, <1>2 DEF CheckTimersWith
<1>4. /\ block' \in [Client -> [time : Nat, remaining : Nat]]
      /\ silent' \in [Client -> Nat]
      /\ UNCHANGED <<online, currentTg, clientMap>>
  BY <1>1, TimeAssumption DEF CheckTimersWith
<1>5. gap' \in [TG -> 0 .. StaleAge + 1]
  BY <1>1, TimeAssumption DEF CheckTimersWith, StaleAge
<1>6. announced' \in [TG -> Talkers]
  BY <1>1, <1>3, AnnouncedType DEF CheckTimersWith
<1>7. qsyReq' \in SUBSET TG /\ sinceQsy' \in [TG -> Nat]
  BY <1>1 DEF CheckTimersWith, TickQsy
<1>8. IndicesAgree' /\ NoDanglingClient' /\ TalkerIsMember'
  BY <1>2, <1>4 DEF IndicesAgree, NoDanglingClient, TalkerIsMember, TalkerForTG
<1>9. QED
  BY <1>3, <1>4, <1>5, <1>6, <1>7, <1>8 DEF Talkers

(* A lost connection ends the turns of its client and no other. *)
LEMMA DisconnectTalkers ==
  ASSUME IInv, NEW c \in Client, Disconnect(c)
  PROVE  /\ clientMap' = [clientMap EXCEPT ![c] = NoTG]
         /\ \A h \in TG : info'[h].talker =
                IF info[h].talker = c THEN NoTalker ELSE info[h].talker
<1> USE DEF IInv, TypeOK
<1>1. clientMap' = [clientMap EXCEPT ![c] = NoTG]
  BY DEF Disconnect, ClientMapWithout
<1>2. ASSUME NEW h \in TG
      PROVE  info'[h].talker = IF info[h].talker = c THEN NoTalker ELSE info[h].talker
  <2> DEFINE i == IF info[h].talker = c THEN SetTalker(h, info[h], NoTalker) ELSE info[h]
  <2>1. info'[h] = IF h = clientMap[c] THEN RemoveClientP(i, c) ELSE info[h]
    BY DEF Disconnect
  <2>2. /\ i \in TGInfo
        /\ i.clients = info[h].clients
        /\ i.talker = IF info[h].talker = c THEN NoTalker ELSE info[h].talker
    BY SetTalkerType DEF Talkers
  <2>3. info[h].talker # NoTalker => info[h].talker \in info[h].clients
    BY DEF TalkerIsMember, TalkerForTG
  <2> HIDE DEF i
  <2>4. CASE h = clientMap[c]
    BY <2>1, <2>2, <2>3, <2>4, RemoveClientType, ClientAssumption
  <2>5. CASE h # clientMap[c]
    BY <2>1, <2>3, <2>5 DEF IndicesAgree
  <2>6. QED
    BY <2>4, <2>5
<1>3. QED
  BY <1>1, <1>2

LEMMA IInvNext == IInv /\ [Next]_vars => IInv'
<1> SUFFICES ASSUME IInv, [Next]_vars PROVE IInv'
  OBVIOUS
<1>1. CASE \E c \in Client : Connect(c) \/ Audio(c) \/ Flush(c) \/ Disconnect(c)
  BY <1>1, ConnectKeeps, AudioKeeps, FlushKeeps, DisconnectKeeps
<1>2. CASE \E c \in Client, g \in TG \cup {NoTG} : SelectTG(c, g)
  BY <1>2, SelectTGKeeps
<1>3. CASE \E c \in Client : (\E t \in PtyBlocktime : PtyBlock(c, t)) \/ Heartbeat(c)
  BY <1>3, BlockTimersKeep
<1>4. CASE CheckTimers
  BY <1>4, CheckTimersKeeps
<1>5. CASE UNCHANGED vars
  BY <1>5 DEF vars, IInv, TypeOK, IndicesAgree, NoDanglingClient, TalkerIsMember, TalkerForTG
<1>6. QED
  BY <1>1, <1>2, <1>3, <1>4, <1>5 DEF Next

(***************************************************************************)
(* The types, and the agreement of the three indices of one membership,    *)
(* whatever the clients do and however the timers fall (TGHandler.cpp).    *)
(***************************************************************************)
THEOREM Membership == Safe => []MembershipAgrees
<1>1. Safe => []IInv
  BY IInvInit, IInvNext, PTL DEF Safe
<1>2. IInv => MembershipAgrees
  BY DEF IInv, MembershipAgrees
<1>3. QED
  BY <1>1, <1>2, PTL

-----------------------------------------------------------------------------
(* Safety beyond the invariant. *)

(***************************************************************************)
(* checkTimers never dereferences a null talker, because setTalkerForTG    *)
(* zeroes the squelch count of a group whose talker it clears.             *)
(***************************************************************************)
THEOREM NoNullTalker == Safe => []NoNullTalkerBlocked
<1>1. IInv => NoNullTalkerBlocked
  <2> SUFFICES ASSUME IInv, NEW late \in SUBSET {g \in TG : MayTimeOut(g)},
                      NEW g \in TG, TalkerForTG(g) # NoTalker,
                      AudioChecked(g, late).talker = NoTalker
               PROVE  ~SqlTimesOut(AudioChecked(g, late))
    BY DEF NoNullTalkerBlocked, SqlBlocked
  <2> DEFINE i == OneSecondLater(info[g])
  <2>1. i \in TGInfo /\ i.talker # NoTalker
    BY OneSecondLaterType DEF IInv, TypeOK, TalkerForTG
  <2>2. g \in late
    BY <2>1 DEF AudioChecked
  <2>3. AudioChecked(g, late).sql = 0
    BY <2>1, <2>2 DEF AudioChecked, SetTalker, TGInfo
  <2>4. QED
    BY <2>3 DEF SqlTimesOut
<1>2. Safe => []IInv
  BY IInvInit, IInvNext, PTL DEF Safe
<1>3. QED
  BY <1>1, <1>2, PTL

(* A turn can only begin, or a talker change, by an audio frame of the new talker. *)
LEMMA OnlyAudioStartsTurn ==
  ASSUME IInv, [Next]_vars, NEW g \in TG, NEW c \in Client,
         info[g].talker # c, info'[g].talker = c
  PROVE  Audio(c) /\ NotBlocked(c)
<1> USE DEF IInv, TypeOK
<1>1. CASE \E d \in Client : Connect(d)
  <2>1. PICK d \in Client, h \in TG \cup {NoTG} : SetTg(d, h)
    BY <1>1, V1Assumption DEF Connect
  <2>2. QED
    BY <2>1, SetTgKeeps, ClientAssumption
<1>2. CASE \E d \in Client, h \in TG \cup {NoTG} : SelectTG(d, h)
  BY <1>2, SetTgKeeps, ClientAssumption DEF SelectTG
<1>3. CASE \E d \in Client : Audio(d)
  <2>1. PICK d \in Client : Audio(d)
    BY <1>3
  <2> DEFINE h == clientMap[d]
  <2>2. NotBlocked(d) /\ h \in TG /\ SetTalkerForTG(h, d)
    BY <2>1 DEF Audio
  <2>3. info'[g].talker = IF g = h THEN d ELSE info[g].talker
    BY <2>2, SetTalkerForTGKeeps DEF Talkers
  <2>4. QED
    BY <2>1, <2>2, <2>3
<1>4. CASE \E d \in Client : Flush(d)
  <2>1. PICK h \in TG : SetTalkerForTG(h, NoTalker)
    BY <1>4 DEF Flush
  <2>2. QED
    BY <2>1, SetTalkerForTGKeeps, ClientAssumption DEF Talkers
<1>5. CASE \E d \in Client : Disconnect(d)
  BY <1>5, DisconnectTalkers, ClientAssumption
<1>6. CASE CheckTimers
  <2>1. PICK late \in SUBSET TG : CheckTimersWith(late)
    BY <1>6 DEF CheckTimers
  <2>2. QED
    BY <2>1, TimersCheckedType, ClientAssumption DEF CheckTimersWith
<1>7. CASE \E d \in Client : (\E t \in PtyBlocktime : PtyBlock(d, t)) \/ Heartbeat(d)
  BY <1>7 DEF PtyBlock, Heartbeat
<1>8. CASE UNCHANGED vars
  BY <1>8 DEF vars
<1>9. QED
  BY <1>1, <1>2, <1>3, <1>4, <1>5, <1>6, <1>7, <1>8 DEF Next

(***************************************************************************)
(* A client never takes a turn while a block of it is in force: the frame  *)
(* that would take it has first re-armed the block (udpMsgReceived).       *)
(***************************************************************************)
THEOREM BlockedIsSilent == Safe => BlockedNeverTakesTurn
<1>1. ASSUME IInv, [Next]_vars
      PROVE  [\A g \in TG, c \in Client :
                 TalkerForTG(g) # c /\ TalkerForTG(g)' = c => block[c].time = 0]_vars
  <2> SUFFICES ASSUME NEW g \in TG, NEW c \in Client, info[g].talker # c, info'[g].talker = c
               PROVE  block[c].time = 0
    BY DEF TalkerForTG
  <2>1. Audio(c) /\ NotBlocked(c)
    BY <1>1, OnlyAudioStartsTurn
  <2>2. block' = [block EXCEPT ![c] = BlockRearmed(c)] /\ ~(block'[c].remaining > 0)
    BY <2>1 DEF Audio, NotBlocked, IsBlocked
  <2>3. block[c] \in [time : Nat, remaining : Nat] /\ block'[c] = BlockRearmed(c)
    BY <1>1, <2>2 DEF IInv, TypeOK
  <2>4. QED
    BY <2>2, <2>3 DEF BlockRearmed
<1>2. Safe => []IInv
  BY IInvInit, IInvNext, PTL DEF Safe
<1>3. QED
  BY <1>1, <1>2, PTL DEF Safe, BlockedNeverTakesTurn

-----------------------------------------------------------------------------
(* Refinement of TalkGroups. *)

talkerOf == [g \in TG |-> info[g].talker]

LEMMA SetTgRefines ==
  ASSUME IInv, NEW c \in Client, NEW g \in TG \cup {NoTG}, SetTg(c, g),
         clientMap[c] = SwitchedTo(c, g) => clientMap[c] = NoTG
  PROVE  \E h \in TG \cup {NoTG} : TalkGroup!Move(c, h)
<1> DEFINE new == SwitchedTo(c, g)
<1>1. new \in TG \cup {NoTG}
  BY DEF SwitchedTo
<1>2. clientMap' = [clientMap EXCEPT ![c] = new]
  BY SetTgKeeps
<1>3. talkerOf' = [h \in TG |-> IF talkerOf[h] = c THEN NoTalker ELSE talkerOf[h]]
  <2>1. ASSUME NEW h \in TG
        PROVE  info'[h].talker = IF info[h].talker = c THEN NoTalker ELSE info[h].talker
    <3>1. info[h].talker = c => h = clientMap[c]
      BY ClientAssumption DEF IInv, TalkerIsMember, TalkerForTG, IndicesAgree
    <3>2. info[h].talker = c => clientMap[c] # new
      BY <3>1, TGAssumption
    <3>3. QED
      BY <3>1, <3>2, SetTgKeeps
  <2>2. QED
    BY <2>1 DEF talkerOf
<1>4. TalkGroup!Move(c, new)
  BY <1>2, <1>3 DEF TalkGroup!Move, talkerOf
<1>5. QED
  BY <1>1, <1>4

LEMMA AudioRefines ==
  ASSUME IInv, NEW c \in Client, Audio(c)
  PROVE  TalkGroup!Take(c) \/ UNCHANGED <<clientMap, talkerOf>>
<1> DEFINE g == clientMap[c]
<1>1. UNCHANGED clientMap
  BY DEF Audio
<1>2. CASE NotBlocked(c) /\ g # NoTG /\ MayTalk(c, g)
  <2>1. g \in TG /\ SetTalkerForTG(g, c)
    BY <1>2 DEF Audio, IInv, TypeOK
  <2>2. \A h \in TG : info'[h].talker = IF h = g THEN c ELSE info[h].talker
    BY <2>1, SetTalkerForTGKeeps DEF Talkers
  <2>3. talkerOf' = [talkerOf EXCEPT ![g] = c]
    BY <2>2 DEF talkerOf
  <2>4. CASE info[g].talker = NoTalker
    BY <1>1, <2>1, <2>3, <2>4 DEF TalkGroup!Take, talkerOf
  <2>5. CASE info[g].talker = c
    BY <1>1, <2>1, <2>3, <2>5 DEF talkerOf
  <2>6. QED
    BY <1>2, <2>4, <2>5 DEF MayTalk
<1>3. CASE ~(NotBlocked(c) /\ g # NoTG /\ MayTalk(c, g))
  BY <1>1, <1>3 DEF Audio, talkerOf, IInv, TypeOK
<1>4. QED
  BY <1>2, <1>3

LEMMA ReleaseRefines ==
  ASSUME UNCHANGED clientMap,
         \A g \in TG : info'[g].talker \in {NoTalker, info[g].talker}
  PROVE  \E G \in SUBSET TG : TalkGroup!Release(G)
<1> DEFINE G == {g \in TG : info'[g].talker = NoTalker}
<1>1. talkerOf' = [g \in TG |-> IF g \in G THEN NoTalker ELSE talkerOf[g]]
  BY DEF talkerOf
<1>2. TalkGroup!Release(G)
  BY <1>1 DEF TalkGroup!Release, talkerOf
<1>3. G \in SUBSET TG
  OBVIOUS
<1> HIDE DEF G
<1>4. QED
  BY <1>2, <1>3 DEF TalkGroup!Release

LEMMA NextRefines == IInv /\ [Next]_vars => [TalkGroup!Next]_(TalkGroup!vars)
<1> SUFFICES ASSUME IInv, [Next]_vars
             PROVE  TalkGroup!Next \/ UNCHANGED <<clientMap, talkerOf>>
  BY DEF TalkGroup!vars, talkerOf
<1> USE DEF IInv, TypeOK
<1>1. CASE \E c \in Client : Connect(c)
  <2>1. PICK c \in Client, g \in TG \cup {NoTG} : SetTg(c, g) /\ c \notin online
    BY <1>1, V1Assumption DEF Connect
  <2>2. clientMap[c] = NoTG
    BY <2>1 DEF NoDanglingClient
  <2>3. QED
    BY <2>1, <2>2, SetTgRefines DEF TalkGroup!Next
<1>2. CASE \E c \in Client, g \in TG \cup {NoTG} : SelectTG(c, g)
  <2>1. PICK c \in Client, g \in TG \cup {NoTG} : SetTg(c, g) /\ g # clientMap[c]
    BY <1>2 DEF SelectTG, IndicesAgree
  <2>2. clientMap[c] = SwitchedTo(c, g) => clientMap[c] = NoTG
    BY <2>1 DEF SwitchedTo
  <2>3. QED
    BY <2>1, <2>2, SetTgRefines DEF TalkGroup!Next
<1>3. CASE \E c \in Client : Audio(c)
  BY <1>3, AudioRefines DEF TalkGroup!Next
<1>4. CASE \E c \in Client : Flush(c)
  <2>1. PICK g \in TG : SetTalkerForTG(g, NoTalker) /\ UNCHANGED clientMap
    BY <1>4 DEF Flush
  <2>2. \A h \in TG : info'[h].talker \in {NoTalker, info[h].talker}
    BY <2>1, SetTalkerForTGKeeps DEF Talkers
  <2>3. QED
    BY <2>1, <2>2, ReleaseRefines DEF TalkGroup!Next
<1>5. CASE \E c \in Client : Disconnect(c)
  <2>1. PICK c \in Client : Disconnect(c)
    BY <1>5
  <2>2. talkerOf' = [h \in TG |-> IF talkerOf[h] = c THEN NoTalker ELSE talkerOf[h]]
    BY <2>1, DisconnectTalkers DEF talkerOf
  <2>3. TalkGroup!Move(c, NoTG)
    BY <2>1, <2>2, DisconnectTalkers DEF TalkGroup!Move, talkerOf
  <2>4. QED
    BY <2>3 DEF TalkGroup!Next
<1>6. CASE CheckTimers
  <2>1. PICK late \in SUBSET TG : CheckTimersWith(late)
    BY <1>6 DEF CheckTimers
  <2>2. QED
    BY <2>1, TimersCheckedType, ReleaseRefines DEF CheckTimersWith, TalkGroup!Next
<1>7. CASE \E c \in Client : (\E t \in PtyBlocktime : PtyBlock(c, t)) \/ Heartbeat(c)
  BY <1>7 DEF PtyBlock, Heartbeat, talkerOf
<1>8. CASE UNCHANGED vars
  BY <1>8 DEF vars, talkerOf
<1>9. QED
  BY <1>1, <1>2, <1>3, <1>4, <1>5, <1>6, <1>7, <1>8 DEF Next

(***************************************************************************)
(* The handler keeps the promise of TalkGroups: a node is in one group at  *)
(* most, a group has one talker at most, who is one of its nodes, and no   *)
(* turn is taken over (TGHandler.cpp with the audio handler).              *)
(***************************************************************************)
THEOREM Refinement == Safe => ImplementsTalkGroups
<1>1. Init => TalkGroup!Init
  BY DEF Init, TalkGroup!Init, NewTGInfo
<1>2. Safe => []IInv
  BY IInvInit, IInvNext, PTL DEF Safe
<1>3. QED
  BY <1>1, <1>2, NextRefines, PTL DEF Safe, ImplementsTalkGroups, TalkGroup!Spec

-----------------------------------------------------------------------------
(***************************************************************************)
(* The times: what the time stamps and counts of a group say of the past.  *)
(***************************************************************************)

(* The time stamp of a group is no younger than its talker's last frame. *)
GapInv == \A g \in TG : gap[g] <= info[g].age

(* The deadline i.qsy of g, when the last request is since ticks ago. *)
QsyOK(g, i, since) ==
    /\ i.qsy >= QsyUnset
    /\ AutoQsyAfter[g] > 0 =>
         /\ i.talker # NoTalker => i.qsy # QsyUnset
         /\ i.qsy = QsyPassed => since >= AutoQsyAfter[g]
         /\ i.qsy >= 0 => since + i.qsy >= AutoQsyAfter[g]

QsyInv == \A g \in TG : QsyOK(g, info[g], sinceQsy[g])

(* The part of a block that is not left to serve has been kept silent. *)
BlockInv ==
    \A c \in Client : block[c].time > 0 => silent[c] + block[c].remaining >= block[c].time

TimeInv == GapInv /\ QsyInv /\ BlockInv

(* j is what is left of i when clients go: the talker may be one of them,  *)
(* and with the last of them the TGInfo goes.                              *)
LeftOver(i, j) ==
    \/ j.age = i.age /\ j.qsy = i.qsy /\ j.talker \in {i.talker, NoTalker}
    \/ j.age = StaleAge /\ j.qsy = QsyUnset /\ j.talker = NoTalker

LEMMA RemoveClientLeaves ==
  ASSUME NEW i \in TGInfo, NEW c \in Client
  PROVE  LeftOver(i, RemoveClientP(i, c))
<1>1. CASE i.clients \ {c} = {}
  BY <1>1 DEF RemoveClientP, LeftOver, NewTGInfo
<1>2. CASE i.clients \ {c} # {}
  BY <1>2 DEF RemoveClientP, TGInfo, LeftOver
<1>3. QED
  BY <1>1, <1>2

LEMMA SetTgLeaves ==
  ASSUME IInv, NEW c \in Client, NEW g \in TG \cup {NoTG}, SetTg(c, g)
  PROVE  \A h \in TG : LeftOver(info[h], info'[h])
<1> TAKE h \in TG
<1> DEFINE old == clientMap[c]
           new == SwitchedTo(c, g)
           left == IF h = old /\ old # new THEN RemoveClientP(info[h], c) ELSE info[h]
<1>1. LeftOver(info[h], left) /\ left \in TGInfo
  <2>1. info[h] \in TGInfo /\ (info[h].talker # NoTalker => info[h].talker \in info[h].clients)
    BY DEF IInv, TypeOK, TalkerIsMember, TalkerForTG
  <2>2. RemoveClientP(info[h], c) \in TGInfo /\ LeftOver(info[h], RemoveClientP(info[h], c))
    BY <2>1, RemoveClientType, RemoveClientLeaves
  <2>3. QED
    BY <2>1, <2>2 DEF LeftOver
<1>2. info'[h] = IF h = new THEN [left EXCEPT !.clients = @ \cup {c}] ELSE left
  BY DEF SetTg
<1> HIDE DEF left, new
<1>3. /\ info'[h].age = left.age
      /\ info'[h].qsy = left.qsy
      /\ info'[h].talker = left.talker
  BY <1>1, <1>2 DEF TGInfo
<1>4. QED
  BY <1>1, <1>3 DEF LeftOver

LEMMA DisconnectLeaves ==
  ASSUME IInv, NEW c \in Client, Disconnect(c)
  PROVE  \A h \in TG :
            IF info[h].talker = c THEN LeftOver(SetTalker(h, info[h], NoTalker), info'[h])
                                  ELSE LeftOver(info[h], info'[h])
<1> TAKE h \in TG
<1> DEFINE i == IF info[h].talker = c THEN SetTalker(h, info[h], NoTalker) ELSE info[h]
<1>1. info'[h] = IF h = clientMap[c] THEN RemoveClientP(i, c) ELSE info[h]
  BY DEF Disconnect
<1>2. info[h] \in TGInfo /\ i \in TGInfo
  BY SetTalkerType DEF IInv, TypeOK, Talkers
<1>3. info[h].talker = c => h = clientMap[c]
  BY ClientAssumption DEF IInv, TalkerIsMember, TalkerForTG, IndicesAgree
<1>4. LeftOver(i, info'[h])
  <2>1. h # clientMap[c] => i = info[h]
    BY <1>3
  <2> HIDE DEF i
  <2>2. CASE h = clientMap[c]
    BY <1>1, <1>2, <2>2, RemoveClientLeaves
  <2>3. CASE h # clientMap[c]
    BY <1>1, <2>1, <2>3 DEF LeftOver
  <2>4. QED
    BY <2>2, <2>3
<1>5. QED
  BY <1>4

(* The deadline of an auto QSY through the operators on one TGInfo. *)
LEMMA QsyOfLeftOver ==
  ASSUME NEW g \in TG, NEW i, NEW j, NEW since, QsyOK(g, i, since), LeftOver(i, j)
  PROVE  QsyOK(g, j, since)
<1>1. CASE j.qsy = i.qsy /\ j.talker \in {i.talker, NoTalker}
  BY <1>1 DEF QsyOK
<1>2. CASE j.qsy = QsyUnset /\ j.talker = NoTalker
  BY <1>2 DEF QsyOK, QsyUnset, QsyPassed
<1>3. QED
  BY <1>1, <1>2 DEF LeftOver

(* A request for g comes no sooner than it may, and starts the time anew. *)
LEMMA QsyOfSetTalker ==
  ASSUME NEW g \in TG, NEW i \in TGInfo, NEW t \in Talkers, NEW since \in Nat,
         QsyOK(g, i, since)
  PROVE  /\ AsksQsy(g, i, t) => since >= AutoQsyAfter[g]
         /\ QsyOK(g, SetTalker(g, i, t), IF AsksQsy(g, i, t) THEN 0 ELSE since)
<1>1. i.qsy \in Int /\ AutoQsyAfter[g] \in Nat
  BY TimeAssumption DEF TGInfo
<1>2. AsksQsy(g, i, t) => since >= AutoQsyAfter[g]
  BY <1>1 DEF AsksQsy, QsyOK, QsyUnset, QsyPassed
<1>3. CASE t = i.talker
  <2>1. ~AsksQsy(g, i, t)
    BY <1>3 DEF AsksQsy
  <2>2. SetTalker(g, i, t).qsy = i.qsy /\ SetTalker(g, i, t).talker = i.talker
    BY <1>3 DEF SetTalker, TGInfo
  <2>3. QED
    BY <1>2, <2>1, <2>2 DEF QsyOK
<1>4. CASE t # i.talker
  <2>1. SetTalker(g, i, t).qsy = QsyTimeAfter(g, i, t) /\ SetTalker(g, i, t).talker = t
    BY <1>4 DEF SetTalker, TGInfo
  <2>2. QED
    BY <1>1, <1>2, <1>4, <2>1 DEF QsyOK, QsyTimeAfter, AsksQsy, QsyUnset, QsyPassed
<1>5. QED
  BY <1>3, <1>4

(* What checkTimers does to the deadline. *)
QsySince(g, asked, since) ==
    IF asked THEN 0 ELSE IF since <= AutoQsyAfter[g] THEN since + 1 ELSE since

LEMMA QsyOneSecondLater ==
  ASSUME NEW g \in TG, NEW i \in TGInfo, NEW since \in Nat, QsyOK(g, i, since)
  PROVE  /\ QsyOK(g, OneSecondLater(i), QsySince(g, FALSE, since))
         /\ OneSecondLater(i).qsy < 0 /\ AutoQsyAfter[g] > 0 /\ i.talker # NoTalker
                => since >= AutoQsyAfter[g]
<1>1. i.qsy \in Int /\ AutoQsyAfter[g] \in Nat
  BY TimeAssumption DEF TGInfo
<1>2. /\ OneSecondLater(i).qsy = IF i.qsy >= 0 THEN i.qsy - 1 ELSE i.qsy
      /\ OneSecondLater(i).talker = i.talker
  BY DEF OneSecondLater, TGInfo
<1>3. QED
  BY <1>1, <1>2 DEF QsyOK, QsySince, QsyUnset, QsyPassed

(* The three ways in which checkTimers leaves a group.                     *)
LEMMA TimersCheckedCases ==
  ASSUME NEW g \in TG, NEW late \in SUBSET TG, info[g] \in TGInfo
  PROVE  LET o == OneSecondLater(info[g])
             i == TimersChecked(g, late)
         IN \/ i = SetTalker(g, o, NoTalker)
            \/ g \notin late /\ i = SetTalker(g, [o EXCEPT !.sql = 0], NoTalker)
            \/ g \notin late /\ i.talker = o.talker /\ i.qsy = o.qsy /\ i.age = o.age
<1> DEFINE o == OneSecondLater(info[g])
<1>1. o \in TGInfo /\ o.talker = info[g].talker
  BY OneSecondLaterType
<1>2. CASE g \in late
  <2>1. AudioChecked(g, late) = SetTalker(g, o, NoTalker)
    BY <1>2 DEF AudioChecked
  <2>2. TalkerForTG(g) = NoTalker \/ SetTalker(g, o, NoTalker).sql = 0
    BY <1>1 DEF SetTalker, TGInfo, TalkerForTG
  <2>3. QED
    BY <2>1, <2>2 DEF TimersChecked
<1>3. CASE g \notin late
  <2>1. AudioChecked(g, late) = o
    BY <1>3 DEF AudioChecked
  <2>2. CASE TalkerForTG(g) = NoTalker \/ o.sql = 0
    BY <1>3, <2>1, <2>2 DEF TimersChecked
  <2>3. CASE ~(TalkerForTG(g) = NoTalker \/ o.sql = 0) /\ SqlTimesOut(o)
    BY <1>3, <2>1, <2>3 DEF TimersChecked
  <2>4. CASE ~(TalkerForTG(g) = NoTalker \/ o.sql = 0) /\ ~SqlTimesOut(o)
    <3>1. TimersChecked(g, late) = [o EXCEPT !.sql = @ - 1]
      BY <2>1, <2>4 DEF TimersChecked
    <3>2. QED
      BY <1>1, <1>3, <3>1 DEF TGInfo
  <2>5. QED
    BY <2>2, <2>3, <2>4
<1>4. QED
  BY <1>2, <1>3

LEMMA QsyOfTimers ==
  ASSUME NEW g \in TG, NEW late \in SUBSET TG, info[g] \in TGInfo,
         NEW since \in Nat, QsyOK(g, info[g], since)
  PROVE  LET asked == /\ TimersChecked(g, late).talker # TalkerForTG(g)
                      /\ AsksQsy(g, OneSecondLater(info[g]), NoTalker)
         IN /\ asked => since >= AutoQsyAfter[g]
            /\ QsyOK(g, TimersChecked(g, late), QsySince(g, asked, since))
<1> DEFINE o == OneSecondLater(info[g])
           i == TimersChecked(g, late)
           asked == i.talker # TalkerForTG(g) /\ AsksQsy(g, o, NoTalker)
           later == QsySince(g, FALSE, since)
<1>1. o \in TGInfo /\ o.talker = info[g].talker /\ TalkerForTG(g) = o.talker
  BY OneSecondLaterType DEF TalkerForTG
<1>2. QsyOK(g, o, later)
  BY QsyOneSecondLater
<1>3. later \in Nat /\ NoTalker \in Talkers
  BY TimeAssumption DEF QsySince, Talkers
<1>4. asked => since >= AutoQsyAfter[g]
  BY <1>1, QsyOneSecondLater DEF AsksQsy
<1> SUFFICES QsyOK(g, i, QsySince(g, asked, since))
  BY <1>4
<1>5. ASSUME NEW j \in TGInfo, j.qsy = o.qsy, j.talker = o.talker, i = SetTalker(g, j, NoTalker)
      PROVE  QsyOK(g, i, QsySince(g, asked, since))
  <2>1. AsksQsy(g, j, NoTalker) <=> asked
    <3>1. i.talker = NoTalker
      BY <1>3, <1>5, SetTalkerType
    <3>2. QED
      BY <1>1, <1>5, <3>1 DEF AsksQsy
  <2>2. QsyOK(g, j, later)
    BY <1>2, <1>5 DEF QsyOK
  <2>3. QsyOK(g, i, IF AsksQsy(g, j, NoTalker) THEN 0 ELSE later)
    BY <1>3, <1>5, <2>2, QsyOfSetTalker
  <2> HIDE DEF asked, i
  <2>4. QED
    BY <2>1, <2>3 DEF QsySince
<1>6. CASE i = SetTalker(g, o, NoTalker)
  <2> HIDE DEF asked, i
  <2>1. QED
    BY <1>1, <1>5, <1>6
<1>7. CASE i = SetTalker(g, [o EXCEPT !.sql = 0], NoTalker)
  <2>1. /\ [o EXCEPT !.sql = 0] \in TGInfo
        /\ [o EXCEPT !.sql = 0].qsy = o.qsy
        /\ [o EXCEPT !.sql = 0].talker = o.talker
    BY <1>1, TimeAssumption DEF TGInfo
  <2> HIDE DEF asked, i
  <2>2. QED
    BY <1>5, <1>7, <2>1
<1>8. CASE i.talker = o.talker /\ i.qsy = o.qsy
  <2>1. ~asked
    BY <1>1, <1>8
  <2>2. QsyOK(g, i, later)
    BY <1>2, <1>8 DEF QsyOK
  <2> HIDE DEF asked, i
  <2>3. QED
    BY <2>1, <2>2 DEF QsySince
<1>9. QED
  <2>1. \/ i = SetTalker(g, o, NoTalker)
        \/ i = SetTalker(g, [o EXCEPT !.sql = 0], NoTalker)
        \/ i.talker = o.talker /\ i.qsy = o.qsy
    BY TimersCheckedCases
  <2> HIDE DEF asked, i, o
  <2>2. QED
    BY <1>6, <1>7, <1>8, <2>1

(* A talker that outlives the timers has a time stamp that is not stale.   *)
LEMMA AgeOfTimers ==
  ASSUME NEW g \in TG, NEW late \in SUBSET TG, info[g] \in TGInfo,
         MustTimeOut(g) => g \in late,
         TimersChecked(g, late).talker # NoTalker
  PROVE  TimersChecked(g, late).age = info[g].age + 1
<1> DEFINE o == OneSecondLater(info[g])
<1>1. o \in TGInfo /\ o.talker = info[g].talker
  BY OneSecondLaterType
<1>2. [o EXCEPT !.sql = 0] \in TGInfo /\ NoTalker \in Talkers
  BY <1>1, TimeAssumption DEF TGInfo, Talkers
<1>3. g \notin late /\ TimersChecked(g, late).talker = o.talker /\ TimersChecked(g, late).age = o.age
  BY <1>1, <1>2, TimersCheckedCases, SetTalkerType
<1>4. info[g].age <= TalkerAudioTimeout
  BY <1>1, <1>3, TimeAssumption DEF MustTimeOut, TalkerForTG, TGInfo, StaleAge
<1>5. o.age = info[g].age + 1
  BY <1>4, TimeAssumption DEF OneSecondLater, TGInfo, StaleAge
<1>6. QED
  BY <1>3, <1>5

-----------------------------------------------------------------------------
(* A request that a step makes comes no sooner than it may. *)
Spaced == \A g \in qsyReq' : sinceQsy[g] >= AutoQsyAfter[g]

LEMMA TimeInit == Init => TimeInv
<1> SUFFICES ASSUME Init PROVE TimeInv
  OBVIOUS
<1>1. \A g \in TG : gap[g] = 0 /\ info[g].age = StaleAge /\ StaleAge >= 0
  BY TimeAssumption DEF Init, NewTGInfo, StaleAge
<1>2. \A g \in TG : info[g].qsy = QsyUnset /\ info[g].talker = NoTalker
  BY DEF Init, NewTGInfo
<1>3. \A c \in Client : ~(block[c].time > 0)
  BY DEF Init, Unblocked
<1>4. QED
  BY <1>1, <1>2, <1>3 DEF TimeInv, GapInv, QsyInv, QsyOK, BlockInv, QsyUnset, QsyPassed

(* Where the talker stays and is not heard, the time stamp stays. *)
LEMMA GapStep ==
  ASSUME IInv, GapInv, info' \in [TG -> TGInfo], NEW heard, GapAfter(info', heard),
         \A g \in TG : info'[g].talker \notin {NoTalker} \cup heard
                          /\ info'[g].talker = info[g].talker => info'[g].age = info[g].age
  PROVE  GapInv'
<1> SUFFICES ASSUME NEW g \in TG PROVE gap'[g] <= info'[g].age
  BY DEF GapInv
<1>1. info'[g].age \in Nat
  BY TimeAssumption DEF TGInfo, StaleAge
<1>2. gap'[g] = 0 \/ (gap'[g] = gap[g] /\ info'[g].age = info[g].age)
  BY DEF GapAfter
<1>3. QED
  BY <1>1, <1>2 DEF GapInv

LEMMA SetTgTimes ==
  ASSUME IInv, TimeInv, NEW c \in Client, NEW g \in TG \cup {NoTG}, SetTg(c, g), NoQsyRequest
  PROVE  GapInv' /\ QsyInv' /\ Spaced
<1>1. \A h \in TG : LeftOver(info[h], info'[h])
  BY SetTgLeaves
<1>2. GapInv'
  <2>1. info' \in [TG -> TGInfo] /\ GapAfter(info', {}) /\ GapInv
    BY SetTgKeeps DEF TimeInv, SetTg
  <2>2. \A h \in TG : info'[h].talker \notin {NoTalker} \cup {}
                        /\ info'[h].talker = info[h].talker => info'[h].age = info[h].age
    BY <1>1 DEF LeftOver
  <2> QED BY <2>1, <2>2, GapStep
<1>3. QsyInv'
  BY <1>1, QsyOfLeftOver DEF TimeInv, QsyInv, NoQsyRequest
<1>4. Spaced
  BY DEF Spaced, NoQsyRequest
<1>5. QED
  BY <1>2, <1>3, <1>4

LEMMA SetTalkerTimes ==
  ASSUME IInv, TimeInv, NEW g \in TG, NEW t \in Talkers, SetTalkerForTG(g, t),
         GapAfter(info', {t})
  PROVE  GapInv' /\ QsyInv' /\ Spaced
<1> USE DEF IInv, TypeOK
<1>1. info' = [info EXCEPT ![g] = SetTalker(g, info[g], t)]
  BY DEF SetTalkerForTG
<1>2. info' \in [TG -> TGInfo] /\ info'[g].talker = t
  BY <1>1, SetTalkerType
<1>3. GapInv'
  <2>1. ASSUME NEW h \in TG, info'[h].talker \notin {NoTalker} \cup {t}
        PROVE  info'[h].age = info[h].age
    <3>1. h # g
      BY <1>2, <2>1
    <3>2. QED
      BY <1>1, <3>1
  <2>2. QED
    BY <1>2, <2>1, GapStep DEF TimeInv
<1>4. ASSUME NEW h \in TG
      PROVE  /\ QsyOK(h, info'[h], sinceQsy'[h])
             /\ h \in qsyReq' => sinceQsy[h] >= AutoQsyAfter[h]
  <2>1. QsyOK(h, info[h], sinceQsy[h])
    BY DEF TimeInv, QsyInv
  <2>2. CASE h = g
    <3>1. h \in qsyReq' <=> AsksQsy(h, info[h], t)
      BY <2>2 DEF SetTalkerForTG, RequestAutoQsy
    <3>2. sinceQsy'[h] = IF AsksQsy(h, info[h], t) THEN 0 ELSE sinceQsy[h]
      BY <2>2 DEF SetTalkerForTG, RequestAutoQsy
    <3>3. info'[h] = SetTalker(h, info[h], t)
      BY <1>1, <2>2
    <3>4. QED
      BY <2>1, <3>1, <3>2, <3>3, QsyOfSetTalker
  <2>3. CASE h # g
    BY <1>1, <2>1, <2>3 DEF SetTalkerForTG, RequestAutoQsy
  <2>4. QED
    BY <2>2, <2>3
<1>5. qsyReq' \subseteq TG
  BY DEF SetTalkerForTG, RequestAutoQsy
<1>6. QED
  BY <1>3, <1>4, <1>5 DEF QsyInv, Spaced

LEMMA DisconnectTimes ==
  ASSUME IInv, IInv', TimeInv, NEW c \in Client, Disconnect(c)
  PROVE  GapInv' /\ QsyInv' /\ Spaced
<1> USE DEF IInv, TypeOK
<1>1. \A h \in TG : IF info[h].talker = c
                    THEN LeftOver(SetTalker(h, info[h], NoTalker), info'[h])
                    ELSE LeftOver(info[h], info'[h])
  BY DisconnectLeaves
<1>2. NoTalker \in Talkers /\ \A h \in TG : SetTalker(h, info[h], NoTalker).talker = NoTalker
  BY SetTalkerType DEF Talkers
<1>3. GapInv'
  <2>1. GapAfter(info', {})
    BY DEF Disconnect
  <2>2. QED
    BY <1>1, <1>2, <2>1, GapStep DEF TimeInv, LeftOver
<1>4. ASSUME NEW h \in TG
      PROVE  /\ QsyOK(h, info'[h], sinceQsy'[h])
             /\ h \in qsyReq' => sinceQsy[h] >= AutoQsyAfter[h]
  <2>1. QsyOK(h, info[h], sinceQsy[h])
    BY DEF TimeInv, QsyInv
  <2>2. CASE info[h].talker = c
    <3>1. h = clientMap[c] /\ RequestAutoQsy(h, NoTalker)
      BY <2>2, TGAssumption, ClientAssumption
         DEF IndicesAgree, TalkerIsMember, TalkerForTG, Disconnect
    <3>2. /\ h \in qsyReq' <=> AsksQsy(h, info[h], NoTalker)
          /\ sinceQsy'[h] = IF AsksQsy(h, info[h], NoTalker) THEN 0 ELSE sinceQsy[h]
      BY <3>1 DEF RequestAutoQsy
    <3>3. LeftOver(SetTalker(h, info[h], NoTalker), info'[h])
      BY <1>1, <2>2
    <3>4. QED
      BY <1>2, <2>1, <3>2, <3>3, QsyOfSetTalker, QsyOfLeftOver
  <2>3. CASE info[h].talker # c
    <3>1. h \notin qsyReq' /\ sinceQsy'[h] = sinceQsy[h]
      <4>1. CASE clientMap[c] # NoTG /\ info[clientMap[c]].talker = c
        BY <2>3, <4>1 DEF Disconnect, RequestAutoQsy
      <4>2. CASE ~(clientMap[c] # NoTG /\ info[clientMap[c]].talker = c)
        BY <4>2 DEF Disconnect, NoQsyRequest
      <4>3. QED
        BY <4>1, <4>2
    <3>2. LeftOver(info[h], info'[h])
      BY <1>1, <2>3
    <3>3. QED
      BY <2>1, <3>1, <3>2, QsyOfLeftOver
  <2>4. QED
    BY <2>2, <2>3
<1>5. QED
  BY <1>3, <1>4 DEF QsyInv, Spaced

LEMMA CheckTimersTimes ==
  ASSUME IInv, IInv', TimeInv, CheckTimers
  PROVE  GapInv' /\ QsyInv' /\ Spaced
<1> USE DEF IInv, TypeOK
<1>1. PICK late \in SUBSET TG : /\ \A g \in TG : MustTimeOut(g) => g \in late
                                /\ CheckTimersWith(late)
  BY DEF CheckTimers
<1>2. \A g \in TG : info'[g] = TimersChecked(g, late)
  BY <1>1 DEF CheckTimersWith
<1>3. GapInv'
  <2> SUFFICES ASSUME NEW g \in TG PROVE gap'[g] <= info'[g].age
    BY DEF GapInv
  <2>1. info'[g].age \in Nat /\ info[g].age \in Nat /\ gap[g] \in Nat /\ gap[g] <= info[g].age
    BY TimeAssumption DEF TGInfo, StaleAge, TimeInv, GapInv
  <2>2. CASE info'[g].talker = NoTalker
    BY <1>1, <2>1, <2>2 DEF CheckTimersWith
  <2>3. CASE info'[g].talker # NoTalker
    <3>1. info'[g].age = info[g].age + 1
      BY <1>1, <1>2, <2>3, AgeOfTimers
    <3>2. gap'[g] \in {gap[g], gap[g] + 1}
      BY <1>1, <2>3 DEF CheckTimersWith
    <3>3. QED
      BY <2>1, <3>1, <3>2
  <2>4. QED
    BY <2>2, <2>3
<1>4. ASSUME NEW g \in TG
      PROVE  /\ QsyOK(g, info'[g], sinceQsy'[g])
             /\ g \in qsyReq' => sinceQsy[g] >= AutoQsyAfter[g]
  <2> DEFINE asked == /\ TimersChecked(g, late).talker # TalkerForTG(g)
                      /\ AsksQsy(g, OneSecondLater(info[g]), NoTalker)
  <2>1. QsyOK(g, info[g], sinceQsy[g]) /\ info[g] \in TGInfo /\ sinceQsy[g] \in Nat
    BY DEF TimeInv, QsyInv
  <2>2. (g \in qsyReq' <=> asked) /\ sinceQsy'[g] = QsySince(g, asked, sinceQsy[g])
    BY <1>1 DEF CheckTimersWith, TickQsy, QsySince
  <2>3. /\ asked => sinceQsy[g] >= AutoQsyAfter[g]
        /\ QsyOK(g, TimersChecked(g, late), QsySince(g, asked, sinceQsy[g]))
    BY <2>1, QsyOfTimers
  <2> HIDE DEF asked
  <2>4. QED
    BY <1>2, <2>2, <2>3
<1>5. QED
  BY <1>3, <1>4 DEF QsyInv, Spaced

LEMMA BlockStep == ASSUME IInv, BlockInv, [Next]_vars PROVE BlockInv'
<1> USE DEF IInv, TypeOK
<1> SUFFICES ASSUME NEW c \in Client, block'[c].time > 0
             PROVE  silent'[c] + block'[c].remaining >= block'[c].time
  BY DEF BlockInv
<1>1. /\ block[c].time \in Nat /\ block[c].remaining \in Nat /\ silent[c] \in Nat
      /\ block[c].time > 0 => silent[c] + block[c].remaining >= block[c].time
  BY DEF BlockInv
<1>2. CASE block'[c] = block[c] /\ silent'[c] = silent[c]
  BY <1>1, <1>2
<1>3. ASSUME NEW t \in Nat, block'[c] = [time |-> t, remaining |-> t], silent'[c] = 0
      PROVE  silent'[c] + block'[c].remaining >= block'[c].time
  BY <1>3
<1>4. ASSUME NEW d \in Client, Connect(d) \/ Disconnect(d)
      PROVE  silent'[c] + block'[c].remaining >= block'[c].time
  BY <1>2, <1>3, <1>4 DEF Connect, Disconnect, Unblocked
<1>5. ASSUME NEW d \in Client, Audio(d)
      PROVE  silent'[c] + block'[c].remaining >= block'[c].time
  BY <1>1, <1>2, <1>5 DEF Audio, BlockRearmed
<1>6. ASSUME NEW d \in Client, NEW t \in PtyBlocktime, PtyBlock(d, t)
      PROVE  silent'[c] + block'[c].remaining >= block'[c].time
  BY <1>2, <1>3, <1>6, TimeAssumption DEF PtyBlock
<1>7. ASSUME NEW d \in Client, Heartbeat(d)
      PROVE  silent'[c] + block'[c].remaining >= block'[c].time
  <2>1. CASE d = c
    <3>1. block'[c] = BlockServed(block[c]) /\ block[c].time > 0
      BY <1>7, <2>1 DEF Heartbeat
    <3>2. /\ block[c].remaining > 0
          /\ block'[c].time = block[c].time
          /\ block'[c].remaining = block[c].remaining - 1
      BY <1>1, <3>1 DEF BlockServed, Unblocked
    <3>3. silent'[c] = IF silent[c] < block[c].time + 2 THEN silent[c] + 1 ELSE silent[c]
      BY <1>7, <2>1, <3>1, <3>2 DEF Heartbeat, LongestBlock
    <3>4. QED
      BY <1>1, <3>1, <3>2, <3>3
  <2>2. CASE d # c
    BY <1>2, <1>7, <2>2 DEF Heartbeat
  <2>3. QED
    BY <2>1, <2>2
<1>8. CASE CheckTimers
  BY <1>2, <1>3, <1>8, TimeAssumption DEF CheckTimers, CheckTimersWith
<1>9. CASE UNCHANGED vars
  BY <1>2, <1>9 DEF vars
<1>10. QED
  BY <1>2, <1>4, <1>5, <1>6, <1>7, <1>8, <1>9 DEF Next, SelectTG, Flush

LEMMA TimeNext == IInv /\ TimeInv /\ [Next]_vars => TimeInv' /\ (Spaced \/ UNCHANGED vars)
<1> SUFFICES ASSUME IInv, TimeInv, [Next]_vars
             PROVE  GapInv' /\ QsyInv' /\ (Spaced \/ UNCHANGED vars)
  BY BlockStep DEF TimeInv
<1>0. IInv'
  BY IInvNext
<1>1. CASE \E c \in Client : Connect(c)
  <2>1. PICK c \in Client, g \in TG \cup {NoTG} : SetTg(c, g) /\ NoQsyRequest
    BY <1>1, V1Assumption DEF Connect
  <2>2. QED
    BY <2>1, SetTgTimes
<1>2. CASE \E c \in Client, g \in TG \cup {NoTG} : SelectTG(c, g)
  BY <1>2, SetTgTimes DEF SelectTG
<1>3. ASSUME UNCHANGED <<info, gap>>, NoQsyRequest
      PROVE  GapInv' /\ QsyInv' /\ Spaced
  BY <1>3 DEF TimeInv, GapInv, QsyInv, NoQsyRequest, Spaced
<1>4. ASSUME NEW c \in Client, Audio(c)
      PROVE  GapInv' /\ QsyInv' /\ Spaced
  <2> DEFINE g == clientMap[c]
  <2>1. CASE NotBlocked(c) /\ g # NoTG /\ MayTalk(c, g)
    <3>1. SetTalkerForTG(g, c) /\ GapAfter(info', {c}) /\ g \in TG /\ c \in Talkers
      BY <1>4, <2>1 DEF Audio, IInv, TypeOK, Talkers
    <3>2. QED
      BY <3>1, SetTalkerTimes
  <2>2. CASE ~(NotBlocked(c) /\ g # NoTG /\ MayTalk(c, g))
    BY <1>3, <1>4, <2>2 DEF Audio
  <2>3. QED
    BY <2>1, <2>2
<1>5. ASSUME NEW c \in Client, Flush(c)
      PROVE  GapInv' /\ QsyInv' /\ Spaced
  <2>1. PICK g \in TG : SetTalkerForTG(g, NoTalker) /\ GapAfter(info', {})
    BY <1>5 DEF Flush, IInv, TypeOK
  <2>2. GapAfter(info', {NoTalker})
    BY <2>1 DEF GapAfter
  <2>3. QED
    BY <2>1, <2>2, SetTalkerTimes DEF Talkers
<1>6. CASE \E c \in Client : Disconnect(c)
  BY <1>0, <1>6, DisconnectTimes
<1>7. CASE \E c \in Client : (\E t \in PtyBlocktime : PtyBlock(c, t)) \/ Heartbeat(c)
  BY <1>3, <1>7 DEF PtyBlock, Heartbeat
<1>8. CASE CheckTimers
  BY <1>0, <1>8, CheckTimersTimes
<1>9. CASE UNCHANGED vars
  BY <1>9 DEF vars, TimeInv, GapInv, QsyInv
<1>10. QED
  BY <1>1, <1>2, <1>4, <1>5, <1>6, <1>7, <1>8, <1>9 DEF Next

LEMMA TimesHold == Safe => [](IInv /\ TimeInv)
  BY IInvInit, IInvNext, TimeInit, TimeNext, PTL DEF Safe

(***************************************************************************)
(* Whoever has gone quiet is off the air one tick after the allowed gap at *)
(* the latest, for every TALKER_AUDIO_TIMEOUT: the time stamp of a group   *)
(* is never younger than the last frame of its talker, also when the frame *)
(* that took the group left it as it was (checkTimers).                    *)
(***************************************************************************)
THEOREM QuietTalker == Safe => []QuietTalkerIsReleased
<1>1. IInv /\ TimeInv => QuietTalkerIsReleased
  <2> SUFFICES ASSUME IInv, TimeInv, NEW g \in TG PROVE gap[g] <= TalkerAudioTimeout + 1
    BY DEF QuietTalkerIsReleased
  <2>1. info[g].age \in 0 .. StaleAge /\ gap[g] \in 0 .. StaleAge + 1
    BY DEF IInv, TypeOK, TGInfo
  <2>2. gap[g] <= info[g].age
    BY DEF TimeInv, GapInv
  <2>3. QED
    BY <2>1, <2>2, TimeAssumption DEF StaleAge
<1>2. QED
  BY <1>1, TimesHold, PTL

(***************************************************************************)
(* Auto QSY requests to a group are at least AUTO_QSY_AFTER apart, for any *)
(* clients and times: when the TGInfo goes with its last client, so does   *)
(* the deadline, but the next talker arms it before it can be passed       *)
(* (setTalkerForTG, removeClientP).                                        *)
(***************************************************************************)
THEOREM QsyIsSpaced == Safe => AutoQsyIsSpaced
<1>1. IInv /\ TimeInv /\ [Next]_vars => [\A g \in qsyReq' : sinceQsy[g] >= AutoQsyAfter[g]]_vars
  BY TimeNext DEF Spaced
<1>2. QED
  BY <1>1, TimesHold, PTL DEF Safe, AutoQsyIsSpaced

(***************************************************************************)
(* A block within a session is lifted early by the operator only, else it  *)
(* is served in silence, whatever the squelch timeout and the operator set *)
(* in between (handleHeartbeat, udpMsgReceived).                           *)
(***************************************************************************)
THEOREM BlockTimeIsServed == Safe => BlockIsServed
<1>1. ASSUME IInv, TimeInv, [Next]_vars,
             NEW c \in online \cap online', block[c].time > 0, block'[c].time = 0
      PROVE  silent[c] >= block[c].time \/ 0 \in PtyBlocktime
  <2> USE DEF IInv, TypeOK
  <2>0. c \in Client
    BY <1>1
  <2>1. /\ block[c].time \in Nat /\ block[c].remaining \in Nat /\ silent[c] \in Nat
        /\ silent[c] + block[c].remaining >= block[c].time
    BY <1>1, <2>0 DEF TimeInv, BlockInv
  <2>2. CASE block'[c] = block[c]
    BY <1>1, <2>2
  <2>3. ASSUME NEW d \in Client, Connect(d) \/ Disconnect(d)
        PROVE  silent[c] >= block[c].time
    BY <1>1, <2>2, <2>3 DEF Connect, Disconnect
  <2>4. ASSUME NEW d \in Client, Audio(d)
        PROVE  silent[c] >= block[c].time
    BY <1>1, <2>0, <2>2, <2>4 DEF Audio, BlockRearmed
  <2>5. ASSUME NEW d \in Client, NEW t \in PtyBlocktime, PtyBlock(d, t)
        PROVE  silent[c] >= block[c].time \/ 0 \in PtyBlocktime
    BY <1>1, <2>0, <2>2, <2>5 DEF PtyBlock
  <2>6. ASSUME NEW d \in Client, Heartbeat(d)
        PROVE  silent[c] >= block[c].time
    <3>1. block'[c] = BlockServed(block[c])
      BY <1>1, <2>0, <2>2, <2>6 DEF Heartbeat
    <3>2. block[c].remaining = 0
      BY <1>1, <2>1, <3>1 DEF BlockServed
    <3>3. QED
      BY <2>1, <3>2
  <2>7. CASE CheckTimers
    BY <1>1, <2>0, <2>2, <2>7, TimeAssumption DEF CheckTimers, CheckTimersWith
  <2>8. CASE UNCHANGED vars
    BY <2>2, <2>8 DEF vars
  <2>9. QED
    BY <1>1, <2>2, <2>3, <2>4, <2>5, <2>6, <2>7, <2>8 DEF Next, SelectTG, Flush
<1>2. IInv /\ TimeInv /\ [Next]_vars =>
        [\A c \in online \cap online' :
            block[c].time > 0 /\ block'[c].time = 0
               => silent[c] >= block[c].time \/ 0 \in PtyBlocktime]_vars
  BY <1>1
<1>3. QED
  BY <1>2, TimesHold, PTL DEF Safe, BlockIsServed

(***************************************************************************)
(* A turn that ends without MsgTalkerStop is that of a talker who selected *)
(* another group and is still connected: a flush, a lost connection and    *)
(* both timeouts announce its end (switchTo, removeClientP, talkerUpdated).*)
(***************************************************************************)
THEOREM SilentStop == Safe => SilentStopIsQsy
<1>1. ASSUME IInv, [Next]_vars, NEW g \in TG, TalkerForTG(g) # NoTalker,
             TalkerForTG(g)' = NoTalker, announced'[g] # NoTalker
      PROVE  TalkerForTG(g) \in online' /\ currentTg'[TalkerForTG(g)] # g
  <2> USE DEF IInv, TypeOK
  <2>1. ~OnTalkerUpdated(info') /\ info'[g].talker # info[g].talker
    BY <1>1 DEF OnTalkerUpdated, TalkerForTG
  <2>2. PICK c \in Client, h \in TG \cup {NoTG} : SetTg(c, h) /\ c \in online'
    <3>1. info' # info /\ ~(\E d \in Client : Audio(d)) /\ ~(\E d \in Client : Flush(d))
          /\ ~CheckTimers /\ ~(\E d \in Client : Disconnect(d))
      BY <2>1 DEF Audio, Flush, SetTalkerForTG, CheckTimers, CheckTimersWith, Disconnect
    <3>2. \/ \E d \in Client : Connect(d)
          \/ \E d \in Client, h \in TG \cup {NoTG} : SelectTG(d, h)
      BY <1>1, <3>1 DEF Next, PtyBlock, Heartbeat, vars
    <3>3. QED
      BY <3>2, V1Assumption DEF Connect, SelectTG
  <2>3. g = clientMap[c] /\ g # SwitchedTo(c, h) /\ info[g].talker = c
    BY <1>1, <2>2, SetTgKeeps DEF TalkerForTG
  <2>4. currentTg'[c] = SwitchedTo(c, h)
    BY <1>1, <2>2, SetTgKeeps DEF IndicesAgree
  <2>5. QED
    BY <2>2, <2>3, <2>4 DEF TalkerForTG
<1>2. IInv /\ [Next]_vars =>
        [\A g \in TG :
            LET t == TalkerForTG(g) IN
            t # NoTalker /\ TalkerForTG(g)' = NoTalker /\ announced'[g] # NoTalker
               => t \in online' /\ currentTg'[t] # g]_vars
  BY <1>1
<1>3. QED
  BY <1>2, IInvInit, IInvNext, PTL DEF Safe, SilentStopIsQsy
=============================================================================

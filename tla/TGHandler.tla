----------------------------- MODULE TGHandler -----------------------------
(***************************************************************************)
(* Talk groups, talkers, and the two timers that end a talker's turn.      *)
(*                                                                         *)
(* The state is that of TGHandler (TGHandler.{h,cpp}) together with the    *)
(* part of ReflectorClient and Reflector that drives it: the talk group a  *)
(* client believes it has selected, the talker block of a client, and the  *)
(* handlers of the UDP audio and flush messages.  The reflector is one     *)
(* event loop, so one handler is one action.                               *)
(*                                                                         *)
(* Time is relative.  A time stamp is replaced by its age in ticks of the  *)
(* one second timer, and a deadline by the seconds left, so that no clock  *)
(* is needed and the state space is finite.                                *)
(***************************************************************************)
EXTENDS Integers, FiniteSets

CONSTANTS
    Client,              \* the nodes that may connect
    TG,                  \* talk group numbers other than 0
    NoTG,                \* talk group 0: "no talk group selected"
    NoTalker,            \* the null ReflectorClient pointer
    Allowed,             \* the pairs <<client, talk group>> that ALLOW lets pass
    V1Client,            \* clients with a protocol version below 2.0
    TgForV1Clients,      \* TG_FOR_V1_CLIENTS, or NoTG
    TalkerAudioTimeout,  \* TALKER_AUDIO_TIMEOUT, seconds
    SqlTimeout,          \* SQL_TIMEOUT, seconds, 0 when disabled
    SqlTimeoutBlocktime, \* SQL_TIMEOUT_BLOCKTIME, seconds
    AutoQsyAfter,        \* AUTO_QSY_AFTER of each talk group, 0 when disabled
    PtyBlocktime         \* the block times an operator may give: NODE BLOCK

ASSUME TGAssumption == NoTG \notin TG
ASSUME ClientAssumption == NoTalker \notin Client
ASSUME AllowedAssumption == Allowed \subseteq Client \X TG
ASSUME V1Assumption == V1Client \subseteq Client /\ TgForV1Clients \in TG \cup {NoTG}
ASSUME TimeAssumption ==
    /\ TalkerAudioTimeout \in Nat
    /\ SqlTimeout \in Nat
    /\ SqlTimeoutBlocktime \in Nat \ {0}   \* setSqlTimeoutBlocktime: max(t, 1)
    /\ AutoQsyAfter \in [TG -> Nat]
    /\ PtyBlocktime \subseteq Nat

VARIABLES
    online,     \* clients whose session is in STATE_CONNECTED
    currentTg,  \* ReflectorClient::m_current_tg
    clientMap,  \* TGHandler::m_client_map; NoTG for a client that is not in it
    info,       \* the TGInfo of each talk group; one without clients is not in m_id_map
    block,      \* m_blocktime and m_remaining_blocktime of each client
    announced,  \* the talker that the last MsgTalkerStart/Stop about a group left
    qsyReq,     \* the groups the last step sent MsgRequestQsy to
    gap,        \* history: ticks since the current talker's last audio frame
    silent,     \* history: heartbeats since a blocked client's last audio frame
    sinceQsy    \* history: ticks since the last auto QSY request to a group

vars == <<online, currentTg, clientMap, info, block, announced, qsyReq,
          gap, silent, sinceQsy>>

-----------------------------------------------------------------------------
(* Bounds of the relative times. *)

StaleAge == TalkerAudioTimeout + 1   \* every older time stamp acts the same
QsyUnset == -2                       \* auto_qsy_time = -1, never armed
QsyPassed == -1                      \* now > auto_qsy_time
LongestBlock(c) == block[c].time + 2

TGInfo == [clients : SUBSET Client, talker : Client \cup {NoTalker},
           age : 0 .. StaleAge, sql : 0 .. SqlTimeout, qsy : Int]

(* The constructor of TGInfo clears the time stamp, that is, it is ages old. *)
NewTGInfo == [clients |-> {}, talker |-> NoTalker, age |-> StaleAge,
              sql |-> 0, qsy |-> QsyUnset]

Unblocked == [time |-> 0, remaining |-> 0]
IsBlocked(c) == block[c].remaining > 0

(* udpMsgReceived: an audio frame starts the count of a block anew. *)
BlockNotRearmed(c) == block[c]
BlockRearmed(c) ==
    [block[c] EXCEPT !.remaining = IF block[c].time > 0 THEN block[c].time ELSE @]

(* The block test sees the count that the same frame has just re-armed. *)
NotBlockedBefore(c) == ~IsBlocked(c)
NotBlocked(c) == ~IsBlocked(c)'

(* handleHeartbeat: one second of a block that is in force is served. *)
BlockNeverLifted(b) == [b EXCEPT !.remaining = IF @ > 0 THEN @ - 1 ELSE @]
BlockServed(b) ==
    IF b.remaining = 0 THEN Unblocked ELSE [b EXCEPT !.remaining = @ - 1]

TalkerForTG(g) == info[g].talker

(***************************************************************************)
(* setTalkerForTG on TGInfo i of group g: the same talker only gets a new  *)
(* time stamp, another one does not get one.                               *)
(***************************************************************************)
AsksQsy(g, i, t) ==
    /\ AutoQsyAfter[g] > 0
    /\ t = NoTalker
    /\ i.talker # t
    /\ i.qsy < 0

QsyTimeOnlyArmedOnce(g, i, t) ==
    IF AutoQsyAfter[g] > 0 /\ i.qsy = QsyUnset THEN AutoQsyAfter[g] ELSE i.qsy

QsyTimeAfter(g, i, t) ==
    IF AutoQsyAfter[g] > 0 /\ (AsksQsy(g, i, t) \/ i.qsy = QsyUnset)
    THEN AutoQsyAfter[g] ELSE i.qsy

SetTalkerKeepingCount(g, i, t) ==
    IF t = i.talker
    THEN [i EXCEPT !.age = 0]
    ELSE [i EXCEPT !.talker = t,
                   !.sql = IF t # NoTalker THEN SqlTimeout ELSE @,
                   !.qsy = QsyTimeAfter(g, i, t)]

SetTalker(g, i, t) ==
    IF t = i.talker
    THEN [i EXCEPT !.age = 0]
    ELSE [i EXCEPT !.talker = t,
                   !.sql = IF t # NoTalker THEN SqlTimeout ELSE 0,
                   !.qsy = QsyTimeAfter(g, i, t)]

(***************************************************************************)
(* removeClientP: the talker leaves without a signal, and the TGInfo goes  *)
(* with its last client.                                                   *)
(***************************************************************************)
RemoveClientKeepingTalker(i, c) ==
    IF i.clients \ {c} = {} THEN NewTGInfo ELSE [i EXCEPT !.clients = @ \ {c}]

RemoveClientP(i, c) ==
    IF i.clients \ {c} = {}
    THEN NewTGInfo
    ELSE [i EXCEPT !.clients = @ \ {c},
                   !.talker = IF @ = c THEN NoTalker ELSE @]

ClientMapWithout(c) == [clientMap EXCEPT ![c] = NoTG]

(* allowTgSelection, and the group a selection of g ends in: refused, none. *)
AllowTgSelection(c, g) == <<c, g>> \in Allowed
SwitchedTo(c, g) == IF g # NoTG /\ AllowTgSelection(c, g) THEN g ELSE NoTG

(* setTg: the value that m_current_tg gets, 0 when g was refused. *)
CurrentTgAfter(c, g) == SwitchedTo(c, g)

(* The group is free, or the frame is the talker's next one. *)
MayTalkOver(c, g) == TRUE
MayTalk(c, g) == info[g].talker \in {NoTalker, c}

(* Reflector::onTalkerUpdated, wired to talkerUpdated: the broadcast. *)
OnTalkerStarted(newInfo) ==
    announced' = [g \in TG |-> IF newInfo[g].talker \notin {info[g].talker, NoTalker}
                               THEN newInfo[g].talker ELSE announced[g]]

OnTalkerUpdated(newInfo) ==
    announced' = [g \in TG |-> IF newInfo[g].talker # info[g].talker
                               THEN newInfo[g].talker ELSE announced[g]]

NoQsyRequest == qsyReq' = {} /\ UNCHANGED sinceQsy

(* The requestAutoQsy signal of a setTalkerForTG(g, t) call that is now due. *)
RequestAutoQsy(g, t) ==
    LET asked == {h \in {g} : AsksQsy(h, info[h], t)} IN
    /\ qsyReq' = asked
    /\ sinceQsy' = [h \in TG |-> IF h \in asked THEN 0 ELSE sinceQsy[h]]

(* A time gap is measured only while there is a talker. *)
GapAfter(newInfo, heard) ==
    gap' = [g \in TG |-> IF \/ newInfo[g].talker = NoTalker
                            \/ newInfo[g].talker # info[g].talker
                            \/ newInfo[g].talker \in heard
                         THEN 0 ELSE gap[g]]

-----------------------------------------------------------------------------
Init ==
    /\ online = {}
    /\ currentTg = [c \in Client |-> NoTG]
    /\ clientMap = [c \in Client |-> NoTG]
    /\ info = [g \in TG |-> NewTGInfo]
    /\ block = [c \in Client |-> Unblocked]
    /\ announced = [g \in TG |-> NoTalker]
    /\ qsyReq = {}
    /\ gap = [g \in TG |-> 0]
    /\ silent = [c \in Client |-> 0]
    /\ sinceQsy = [g \in TG |-> AutoQsyAfter[g] + 1]

(***************************************************************************)
(* switchTo(c, g), and on refusal switchTo(c, 0), as setTg calls them.     *)
(* The client is taken out of its group before ALLOW is consulted.         *)
(***************************************************************************)
SetTg(c, g) ==
    LET old == clientMap[c]
        new == SwitchedTo(c, g)
        left == [h \in TG |-> IF h = old /\ old # new
                              THEN RemoveClientP(info[h], c) ELSE info[h]]
    IN
    /\ info' = [h \in TG |-> IF h = new
                             THEN [left[h] EXCEPT !.clients = @ \cup {c}]
                             ELSE left[h]]
    /\ clientMap' = [clientMap EXCEPT ![c] = new]
    /\ currentTg' = [currentTg EXCEPT ![c] = CurrentTgAfter(c, g)]
    /\ GapAfter(info', {})

(* connectionAuthenticated: a fresh ReflectorClient enters STATE_CONNECTED. *)
Connect(c) ==
    /\ c \notin online
    /\ online' = online \cup {c}
    /\ block' = [block EXCEPT ![c] = Unblocked]
    /\ silent' = [silent EXCEPT ![c] = 0]
    /\ SetTg(c, IF c \in V1Client THEN TgForV1Clients ELSE NoTG)
    /\ NoQsyRequest
    /\ UNCHANGED announced

(* handleSelectTG *)
SelectTG(c, g) ==
    /\ c \in online
    /\ g # currentTg[c]
    /\ SetTg(c, g)
    /\ NoQsyRequest
    /\ UNCHANGED <<online, block, announced, silent>>

(* The talker of g becomes t by a call of setTalkerForTG(g, t). *)
SetTalkerForTG(g, t) ==
    /\ info' = [info EXCEPT ![g] = SetTalker(g, info[g], t)]
    /\ OnTalkerUpdated(info')
    /\ RequestAutoQsy(g, t)

(***************************************************************************)
(* A MsgUdpAudio from c.  udpMsgReceived re-arms a block before isBlocked  *)
(* is asked.  The frame that takes a free group is not relayed and leaves  *)
(* the time stamp as it was: the local variable talker is still null.      *)
(***************************************************************************)
Audio(c) ==
    LET g == clientMap[c] IN
    /\ c \in online
    /\ block' = [block EXCEPT ![c] = BlockRearmed(c)]
    /\ silent' = [silent EXCEPT ![c] = 0]
    /\ IF NotBlocked(c) /\ g # NoTG /\ MayTalk(c, g)
       THEN SetTalkerForTG(g, c) /\ GapAfter(info', {c})
       ELSE NoQsyRequest /\ UNCHANGED <<info, announced, gap>>
    /\ UNCHANGED <<online, currentTg, clientMap>>

(* A MsgUdpFlushSamples from c. *)
Flush(c) ==
    LET g == clientMap[c] IN
    /\ c \in online
    /\ g # NoTG
    /\ TalkerForTG(g) = c
    /\ SetTalkerForTG(g, NoTalker)
    /\ GapAfter(info', {})
    /\ UNCHANGED <<online, currentTg, clientMap, block, silent>>

(* clientDisconnected: TGHandler::removeClient and the end of the object. *)
Disconnect(c) ==
    LET g == clientMap[c]
        stopped(h) == IF info[h].talker = c THEN SetTalker(h, info[h], NoTalker) ELSE info[h]
        left == [h \in TG |-> IF h = g THEN RemoveClientP(stopped(h), c) ELSE info[h]]
    IN
    /\ c \in online
    /\ online' = online \ {c}
    /\ currentTg' = [currentTg EXCEPT ![c] = NoTG]
    /\ clientMap' = ClientMapWithout(c)
    /\ block' = [block EXCEPT ![c] = Unblocked]
    /\ silent' = [silent EXCEPT ![c] = 0]
    /\ info' = left
    /\ OnTalkerUpdated(left)
    /\ GapAfter(left, {})
    /\ IF g # NoTG /\ info[g].talker = c THEN RequestAutoQsy(g, NoTalker) ELSE NoQsyRequest

(* The operator command NODE BLOCK <callsign> <seconds>. *)
PtyBlock(c, t) ==
    /\ c \in online
    /\ block' = [block EXCEPT ![c] = [time |-> t, remaining |-> t]]
    /\ silent' = [silent EXCEPT ![c] = 0]
    /\ NoQsyRequest
    /\ UNCHANGED <<online, currentTg, clientMap, info, announced, gap>>

(* handleHeartbeat, one second timer of the client: the block counts down. *)
Heartbeat(c) ==
    /\ c \in online
    /\ block[c].time > 0
    /\ block' = [block EXCEPT ![c] = BlockServed(block[c])]
    /\ silent' = [silent EXCEPT ![c] = IF block'[c].time = 0 THEN 0
                                       ELSE IF @ < LongestBlock(c) THEN @ + 1 ELSE @]
    /\ NoQsyRequest
    /\ UNCHANGED <<online, currentTg, clientMap, info, announced, gap>>

-----------------------------------------------------------------------------
(***************************************************************************)
(* checkTimers, once a second over every group.  A frame fell somewhere    *)
(* between two ticks and a tick may be late, so a frame that is n ticks    *)
(* old is n-1 to n seconds old: near the limit either outcome is possible. *)
(***************************************************************************)
MustTimeOutLater(g) == TalkerForTG(g) # NoTalker /\ info[g].age > TalkerAudioTimeout + 1
MayTimeOut(g) == TalkerForTG(g) # NoTalker /\ info[g].age >= TalkerAudioTimeout
MustTimeOut(g) == TalkerForTG(g) # NoTalker /\ info[g].age > TalkerAudioTimeout

OneSecondLater(i) ==
    [i EXCEPT !.age = IF @ < StaleAge THEN @ + 1 ELSE @,
              !.qsy = IF @ >= 0 THEN @ - 1 ELSE @]

(* The first half of the loop body: the audio timeout. *)
AudioChecked(g, late) ==
    LET i == OneSecondLater(info[g]) IN
    IF g \in late THEN SetTalker(g, i, NoTalker) ELSE i

(* The second half, the squelch timeout, is due for the TGInfo it is given. *)
SqlTimesOutAtZero(i) == i.sql = 0
SqlTimesOut(i) == i.sql = 1

TimersChecked(g, late) ==
    LET i == AudioChecked(g, late) IN
    IF TalkerForTG(g) = NoTalker \/ i.sql = 0 THEN i
    ELSE IF SqlTimesOut(i)
         THEN SetTalker(g, [i EXCEPT !.sql = 0], NoTalker)
         ELSE [i EXCEPT !.sql = @ - 1]

(* The talker that the second half dereferences to block it. *)
SqlBlocked(late) ==
    {AudioChecked(g, late).talker : g \in
        {h \in TG : TalkerForTG(h) # NoTalker /\ SqlTimesOut(AudioChecked(h, late))}}

TickQsy(late) ==
    LET asked == {g \in TG : /\ TimersChecked(g, late).talker # TalkerForTG(g)
                             /\ AsksQsy(g, OneSecondLater(info[g]), NoTalker)}
    IN
    /\ qsyReq' = asked
    /\ sinceQsy' = [g \in TG |-> IF g \in asked THEN 0
                                 ELSE IF sinceQsy[g] <= AutoQsyAfter[g]
                                      THEN sinceQsy[g] + 1 ELSE sinceQsy[g]]

CheckTimersWith(late) ==
    /\ info' = [g \in TG |-> TimersChecked(g, late)]
    /\ block' = [c \in Client |->
                    IF c \in SqlBlocked(late)
                    THEN [time |-> SqlTimeoutBlocktime, remaining |-> SqlTimeoutBlocktime]
                    ELSE block[c]]
    /\ silent' = [c \in Client |-> IF c \in SqlBlocked(late) THEN 0 ELSE silent[c]]
    /\ gap' = [g \in TG |-> IF info'[g].talker = NoTalker THEN 0
                            ELSE IF gap[g] <= StaleAge THEN gap[g] + 1 ELSE gap[g]]
    /\ OnTalkerUpdated(info')
    /\ TickQsy(late)
    /\ UNCHANGED <<online, currentTg, clientMap>>

CheckTimers ==
    \E late \in SUBSET {g \in TG : MayTimeOut(g)} :
        /\ {g \in TG : MustTimeOut(g)} \subseteq late
        /\ CheckTimersWith(late)

-----------------------------------------------------------------------------
Next ==
    \/ \E c \in Client : Connect(c)
    \/ \E c \in Client, g \in TG \cup {NoTG} : SelectTG(c, g)
    \/ \E c \in Client : Audio(c)
    \/ \E c \in Client : Flush(c)
    \/ \E c \in Client : Disconnect(c)
    \/ \E c \in Client, t \in PtyBlocktime : PtyBlock(c, t)
    \/ \E c \in Client : Heartbeat(c)
    \/ CheckTimers

(* The timers of the event loop keep firing; nothing else is bound to come. *)
Fairness ==
    /\ WF_vars(CheckTimers)
    /\ \A c \in Client : WF_vars(Heartbeat(c))

Safe == Init /\ [][Next]_vars
Spec == Safe /\ Fairness

-----------------------------------------------------------------------------
(* The types of the variables; the relative times stay within their bounds. *)
TypeOK ==
    /\ online \in SUBSET Client
    /\ currentTg \in [Client -> TG \cup {NoTG}]
    /\ clientMap \in [Client -> TG \cup {NoTG}]
    /\ info \in [TG -> TGInfo]
    /\ block \in [Client -> [time : Nat, remaining : Nat]]
    /\ announced \in [TG -> Client \cup {NoTalker}]
    /\ qsyReq \in SUBSET TG
    /\ gap \in [TG -> 0 .. StaleAge + 1]
    /\ silent \in [Client -> Nat]
    /\ sinceQsy \in [TG -> Nat]

(***************************************************************************)
(* The two indices and the client's own idea of its group agree: a client  *)
(* is in the client set of exactly the group that m_client_map and its own *)
(* m_current_tg name (switchTo refused by ALLOW included).                 *)
(***************************************************************************)
IndicesAgree ==
    /\ currentTg = clientMap
    /\ \A c \in Client, g \in TG : c \in info[g].clients <=> clientMap[c] = g

(* Only connected clients are in a group: no dangling ReflectorClient. *)
NoDanglingClient == \A c \in Client : clientMap[c] # NoTG => c \in online

(* The talker of a group is one of its clients, so it is not dangling either. *)
TalkerIsMember ==
    \A g \in TG : TalkerForTG(g) # NoTalker => TalkerForTG(g) \in info[g].clients

(***************************************************************************)
(* One membership in three places: the client set and the client map of    *)
(* the handler and m_current_tg of the client agree through selections,    *)
(* refusals and disconnections, and neither a member nor a talker is a     *)
(* client that is gone.                                                    *)
(***************************************************************************)
MembershipAgrees == TypeOK /\ IndicesAgree /\ NoDanglingClient /\ TalkerIsMember

(***************************************************************************)
(* checkTimers dereferences the talker of a group after the audio timeout  *)
(* may have cleared it: it never dereferences the null pointer.            *)
(***************************************************************************)
NoNullTalkerBlocked ==
    \A late \in SUBSET {g \in TG : MayTimeOut(g)} : NoTalker \notin SqlBlocked(late)

(* A talker who has gone quiet is off the air soon after the allowed gap. *)
QuietTalkerIsReleased == \A g \in TG : gap[g] <= TalkerAudioTimeout + 1

(***************************************************************************)
(* A turn that ends without MsgTalkerStop ended by the talker's selecting  *)
(* another group, never by a timer, a flush or a lost connection.          *)
(***************************************************************************)
SilentStopIsQsy ==
    [][\A g \in TG :
         LET t == TalkerForTG(g) IN
         t # NoTalker /\ TalkerForTG(g)' = NoTalker /\ announced'[g] # NoTalker
            => t \in online' /\ currentTg'[t] # g]_vars

(***************************************************************************)
(* A client does not get a turn while a block is in force, even one whose  *)
(* count has reached zero and that the next heartbeat would lift.          *)
(***************************************************************************)
BlockedNeverTakesTurn ==
    [][\A g \in TG, c \in Client :
         TalkerForTG(g) # c /\ TalkerForTG(g)' = c => block[c].time = 0]_vars

(***************************************************************************)
(* Within a session a block that the operator does not lift (NODE BLOCK    *)
(* with 0 seconds) ends only when the client has been silent for the block *)
(* time since its last frame.                                              *)
(***************************************************************************)
BlockIsServed ==
    [][\A c \in online \cap online' :
         block[c].time > 0 /\ block'[c].time = 0
            => silent[c] >= block[c].time \/ 0 \in PtyBlocktime]_vars

(* Two auto QSY requests to a group are at least AUTO_QSY_AFTER apart, also
   when the group was empty, and its TGInfo gone, in between. *)
AutoQsyIsSpaced ==
    [][\A g \in qsyReq' : sinceQsy[g] >= AutoQsyAfter[g]]_vars

(* With a squelch timeout no turn lasts for ever, however much is said. *)
EveryTurnEnds ==
    SqlTimeout > 0 =>
        \A g \in TG, c \in Client : TalkerForTG(g) = c ~> TalkerForTG(g) # c

(* A client stays blocked for ever only if it keeps sending audio. *)
BlockedForEverOnlyIfSending ==
    \A c \in Client : <>[](block[c].time > 0) => []<>(silent[c] = 0)

(* The promise of TalkGroups, kept by the variables of this module. *)
TalkGroup == INSTANCE TalkGroups WITH tgOf <- clientMap,
                                      talker <- [g \in TG |-> info[g].talker]
ImplementsTalkGroups == TalkGroup!Spec

=============================================================================

------------------------ MODULE ClientSessionProofs ------------------------
(***************************************************************************)
(* The node list and the callsigns, for any number of connections and any  *)
(* callsigns.                                                              *)
(***************************************************************************)
EXTENDS ClientSession, TLAPS

(***************************************************************************)
(* The inductive invariant.  A step that removes a client takes its        *)
(* callsign off the node list only because no other client has it, and one *)
(* that names a client takes none off only because it had none before;     *)
(* the counters of a running heartbeat have not reached zero.              *)
(***************************************************************************)
Nameless == Login \cup {"none", "gone"}
LoginIsNameless == \A c \in Con : session[c].state \in Nameless => session[c].callsign = NoCall
BeatingCounts == \A c \in Con :
    session[c].beating => session[c].rx > 0 /\ session[c].udp > 0

IInv == /\ TypeOK /\ LookupFinds /\ NodeListsAgree /\ ClosingIsLeaving
        /\ LoginIsNameless /\ BeatingCounts

(* What is asked of the record that a step leaves for one client. *)
Sound(r) ==
    /\ r \in Session
    /\ r.state \in Nameless => r.callsign = NoCall
    /\ r.beating => r.rx > 0 /\ r.udp > 0
    /\ r.closing => r.state = "leaving"

LEMMA SoundSessions ==
    ASSUME IInv, NEW c \in Con
    PROVE  Sound(session[c])
BY DEF IInv, TypeOK, LoginIsNameless, BeatingCounts, ClosingIsLeaving, InState, Sound, Nameless

LEMMA IInvInit == Init => IInv
<1> SUFFICES ASSUME Init PROVE IInv
  OBVIOUS
<1>1. TypeOK
  BY SessionAssumption DEF Init, TypeOK, Session, State, Login, Nameless, Absent
<1>2. LookupFinds
  BY SessionAssumption DEF Init, LookupFinds, Absent
<1>3. NodeListsAgree /\ ClosingIsLeaving /\ LoginIsNameless /\ BeatingCounts
  BY DEF Init, NodeListsAgree, ClosingIsLeaving, LoginIsNameless, BeatingCounts,
         InState, Absent, Login, Nameless
<1> QED BY <1>1, <1>2, <1>3 DEF IInv

-----------------------------------------------------------------------------
(* A step that changes one client, but neither its callsign nor the other  *)
(* variables, keeps the invariant if what it leaves is sound.              *)
LEMMA QuietStep ==
    ASSUME IInv, NEW c \in Con, NEW r, Sound(r),
           r.callsign = session[c].callsign,
           r.state = "connected" => InState(c, "connected"),
           session' = [session EXCEPT ![c] = r],
           UNCHANGED <<byCallsign, known>>, dead' \in SUBSET Con
    PROVE  IInv'
<1> USE DEF IInv
<1>1. TypeOK'
  BY DEF TypeOK, Sound
<1>2. \A d \in Con : session'[d].callsign = session[d].callsign
  BY DEF TypeOK
<1>3. LookupFinds'
  BY <1>2 DEF LookupFinds
<1>4. NodeList' = NodeList
  BY <1>2 DEF NodeList, Named
<1>5. \A d \in Con : InState(d, "connected")' => InState(d, "connected")
  BY DEF InState, TypeOK
<1>6. NodeListsAgree'
  BY <1>4, <1>5 DEF NodeListsAgree
<1>7. \A d \in Con : Sound(session'[d])
  BY SoundSessions DEF TypeOK
<1>8. ClosingIsLeaving' /\ LoginIsNameless' /\ BeatingCounts'
  BY <1>7 DEF ClosingIsLeaving, LoginIsNameless, BeatingCounts, InState, Sound
<1> QED BY <1>1, <1>3, <1>6, <1>8

(* Removing a client takes its callsign, and no other, off every list. *)
LEMMA RemovedKeeps ==
    ASSUME IInv, NEW c \in Con, Removed(c)
    PROVE  IInv'
<1> USE SessionAssumption DEF IInv
<1> DEFINE cs == session[c].callsign
<1>1. session' = [session EXCEPT ![c] = Absent("gone")]
  BY DEF Removed
<1>2. Sound(Absent("gone"))
  BY DEF Sound, Absent, Session, State, Login, Nameless
<1>3. session'[c].callsign = NoCall
  BY <1>1 DEF TypeOK, Absent
<1>4. \A d \in Con \ {c} : session'[d] = session[d]
  BY <1>1 DEF TypeOK
<1>5. TypeOK'
  <2>1. session' \in [Con -> Session]
    BY <1>1, <1>2 DEF TypeOK, Sound
  <2>2. byCallsign' \in [Callsign -> Con \cup {NoCon}]
    BY DEF Removed, TypeOK
  <2>3. known' \in [Con -> SUBSET Callsign] /\ dead' \in SUBSET Con
    BY DEF Removed, TypeOK, ToldThatLeft
  <2> QED BY <2>1, <2>2, <2>3 DEF TypeOK
<1>6. LookupFinds'
  <2> SUFFICES ASSUME NEW x \in Callsign, NEW d \in Con
               PROVE  byCallsign'[x] = d <=> session'[d].callsign = x
    BY DEF LookupFinds
  <2>1. byCallsign'[x] = IF x = cs THEN NoCon ELSE byCallsign[x]
    BY DEF Removed
  <2>2. byCallsign[x] = d <=> session[d].callsign = x
    BY DEF LookupFinds
  <2>3. byCallsign[x] = c <=> x = cs
    BY DEF LookupFinds
  <2>4. CASE d = c
    BY <2>1, <2>3, <2>4, <1>3
  <2>5. CASE d # c
    BY <2>1, <2>2, <2>3, <2>5, <1>4
  <2> QED BY <2>4, <2>5
<1>7. NodeList' = NodeList \ {cs}
  <2>1. \A d \in Con \ {c} : session[d].callsign # NoCall => session[d].callsign # cs
    BY DEF LookupFinds, TypeOK, Session
  <2>2. \A x : x \in NodeList <=> \E d \in Con : session[d].callsign = x /\ x # NoCall
    BY DEF NodeList, Named
  <2>3. \A x : x \in NodeList' <=> \E d \in Con : session'[d].callsign = x /\ x # NoCall
    BY DEF NodeList, Named
  <2>4. \A x : x \in NodeList' <=> x \in NodeList /\ x # cs
    BY <2>1, <2>2, <2>3, <1>3, <1>4
  <2> QED BY <2>4
<1>8. NodeListsAgree'
  <2> SUFFICES ASSUME NEW d \in Con, InState(d, "connected")'
               PROVE  known'[d] = NodeList'
    BY DEF NodeListsAgree
  <2>1. d # c
    BY <1>1 DEF InState, Absent, TypeOK
  <2>2. InState(d, "connected")
    BY <2>1, <1>4 DEF InState
  <2>3. known'[d] = known[d] \ {cs}
    BY <2>1, <2>2 DEF Removed, ToldThatLeft
  <2> QED BY <2>2, <2>3, <1>7 DEF NodeListsAgree
<1>9. \A d \in Con : Sound(session'[d])
  BY <1>1, <1>2, SoundSessions DEF TypeOK
<1>10. ClosingIsLeaving' /\ LoginIsNameless' /\ BeatingCounts'
  BY <1>9 DEF ClosingIsLeaving, LoginIsNameless, BeatingCounts, InState, Sound
<1> QED BY <1>5, <1>6, <1>8, <1>10

(* A client that logs in gets a callsign that nobody else has. *)
LEMMA AuthenticatedKeeps ==
    ASSUME IInv, NEW c \in Con, NEW s, NEW cs \in Callsign,
           Sound(s), s.state \in Login, session[c].callsign = NoCall,
           Authenticated(c, s, cs)
    PROVE  IInv'
<1> USE SessionAssumption DEF IInv
<1>1. s.callsign = NoCall /\ s.closing = FALSE
  BY DEF Sound, Login, Nameless, Session
<1>2. CASE cs \in NodeList
  <2> DEFINE r == ErrorSent(s)
  <2>1. session' = [session EXCEPT ![c] = r] /\ UNCHANGED <<byCallsign, known, dead>>
    BY <1>2 DEF Authenticated, NobodyTold
  <2>2. Sound(r) /\ r.callsign = session[c].callsign /\ r.state # "connected"
    BY <1>1 DEF Sound, ErrorSent, Session, State, Login, Nameless
  <2>3. dead' \in SUBSET Con
    BY <2>1 DEF TypeOK
  <2> HIDE DEF r
  <2> QED BY <2>1, <2>2, <2>3, QuietStep
<1>3. CASE cs \notin NodeList
  <2> DEFINE r == [s EXCEPT !.state = "connected", !.callsign = cs]
  <2>1. /\ session' = [session EXCEPT ![c] = r]
        /\ byCallsign' = [byCallsign EXCEPT ![cs] = c]
        /\ known' = [d \in Con |-> IF d = c THEN NodeList \cup {cs}
                                   ELSE IF InState(d, "connected") THEN known[d] \cup {cs}
                                   ELSE known[d]]
        /\ dead' = dead
    BY <1>3 DEF Authenticated
  <2>2. Sound(r) /\ r.callsign = cs
    BY <1>1 DEF Sound, Session, State, Login, Nameless
  <2> HIDE DEF r
  <2>3. session'[c] = r /\ \A d \in Con \ {c} : session'[d] = session[d]
    BY <2>1 DEF TypeOK
  <2>4. NodeList \in SUBSET Callsign
    BY DEF NodeList, Named, TypeOK, Session
  <2>5. TypeOK'
    BY <2>1, <2>2, <2>4 DEF TypeOK, Sound
  <2>6. \A d \in Con : session[d].callsign # cs
    BY <1>3 DEF NodeList, Named
  <2>7. LookupFinds'
    <3> SUFFICES ASSUME NEW x \in Callsign, NEW d \in Con
                 PROVE  byCallsign'[x] = d <=> session'[d].callsign = x
      BY DEF LookupFinds
    <3>1. byCallsign'[x] = IF x = cs THEN c ELSE byCallsign[x]
      BY <2>1 DEF TypeOK
    <3>2. byCallsign[x] = d <=> session[d].callsign = x
      BY DEF LookupFinds
    <3>3. CASE d = c
      BY <2>2, <2>3, <3>1, <3>2, <3>3
    <3>4. CASE d # c
      BY <2>3, <2>6, <3>1, <3>2, <3>4
    <3> QED BY <3>3, <3>4
  <2>8. NodeList' = NodeList \cup {cs}
    <3>1. \A x : x \in NodeList <=> \E d \in Con : session[d].callsign = x /\ x # NoCall
      BY DEF NodeList, Named
    <3>2. \A x : x \in NodeList' <=> \E d \in Con : session'[d].callsign = x /\ x # NoCall
      BY DEF NodeList, Named
    <3>3. \A x : x \in NodeList' <=> x \in NodeList \/ x = cs
      BY <3>1, <3>2, <2>2, <2>3
    <3> QED BY <3>3
  <2>9. NodeListsAgree'
    <3> SUFFICES ASSUME NEW d \in Con, InState(d, "connected")'
                 PROVE  known'[d] = NodeList'
      BY DEF NodeListsAgree
    <3>1. CASE d = c
      BY <2>1, <2>8, <3>1
    <3>2. CASE d # c
      <4>1. InState(d, "connected")
        BY <2>3, <3>2 DEF InState
      <4>2. known'[d] = known[d] \cup {cs}
        BY <2>1, <3>2, <4>1
      <4> QED BY <2>8, <4>1, <4>2 DEF NodeListsAgree
    <3> QED BY <3>1, <3>2
  <2>10. \A d \in Con : Sound(session'[d])
    BY <2>2, <2>3, SoundSessions
  <2>11. ClosingIsLeaving' /\ LoginIsNameless' /\ BeatingCounts'
    BY <2>10 DEF ClosingIsLeaving, LoginIsNameless, BeatingCounts, InState, Sound
  <2> QED BY <2>5, <2>7, <2>9, <2>11
<1> QED BY <1>2, <1>3

-----------------------------------------------------------------------------
(* What the helpers leave of a sound session. *)
LEMMA HeardSound ==
    ASSUME NEW s, Sound(s)
    PROVE  /\ Sound(Heard(s))
           /\ Heard(s).callsign = s.callsign
           /\ Heard(s).state = s.state
           /\ Heard(s).closing = s.closing
BY SessionAssumption DEF Sound, Heard, Session

LEMMA ErrorSound ==
    ASSUME NEW s \in Session
    PROVE  /\ Sound(ErrorSent(s))
           /\ ErrorSent(s).callsign = s.callsign
           /\ ErrorSent(s).state = "leaving"
BY DEF Sound, ErrorSent, Session, State, Login, Nameless

(* A record that differs from a sound one in its state. *)
Moved(h, r, s) ==
    /\ r \in Session
    /\ r.state = s /\ r.callsign = h.callsign /\ r.beating = h.beating
    /\ r.rx = h.rx /\ r.udp = h.udp /\ r.closing = h.closing

LEMMA MovedSound ==
    ASSUME NEW h, Sound(h), h.closing = FALSE, NEW s \in Login \cup {"leaving"},
           s \in Login => h.callsign = NoCall,
           NEW r, Moved(h, r, s)
    PROVE  Sound(r)
<1>1. s \in Nameless => s \in Login
  BY DEF Nameless, Login
<1> QED BY <1>1 DEF Sound, Moved

LEMMA RefusedKeeps ==
    ASSUME IInv, NEW c \in Con, Refused(c), NobodyTold
    PROVE  IInv'
<1> DEFINE r == ErrorSent(Heard(session[c]))
<1>1. session' = [session EXCEPT ![c] = r]
  BY DEF Refused
<1>2. Sound(r) /\ r.callsign = session[c].callsign /\ r.state = "leaving"
  BY SoundSessions, HeardSound, ErrorSound DEF Sound
<1>3. UNCHANGED <<byCallsign, known>> /\ dead' \in SUBSET Con
  BY DEF NobodyTold, IInv, TypeOK
<1> HIDE DEF r
<1> QED BY <1>1, <1>2, <1>3, QuietStep

LEMMA MovesKeeps ==
    ASSUME IInv, NEW c \in Con, NEW s \in Login \cup {"leaving"},
           Listens(c), s \in Login => session[c].state \in Login,
           MovesTo(c, s), NobodyTold
    PROVE  IInv'
<1> DEFINE r == [Heard(session[c]) EXCEPT !.state = s]
<1>1. session' = [session EXCEPT ![c] = r]
  BY DEF MovesTo
<1>2. Sound(session[c]) /\ session[c].closing = FALSE
  BY SoundSessions DEF Sound, Listens, InState, Session
<1>3. Sound(r) /\ r.callsign = session[c].callsign /\ r.state = s
  <2> DEFINE h == Heard(session[c])
  <2>1. Sound(h) /\ h.closing = FALSE /\ h.callsign = session[c].callsign
    BY <1>2, HeardSound
  <2>2. s \in Login => h.callsign = NoCall
    BY <2>1, <1>2 DEF Sound, Nameless
  <2>3. h \in Session /\ s \in State
    BY <2>1 DEF Sound, State
  <2>4. r = [h EXCEPT !.state = s]
    OBVIOUS
  <2> HIDE DEF h, r
  <2>5. Moved(h, r, s)
    BY <2>3, <2>4 DEF Moved, Session
  <2>6. Sound(r)
    BY <2>1, <2>2, <2>5, MovedSound
  <2> QED BY <2>1, <2>5, <2>6 DEF Moved
<1>4. UNCHANGED <<byCallsign, known>> /\ dead' \in SUBSET Con
  BY DEF NobodyTold, IInv, TypeOK
<1>5. s # "connected"
  BY DEF Login
<1> HIDE DEF r
<1> QED BY <1>1, <1>3, <1>4, <1>5, QuietStep

LEMMA IInvNext == IInv /\ [Next]_vars => IInv'
<1> SUFFICES ASSUME IInv, [Next]_vars PROVE IInv'
  OBVIOUS
<1> USE DEF NobodyTold
<1>0. \A c \in Con : Sound(session[c]) /\ session[c] \in Session
  BY SoundSessions DEF Sound
<1>d. dead \in SUBSET Con
  BY DEF IInv, TypeOK
<1>1. ASSUME NEW c \in Con, ClientConnected(c) PROVE IInv'
  <2>1. session' = [session EXCEPT ![c] = Fresh] /\ UNCHANGED <<byCallsign, known, dead>>
    BY <1>1 DEF ClientConnected
  <2>2. session[c].callsign = NoCall
    BY <1>0, <1>1 DEF ClientConnected, InState, Sound, Nameless
  <2>3. Sound(Fresh) /\ Fresh.callsign = NoCall /\ Fresh.state = "proto"
    BY SessionAssumption DEF Sound, Fresh, Session, State, Login, Nameless
  <2> QED BY <2>1, <2>2, <2>3, <1>d, QuietStep
<1>2. ASSUME NEW c \in Con, Heartbeat(c) PROVE IInv'
  <2> DEFINE r == Heard(session[c])
  <2>1. session' = [session EXCEPT ![c] = r] /\ UNCHANGED <<byCallsign, known, dead>>
    BY <1>2 DEF Heartbeat
  <2>2. Sound(r) /\ r.callsign = session[c].callsign /\ r.state = session[c].state
    BY <1>0, HeardSound
  <2> HIDE DEF r
  <2> QED BY <2>1, <2>2, <1>d, QuietStep DEF InState
<1>3. ASSUME NEW c \in Con, ProtoVer(c) PROVE IInv'
  <2>1. CASE Refused(c)
    BY <1>3, <2>1, RefusedKeeps DEF ProtoVer
  <2>2. ASSUME NEW s \in {"proto", "encryption", "auth"}, InState(c, "proto"), MovesTo(c, s)
        PROVE  IInv'
    <3>1. s \in Login /\ session[c].state \in Login /\ Listens(c)
      BY <1>3, <2>2 DEF Login, Nameless, InState, ProtoVer, FrameReceived
    <3> QED BY <1>3, <2>2, <3>1, MovesKeeps DEF ProtoVer
  <2> QED BY <1>3, <2>1, <2>2 DEF ProtoVer
<1>4. ASSUME NEW c \in Con, StartEncryption(c) PROVE IInv'
  <2> DEFINE r == [Heard(session[c]) EXCEPT !.state = "ssl", !.handshake = TRUE]
  <2>1. session' = [session EXCEPT ![c] = r] /\ UNCHANGED <<byCallsign, known, dead>>
    BY <1>4 DEF StartEncryption
  <2>2. session[c].state = "encryption"
    BY <1>4 DEF StartEncryption, InState
  <2>3. Sound(r) /\ r.callsign = session[c].callsign /\ r.state = "ssl"
    <3> DEFINE h == Heard(session[c])
    <3>1. Sound(h) /\ h.state = "encryption" /\ h.callsign = session[c].callsign
      BY <1>0, <2>2, HeardSound
    <3>2. h.closing = FALSE /\ h.callsign = NoCall
      BY <3>1 DEF Sound, Session, Nameless, Login
    <3>3. r = [h EXCEPT !.state = "ssl", !.handshake = TRUE]
      OBVIOUS
    <3>4. "ssl" \in Login /\ "ssl" \in State /\ h \in Session
      BY <3>1 DEF Login, State, Sound
    <3> HIDE DEF h, r
    <3>5. Moved(h, r, "ssl")
      BY <3>3, <3>4 DEF Moved, Session
    <3>6. Sound(r)
      BY <3>1, <3>2, <3>4, <3>5, MovedSound
    <3> QED BY <3>1, <3>5, <3>6 DEF Moved
  <2> HIDE DEF r
  <2> QED BY <2>1, <2>3, <1>d, QuietStep
<1>5. ASSUME NEW c \in Con,
             BadEncryption(c) \/ ErrorReceived(c) \/ DiscTimeout(c) \/ Closed(c)
      PROVE  IInv'
  BY <1>5, RemovedKeeps DEF BadEncryption, ErrorReceived, DiscTimeout, Closed
<1>6. ASSUME NEW c \in Con, SslConnectionReady(c) PROVE IInv'
  <2> DEFINE s == [session[c] EXCEPT !.handshake = FALSE]
  <2>1. CASE Removed(c)
    BY <2>1, RemovedKeeps
  <2>2. CASE InState(c, "ssl")
    <3>1. session[c].state = "ssl" /\ session[c].callsign = NoCall
      BY <1>0, <2>2 DEF InState, Sound, Login, Nameless
    <3>2. Sound(s) /\ s.state \in Login
      BY <1>0, <3>1 DEF Sound, Session, Login, Nameless
    <3>3. ASSUME NEW cs \in Callsign, Authenticated(c, s, cs) PROVE IInv'
      <4> HIDE DEF s
      <4> QED BY <3>1, <3>2, <3>3, AuthenticatedKeeps
    <3>4. ASSUME session' = [session EXCEPT ![c] = [s EXCEPT !.state = "csr"]], NobodyTold
          PROVE  IInv'
      <4> DEFINE r == [s EXCEPT !.state = "csr"]
      <4>1. Sound(r) /\ r.callsign = session[c].callsign /\ r.state = "csr"
        BY <1>0, <3>1 DEF Sound, Session, State, Login, Nameless
      <4> HIDE DEF r
      <4> QED BY <3>4, <4>1, <1>d, QuietStep DEF r
    <3> QED BY <1>6, <2>1, <2>2, <3>3, <3>4 DEF SslConnectionReady
  <2> QED BY <1>6, <2>1, <2>2 DEF SslConnectionReady
<1>7. ASSUME NEW c \in Con, AuthResponse(c) PROVE IInv'
  <2>1. CASE Refused(c) /\ NobodyTold
    BY <2>1, RefusedKeeps
  <2>2. ASSUME NEW cs \in Callsign, InState(c, "auth"),
               Authenticated(c, Heard(session[c]), cs)
        PROVE  IInv'
    <3> DEFINE s == Heard(session[c])
    <3>1. Sound(s) /\ s.state \in Login /\ session[c].callsign = NoCall
      BY <1>0, <2>2, HeardSound DEF InState, Login, Nameless, Sound
    <3> HIDE DEF s
    <3> QED BY <2>2, <3>1, AuthenticatedKeeps DEF s
  <2> QED BY <1>7, <2>1, <2>2 DEF AuthResponse
<1>8. ASSUME NEW c \in Con, ClientCsr(c) PROVE IInv'
  <2> USE <1>8 DEF ClientCsr, FrameReceived
  <2>1. CASE CsrRefused(c)
    BY <2>1, RefusedKeeps DEF CsrRefused
  <2>2. CASE MovesTo(c, "leaving")
    BY <2>2, MovesKeeps DEF Login, Nameless
  <2>3. CASE InState(c, "csr") /\ MovesTo(c, "auth")
    BY <2>3, MovesKeeps DEF Login, Nameless, InState
  <2> QED BY <2>1, <2>2, <2>3
<1>9. ASSUME NEW c \in Con, RenewClientCertificate(c) PROVE IInv'
  <2> DEFINE r == [session[c] EXCEPT !.state = "leaving"]
  <2>1. session' = [session EXCEPT ![c] = r] /\ UNCHANGED <<byCallsign, known, dead>>
    BY <1>9 DEF RenewClientCertificate
  <2>2. Sound(r) /\ r.callsign = session[c].callsign /\ r.state = "leaving"
    BY <1>0 DEF Sound, Session, State, Login, Nameless
  <2> HIDE DEF r
  <2> QED BY <2>1, <2>2, <1>d, QuietStep
<1>10. ASSUME NEW c \in Con, UdpReceived(c) PROVE IInv'
  <2> DEFINE r == [session[c] EXCEPT !.udp = UdpReset]
  <2>1. session' = [session EXCEPT ![c] = r] /\ UNCHANGED <<byCallsign, known, dead>>
    BY <1>10 DEF UdpReceived
  <2>2. Sound(r) /\ r.callsign = session[c].callsign /\ r.state = session[c].state
    BY <1>0, SessionAssumption DEF Sound, Session
  <2> HIDE DEF r
  <2> QED BY <2>1, <2>2, <1>d, QuietStep DEF InState
<1>11. ASSUME NEW c \in Con, HandleHeartbeat(c) PROVE IInv'
  <2> DEFINE s == Counted(session[c])
  <2>1. session[c].beating /\ session[c].rx > 0 /\ session[c].udp > 0
    BY <1>0, <1>11 DEF HandleHeartbeat, Sound
  <2>2. s \in Session /\ s.callsign = session[c].callsign /\ s.state = session[c].state
    <3> DEFINE q == session[c]
    <3>1. q \in Session /\ q.rx - 1 \in 0 .. TcpReset /\ q.udp - 1 \in 0 .. UdpReset
      BY <1>0, <2>1, SessionAssumption DEF Session
    <3>2. s = [q EXCEPT !.rx = q.rx - 1, !.udp = q.udp - 1]
      BY DEF Counted
    <3> HIDE DEF q, s
    <3>3. s \in Session /\ s.callsign = q.callsign /\ s.state = q.state
      BY <3>1, <3>2 DEF Session
    <3> QED BY <3>3 DEF q
  <2>3. s.rx # 0 /\ s.udp # 0 => Sound(s)
    BY <1>0, <2>1, <2>2 DEF Sound, Counted, Session
  <2>4. /\ session' = [session EXCEPT ![c] = IF s.rx = 0 \/ s.udp = 0 THEN ErrorSent(s) ELSE s]
        /\ UNCHANGED <<byCallsign, known, dead>>
    BY <1>11 DEF HandleHeartbeat
  <2> HIDE DEF s
  <2>5. CASE s.rx = 0 \/ s.udp = 0
    <3> DEFINE r == ErrorSent(s)
    <3>1. Sound(r) /\ r.callsign = session[c].callsign /\ r.state = "leaving"
      BY <2>2, ErrorSound
    <3>2. session' = [session EXCEPT ![c] = r]
      BY <2>4, <2>5
    <3> HIDE DEF r
    <3> QED BY <2>4, <3>1, <3>2, <1>d, QuietStep
  <2>6. CASE ~(s.rx = 0 \/ s.udp = 0)
    BY <2>2, <2>3, <2>4, <2>6, <1>d, QuietStep DEF InState
  <2> QED BY <2>5, <2>6
<1>12. ASSUME NEW c \in Con, Vanishes(c) PROVE IInv'
  BY <1>12 DEF Vanishes, IInv, TypeOK, LookupFinds, NodeListsAgree, ClosingIsLeaving,
               LoginIsNameless, BeatingCounts, InState, NodeList, Named
<1>13. CASE UNCHANGED vars
  BY <1>13 DEF vars, IInv, TypeOK, LookupFinds, NodeListsAgree, ClosingIsLeaving,
               LoginIsNameless, BeatingCounts, InState, NodeList, Named
<1> QED BY <1>1, <1>2, <1>3, <1>4, <1>5, <1>6, <1>7, <1>8, <1>9, <1>10, <1>11, <1>12, <1>13
        DEF Next

-----------------------------------------------------------------------------
(***************************************************************************)
(* client_callsign_map is the inverse of the callsigns, so that no two     *)
(* clients share one (connectionAuthenticated, ~ReflectorClient).          *)
(***************************************************************************)
THEOREM CallsignsAreUnique == Safe => []LookupFinds
<1>1. IInv => LookupFinds
  BY DEF IInv
<1> QED BY <1>1, IInvInit, IInvNext, PTL DEF Safe

(***************************************************************************)
(* Every connected node knows exactly the node list, however logins and    *)
(* losses interleave (connectionAuthenticated, clientDisconnected).        *)
(***************************************************************************)
THEOREM NodesKnowEachOther == Safe => []NodeListsAgree
<1>1. IInv => NodeListsAgree
  BY DEF IInv
<1> QED BY <1>1, IInvInit, IInvNext, PTL DEF Safe

(***************************************************************************)
(* The assertion of onDiscTimeout holds: the timer that closes a client is *)
(* enabled only in STATE_EXPECT_DISCONNECT; and the types are kept.        *)
(***************************************************************************)
THEOREM NoWayBack == Safe => [](TypeOK /\ ClosingIsLeaving)
<1>1. IInv => TypeOK /\ ClosingIsLeaving
  BY DEF IInv
<1> QED BY <1>1, IInvInit, IInvNext, PTL DEF Safe

=============================================================================

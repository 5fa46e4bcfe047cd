-------------------------- MODULE TrunkTalkProofs --------------------------
(***************************************************************************)
(* What holds of the talk over a trunk for every choice of nonces, losses  *)
(* and bounds, in whatever order the messages arrive.                      *)
(***************************************************************************)
EXTENDS TrunkTalk, TLAPS

(* The other reflector of the other reflector is oneself. *)
LEMMA OtherIsOther ==
    \A p \in Peer : Other(p) \in Peer /\ Other(p) # p /\ Other(Other(p)) = p
<1>1. PICK x, y \in Peer : x # y /\ Peer = {x, y}
  BY TalkAssumption
<1>2. Other(x) = y /\ Other(y) = x
  BY <1>1 DEF Other
<1> QED BY <1>1, <1>2

-----------------------------------------------------------------------------
(* Every action keeps the types. *)
LEMMA SendTypes ==
    ASSUME TypeOK, NEW p \in Peer, NEW m \in Msg, SendMsg(p, m)
    PROVE  up' \in [Peer -> Seq(Msg)] /\ down' \in [Peer -> Seq(Msg)]
<1> USE OtherIsOther DEF TypeOK
<1>1. up' \in [Peer -> Seq(Msg)]
  BY DEF SendMsg
<1>2. down' \in [Peer -> Seq(Msg)]
  BY DEF SendMsg
<1> QED BY <1>1, <1>2

LEMMA FixedMessages ==
    [type |-> "start"] \in Msg /\ [type |-> "stop"] \in Msg
BY DEF Msg

(* A handler is one of the three. *)
LEMMA HandleCases ==
    ASSUME NEW p \in Peer, NEW m \in Msg, Handle(p, m)
    PROVE  \/ TalkerStart(p)
           \/ TalkerStop(p)
           \/ \E n \in 1 .. MaxFrames : TrunkAudio(p, n)
<1>1. m.type = "audio" => m.nr \in 1 .. MaxFrames
  BY DEF Msg
<1> QED BY <1>1 DEF Handle

LEMMA TypeInit == Init => TypeOK
BY TalkAssumption DEF Init, TypeOK

(* The messages a reflector reads are of the protocol. *)
LEMMA FrameTypes ==
    ASSUME TypeOK, NEW w \in {up, down}, NEW p \in Peer, w[p] # << >>
    PROVE  Head(w[p]) \in Msg /\ [w EXCEPT ![p] = Tail(@)] \in [Peer -> Seq(Msg)]
<1>1. w \in [Peer -> Seq(Msg)]
  BY DEF TypeOK
<1>2. Head(w[p]) \in Msg /\ Tail(w[p]) \in Seq(Msg)
  BY <1>1
<1> QED BY <1>1, <1>2

LEMMA HandleTypes ==
    ASSUME TypeOK, NEW p \in Peer, NEW m \in Msg, Handle(p, m)
    PROVE  /\ client' \in [Peer -> BOOLEAN]
           /\ sat' \in [Peer -> BOOLEAN]
           /\ peerActive' \in [Peer -> BOOLEAN]
           /\ yielded' \in [Peer -> BOOLEAN]
           /\ trunkTalker' \in [Peer -> Peer \cup {NoOne}]
           /\ heard' \in [Peer -> Seq(1 .. MaxFrames)]
<1> USE OtherIsOther DEF TypeOK, talk
<1>1. CASE TalkerStart(p) /\ client[p] /\ LocalWins(p)
  BY <1>1 DEF TalkerStart
<1>2. CASE TalkerStart(p) /\ ~(client[p] /\ LocalWins(p))
  <2>1. /\ client' = [client EXCEPT ![p] = FALSE]
        /\ yielded' = [yielded EXCEPT ![p] = @ \/ client[p]]
        /\ peerActive' = [peerActive EXCEPT ![p] = TRUE]
        /\ trunkTalker' = [trunkTalker EXCEPT ![p] = Other(p)]
        /\ UNCHANGED <<sat, heard>>
    BY <1>2 DEF TalkerStart
  <2>2. yielded' \in [Peer -> BOOLEAN]
    <3>1. (yielded[p] \/ client[p]) \in BOOLEAN
      OBVIOUS
    <3> QED BY <2>1, <3>1, Zenon
  <2>3. client' \in [Peer -> BOOLEAN] /\ peerActive' \in [Peer -> BOOLEAN]
    BY <2>1
  <2> QED BY <2>1, <2>2, <2>3
<1>3. CASE TalkerStop(p)
  BY <1>3 DEF TalkerStop, YieldEnded
<1>4. ASSUME NEW n \in 1 .. MaxFrames, TrunkAudio(p, n)
      PROVE  /\ UNCHANGED talk
             /\ heard' \in [Peer -> Seq(1 .. MaxFrames)]
  BY <1>4 DEF TrunkAudio
<1> QED BY <1>1, <1>2, <1>3, <1>4, HandleCases

LEMMA TypeNext == TypeOK /\ [Next]_vars => TypeOK'
<1> SUFFICES ASSUME TypeOK, [Next]_vars PROVE TypeOK'
  OBVIOUS
<1> USE TalkAssumption, OtherIsOther DEF vars, talk, link, audio
<1>1. ASSUME NEW p \in Peer, ClientTakes(p) \/ ClientStops(p) PROVE TypeOK'
  <2>1. CASE ClientTakes(p)
    BY <2>1 DEF ClientTakes, TypeOK
  <2>2. CASE ClientStops(p)
    BY <2>2 DEF ClientStops, TypeOK
  <2> QED BY <1>1, <2>1, <2>2
<1>2. ASSUME NEW p \in Peer, SatStarts(p) PROVE TypeOK'
  <2>1. up' \in [Peer -> Seq(Msg)] /\ down' \in [Peer -> Seq(Msg)]
    BY <1>2, SendTypes, FixedMessages DEF SatStarts
  <2> QED BY <1>2, <2>1 DEF SatStarts, TypeOK
<1>3. ASSUME NEW p \in Peer, SatStops(p) PROVE TypeOK'
  <2>1. up' \in [Peer -> Seq(Msg)] /\ down' \in [Peer -> Seq(Msg)]
    BY <1>3, SendTypes, FixedMessages DEF SatStops, StopSent
  <2> QED BY <1>3, <2>1 DEF SatStops, TypeOK
<1>4. ASSUME NEW p \in Peer, SatLost(p) PROVE TypeOK'
  BY <1>4 DEF SatLost, Loss, TypeOK
<1>5. ASSUME NEW p \in Peer, LocalAudio(p) PROVE TypeOK'
  <2>1. NextNr(p) \in 1 .. MaxFrames
    BY <1>5 DEF LocalAudio, NextNr, TypeOK
  <2>2. [type |-> "audio", nr |-> NextNr(p)] \in Msg
    BY <2>1 DEF Msg
  <2>3. up' \in [Peer -> Seq(Msg)] /\ down' \in [Peer -> Seq(Msg)]
    BY <1>5, <2>2, SendTypes DEF LocalAudio
  <2> QED BY <1>5, <2>1, <2>3 DEF LocalAudio, TypeOK
<1>6. ASSUME NEW p \in Peer, InboundFrame(p) PROVE TypeOK'
  <2> DEFINE q == Other(p)
  <2>1. Head(up[q]) \in Msg /\ up' \in [Peer -> Seq(Msg)]
    BY <1>6, FrameTypes DEF InboundFrame
  <2>2. Handle(p, Head(up[q]))
    BY <1>6 DEF InboundFrame
  <2> QED BY <1>6, <2>1, <2>2, HandleTypes DEF InboundFrame, TypeOK
<1>7. ASSUME NEW p \in Peer, OutboundFrame(p) PROVE TypeOK'
  <2>1. Head(down[p]) \in Msg /\ down' \in [Peer -> Seq(Msg)]
    BY <1>7, FrameTypes DEF OutboundFrame
  <2>2. Handle(p, Head(down[p]))
    BY <1>7 DEF OutboundFrame
  <2> QED BY <1>7, <2>1, <2>2, HandleTypes DEF OutboundFrame, TypeOK
<1>8. ASSUME NEW p \in Peer, Breaks(p) PROVE TypeOK'
  BY <1>8 DEF Breaks, Loss, TypeOK
<1>9. ASSUME NEW p \in Peer, OutboundLost(p) PROVE TypeOK'
  BY <1>9 DEF OutboundLost, TypeOK
<1>10. ASSUME NEW p \in Peer, InboundClosed(p) PROVE TypeOK'
  BY <1>10 DEF InboundClosed, PeerTalkerCleared, TypeOK
<1>11. ASSUME NEW p \in Peer, InboundTimesOut(p) PROVE TypeOK'
  BY <1>11 DEF InboundTimesOut, TypeOK
<1>12. ASSUME NEW p \in Peer, Reconnects(p) PROVE TypeOK'
  BY <1>12 DEF Reconnects, TypeOK
<1>13. ASSUME NEW p \in Peer, OutboundTimesOut(p) PROVE TypeOK'
  BY <1>13 DEF OutboundTimesOut, TypeOK
<1>14. CASE UNCHANGED vars
  BY <1>14 DEF TypeOK
<1> QED BY <1>1, <1>2, <1>3, <1>4, <1>5, <1>6, <1>7, <1>8, <1>9, <1>10, <1>11, <1>12, <1>13, <1>14
        DEF Next

-----------------------------------------------------------------------------
(***************************************************************************)
(* The inductive invariant.  NeverBothYield does not survive a step on its *)
(* own: what does is that a reflector yields only to a lower nonce.        *)
(***************************************************************************)
YieldsToLower == \A p \in Peer : yielded[p] => priority[Other(p)] < priority[p]

IInv == TypeOK /\ ShownTalkerIsKnown /\ YieldsOnlyToActive /\ YieldsToLower

LEMMA IInvInit == Init => IInv
<1> SUFFICES ASSUME Init PROVE IInv
  OBVIOUS
<1>1. TypeOK
  BY TypeInit
<1>2. ShownTalkerIsKnown /\ YieldsOnlyToActive /\ YieldsToLower
  BY TalkAssumption, OtherIsOther
     DEF Init, ShownTalkerIsKnown, YieldsOnlyToActive, YieldsToLower
<1> QED BY <1>1, <1>2 DEF IInv

(* What a handler does to the parts of the invariant. *)
LEMMA HandleKeeps ==
    ASSUME IInv, NEW p \in Peer, NEW m \in Msg, Handle(p, m), priority' = priority
    PROVE  (ShownTalkerIsKnown /\ YieldsOnlyToActive /\ YieldsToLower)'
<1> USE OtherIsOther
    DEF IInv, TypeOK, ShownTalkerIsKnown, YieldsOnlyToActive, YieldsToLower, talk
<1>1. ASSUME TalkerStart(p)
      PROVE (ShownTalkerIsKnown /\ YieldsOnlyToActive /\ YieldsToLower)'
  <2>1. CASE client[p] /\ LocalWins(p)
    BY <1>1, <2>1 DEF TalkerStart
  <2>2. CASE ~(client[p] /\ LocalWins(p))
    <3>1. client[p] => priority[Other(p)] < priority[p]
      <4>1. priority[p] \in Nat /\ priority[Other(p)] \in Nat
        BY TalkAssumption
      <4>2. client[p] => ~(priority[p] <= priority[Other(p)])
        BY <2>2 DEF LocalWins
      <4> QED BY <4>1, <4>2
    <3>2. /\ yielded' = [yielded EXCEPT ![p] = @ \/ client[p]]
          /\ peerActive' = [peerActive EXCEPT ![p] = TRUE]
          /\ trunkTalker' = [trunkTalker EXCEPT ![p] = Other(p)]
          /\ sat' = sat
      BY <1>1, <2>2 DEF TalkerStart
    <3>3. YieldsToLower'
      BY <3>1, <3>2
    <3>4. YieldsOnlyToActive'
      BY <3>2
    <3>5. ShownTalkerIsKnown'
      BY <3>2
    <3> QED BY <3>3, <3>4, <3>5
  <2> QED BY <2>1, <2>2
<1>2. ASSUME TalkerStop(p)
      PROVE (ShownTalkerIsKnown /\ YieldsOnlyToActive /\ YieldsToLower)'
  BY <1>2, TalkAssumption DEF TalkerStop, YieldEnded
<1>3. ASSUME NEW n \in 1 .. MaxFrames, TrunkAudio(p, n)
      PROVE (ShownTalkerIsKnown /\ YieldsOnlyToActive /\ YieldsToLower)'
  BY <1>3 DEF TrunkAudio
<1> QED BY <1>1, <1>2, <1>3, HandleCases

LEMMA IInvNext == IInv /\ [Next]_vars => IInv'
<1> SUFFICES ASSUME IInv, [Next]_vars
             PROVE  (ShownTalkerIsKnown /\ YieldsOnlyToActive /\ YieldsToLower)'
  BY TypeNext DEF IInv
<1> DEFINE Parts == ShownTalkerIsKnown /\ YieldsOnlyToActive /\ YieldsToLower
<1>1. ASSUME NEW p \in Peer, InboundFrame(p) PROVE Parts'
  <2>1. up[Other(p)] # << >> /\ Handle(p, Head(up[Other(p)])) /\ priority' = priority
    BY <1>1 DEF InboundFrame
  <2>2. Head(up[Other(p)]) \in Msg
    BY <2>1, FrameTypes, OtherIsOther DEF IInv
  <2> QED BY <2>1, <2>2, HandleKeeps
<1>2. ASSUME NEW p \in Peer, OutboundFrame(p) PROVE Parts'
  <2>1. down[p] # << >> /\ Handle(p, Head(down[p])) /\ priority' = priority
    BY <1>2 DEF OutboundFrame
  <2>2. Head(down[p]) \in Msg
    BY <2>1, FrameTypes DEF IInv
  <2> QED BY <2>1, <2>2, HandleKeeps
<1> USE TalkAssumption, OtherIsOther
    DEF IInv, TypeOK, ShownTalkerIsKnown, YieldsOnlyToActive, YieldsToLower, talk
<1>3. ASSUME NEW p \in Peer, SatStarts(p) PROVE Parts'
  BY <1>3 DEF SatStarts
<1>4. ASSUME NEW p \in Peer, SatStops(p) PROVE Parts'
  BY <1>4 DEF SatStops
<1>5. ASSUME NEW p \in Peer, SatLost(p) PROVE Parts'
  BY <1>5 DEF SatLost
<1>6. ASSUME NEW p \in Peer, InboundClosed(p) PROVE Parts'
  BY <1>6 DEF InboundClosed, PeerTalkerCleared
<1>7. ASSUME NEW p \in Peer, Reconnects(p) PROVE Parts'
  BY <1>7 DEF Reconnects
<1>8. ASSUME NEW p \in Peer,
             \/ ClientTakes(p) \/ ClientStops(p) \/ LocalAudio(p)
             \/ Breaks(p) \/ OutboundLost(p) \/ OutboundTimesOut(p) \/ InboundTimesOut(p)
      PROVE Parts'
  BY <1>8 DEF ClientTakes, ClientStops, LocalAudio, Breaks, OutboundLost, OutboundTimesOut,
              InboundTimesOut
<1>9. CASE UNCHANGED vars
  BY <1>9 DEF vars
<1> QED BY <1>1, <1>2, <1>3, <1>4, <1>5, <1>6, <1>7, <1>8, <1>9 DEF Next

-----------------------------------------------------------------------------
(***************************************************************************)
(* The trunk talker shown to the clients is one the reflector has reason   *)
(* to believe in, and audio is muted only for a peer that is let through   *)
(* (handleMsgTrunkTalkerStart, handleMsgTrunkTalkerStop,                   *)
(* clearPeerTalkerState, SatelliteLink).                                   *)
(***************************************************************************)
THEOREM TalkIsCoherent == Safe => [](ShownTalkerIsKnown /\ YieldsOnlyToActive)
<1>1. IInv => ShownTalkerIsKnown /\ YieldsOnlyToActive
  BY DEF IInv
<1> QED BY <1>1, IInvInit, IInvNext, PTL DEF Safe

(***************************************************************************)
(* The tie-break never silences both sides, whatever nonces they drew and  *)
(* in whatever order the claims arrive (handleMsgTrunkTalkerStart).        *)
(***************************************************************************)
THEOREM TieBreakIsOneSided == Safe => []NeverBothYield
<1>1. IInv => NeverBothYield
  <2> SUFFICES ASSUME IInv, \A p \in Peer : yielded[p] PROVE FALSE
    BY DEF NeverBothYield
  <2>1. PICK p \in Peer : TRUE
    BY TalkAssumption
  <2>2. Other(p) \in Peer /\ Other(Other(p)) = p
    BY OtherIsOther
  <2>3. priority[Other(p)] < priority[p] /\ priority[p] < priority[Other(p)]
    BY <2>1, <2>2 DEF IInv, YieldsToLower
  <2>4. priority[p] \in Nat /\ priority[Other(p)] \in Nat
    BY <2>2, TalkAssumption DEF IInv, TypeOK
  <2> QED BY <2>3, <2>4
<1> QED BY <1>1, IInvInit, IInvNext, PTL DEF Safe

=============================================================================

---------------------------- MODULE NgapLinkProofs ----------------------------
(***************************************************************************)
(* The set-up of the three exercises, and the AMF's messages after it, for *)
(* any order in which the programs are started, any call that fails, and   *)
(* any number of messages.                                                 *)
(***************************************************************************)
EXTENDS NgapLink, SequenceTheorems, TLAPS

(***************************************************************************)
(* The programs as numbers: at which step each call is made.               *)
(***************************************************************************)
GnbSteps == CASE exercise = 3 -> 3 [] exercise = 4 -> 5 [] exercise = 5 -> 8
UeSteps  == IF exercise = 5 THEN 4 ELSE 2

BindAt(c)  == IF c = "mib" THEN 1 ELSE 2
ListenAt   == IF exercise = 4 THEN 2 ELSE 3
AcceptAt   == IF exercise = 4 THEN 3 ELSE 4
HearAt(c)  == CASE exercise = 3 -> 2
                [] exercise = 4 -> 4
                [] exercise = 5 -> IF c = "mib" THEN 5 ELSE 6
ReplyAt(c) == CASE exercise = 3 -> 3
                [] exercise = 4 -> 5
                [] exercise = 5 -> IF c = "mib" THEN 7 ELSE 8

HelloAt(c)   == IF c = "mib" THEN 1 ELSE 2
ReceiveAt(c) == IF exercise = 5 THEN IF c = "mib" THEN 3 ELSE 4 ELSE 2

LEMMA GnbProgram ==
  ASSUME exercise \in 3 .. 5
  PROVE  /\ Len(GnbInit) = GnbSteps
         /\ \A n \in 1 .. GnbSteps, c \in Channel :
              /\ GnbInit[n] = Step("bind", c) => c \in Channels /\ n = BindAt(c)
              /\ GnbInit[n] = Step("hear", c) => c \in Channels /\ n = HearAt(c)
              /\ GnbInit[n] = Step("reply", c) => c \in Channels /\ n = ReplyAt(c)
         /\ \A n \in 1 .. GnbSteps :
              /\ GnbInit[n] = Step("listen", "amf") => HasAmf /\ n = ListenAt
              /\ GnbInit[n] = Step("accept", "amf") => HasAmf /\ n = AcceptAt
<1> USE DEF Step, Channel, Channels, HasAmf, BindAt, HearAt, ReplyAt, ListenAt, AcceptAt
<1>1. CASE exercise = 3
  <2>1. GnbInit = GnbInit3 /\ GnbSteps = 3
    BY <1>1 DEF GnbInit, GnbSteps
  <2> QED
    BY <1>1, <2>1 DEF GnbInit3
<1>2. CASE exercise = 4
  <2>1. GnbInit = GnbInit4 /\ GnbSteps = 5
    BY <1>2 DEF GnbInit, GnbSteps
  <2> QED
    BY <1>2, <2>1 DEF GnbInit4
<1>3. CASE exercise = 5
  <2>1. GnbInit = GnbInit5 /\ GnbSteps = 8
    BY <1>3 DEF GnbInit, GnbSteps
  <2> QED
    BY <1>3, <2>1 DEF GnbInit5
<1> QED
  BY <1>1, <1>2, <1>3

LEMMA UeProgram ==
  ASSUME exercise \in 3 .. 5
  PROVE  /\ Len(UeInit) = UeSteps
         /\ \A n \in 1 .. UeSteps, c \in Channel :
              /\ UeInit[n] = Step("hello", c) => c \in Channels /\ n = HelloAt(c)
              /\ UeInit[n] = Step("receive", c) => c \in Channels /\ n = ReceiveAt(c)
<1> USE DEF Step, Channel, Channels, HelloAt, ReceiveAt, UeSteps
<1>1. CASE exercise = 3
  BY <1>1 DEF UeInit, UeInit3
<1>2. CASE exercise = 4
  BY <1>2 DEF UeInit, UeInit4
<1>3. CASE exercise = 5
  BY <1>3 DEF UeInit, UeInit5
<1> QED
  BY <1>1, <1>2, <1>3

\* The calls on a channel come in this order, and no two at one step.
LEMMA Positions ==
  ASSUME exercise \in 3 .. 5, NEW c \in Channels, NEW d \in Channels
  PROVE  /\ {BindAt(c), ListenAt, AcceptAt, HearAt(c), ReplyAt(c)} \subseteq Nat
         /\ {HelloAt(c), ReceiveAt(c), GnbSteps, UeSteps} \subseteq Nat
         /\ BindAt(c) < HearAt(c) /\ HearAt(c) < ReplyAt(d) /\ ReplyAt(c) <= GnbSteps
         /\ HasAmf => BindAt(c) < ListenAt /\ ListenAt < AcceptAt /\ AcceptAt < HearAt(c)
         /\ HelloAt(c) < ReceiveAt(d) /\ ReceiveAt(c) <= UeSteps
         /\ c # d => /\ HearAt(c) # HearAt(d) /\ ReplyAt(c) # ReplyAt(d)
                     /\ HelloAt(c) # HelloAt(d) /\ ReceiveAt(c) # ReceiveAt(d)
         /\ c \in Channel
<1> USE DEF BindAt, ListenAt, AcceptAt, HearAt, ReplyAt, HelloAt, ReceiveAt, GnbSteps,
            UeSteps, HasAmf, Channels, Channel
<1>1. CASE exercise = 3
  BY <1>1
<1>2. CASE exercise = 4
  BY <1>2
<1>3. CASE exercise = 5
  <2>1. ASSUME NEW x \in Channels
        PROVE  /\ x \in Channel
               /\ \/ /\ x = "mib" /\ BindAt(x) = 1 /\ HearAt(x) = 5 /\ ReplyAt(x) = 7
                     /\ HelloAt(x) = 1 /\ ReceiveAt(x) = 3
                  \/ /\ x = "rrc" /\ BindAt(x) = 2 /\ HearAt(x) = 6 /\ ReplyAt(x) = 8
                     /\ HelloAt(x) = 2 /\ ReceiveAt(x) = 4
    BY <1>3
  <2>2. ListenAt = 3 /\ AcceptAt = 4 /\ GnbSteps = 8 /\ UeSteps = 4
    BY <1>3
  <2> HIDE DEF BindAt, ListenAt, AcceptAt, HearAt, ReplyAt, HelloAt, ReceiveAt, GnbSteps,
               UeSteps, HasAmf, Channels, Channel
  <2> QED
    BY <2>1, <2>2
<1> QED
  BY <1>1, <1>2, <1>3

\* What each side may conclude of the other from its own next step.  A hello that
\* was refused is never heard, and then no channel is ever answered.
ChannelFacts(c) ==
  /\ c \in addr <=> gnb > HearAt(c)
  /\ c \in inbox \/ gnb > HearAt(c) => ue > HelloAt(c)
  /\ answer[c] = "reply" => gnb > ReplyAt(c)
  /\ answer[c] = "reset" => gnb <= HearAt(c) /\ c \notin inbox /\ ue > HelloAt(c)
  /\ ue > ReceiveAt(c) => answer[c] # "none"
  /\ c \in got <=> ue > ReceiveAt(c) /\ answer[c] = "reply"

SetUpInvariant ==
  /\ TypeOK
  /\ HasAmf /\ gnb > AcceptAt => backlog = "accepted"
  /\ backlog # "none" => amf = "connected"
  /\ \A c \in Channels : ChannelFacts(c)

LEMMA SetUpInit == Init => SetUpInvariant
<1> SUFFICES ASSUME Init PROVE SetUpInvariant
  OBVIOUS
<1>1. exercise \in 3 .. 5 /\ gnb = 1 /\ ue = 1
  BY DEF Init
<1>2. Len(GnbInit) \in Nat /\ Len(UeInit) \in Nat
  BY <1>1, GnbProgram, UeProgram DEF GnbSteps, UeSteps
<1>3. TypeOK
  BY <1>1, <1>2 DEF Init, TypeOK, Channel
<1>4. ASSUME NEW c \in Channels PROVE ChannelFacts(c)
  <2>1. gnb <= HearAt(c) /\ ue <= ReceiveAt(c) /\ HearAt(c) \in Nat /\ ReceiveAt(c) \in Nat
    BY <1>1, Positions DEF HearAt, ReceiveAt
  <2>2. answer[c] = "none"
    BY Positions, <1>1 DEF Init
  <2> QED
    BY <1>1, <2>1, <2>2 DEF Init, ChannelFacts
<1>5. HasAmf => gnb <= AcceptAt
  BY <1>1 DEF AcceptAt
<1> QED
  BY <1>1, <1>3, <1>4, <1>5 DEF Init, SetUpInvariant, AcceptAt

\* The type invariant with the lengths of the programs as numbers.
LEMMA SetUpTypes ==
  ASSUME TypeOK
  PROVE  /\ exercise \in 3 .. 5
         /\ gnb \in 1 .. GnbSteps + 1 /\ ue \in 1 .. UeSteps + 1
         /\ GnbDone <=> gnb = GnbSteps + 1
         /\ UeDone <=> ue = UeSteps + 1
         /\ GnbSteps \in Nat /\ UeSteps \in Nat
         /\ \A c \in Channels : c \in Channel
<1>1. exercise \in 3 .. 5
  BY DEF TypeOK
<1>2. Len(GnbInit) = GnbSteps /\ Len(UeInit) = UeSteps
  BY <1>1, GnbProgram, UeProgram
<1>3. GnbSteps \in Nat /\ UeSteps \in Nat
  BY <1>1 DEF GnbSteps, UeSteps
<1>4. gnb \in 1 .. GnbSteps + 1 /\ ue \in 1 .. UeSteps + 1
  BY <1>2 DEF TypeOK
<1>5. \A c \in Channels : c \in Channel
  BY DEF Channels, Channel
<1> QED
  BY <1>1, <1>2, <1>3, <1>4, <1>5 DEF GnbDone, UeDone

LEMMA GnbCalls ==
  ASSUME TypeOK
  PROVE  /\ \A c \in Channel :
              /\ GnbAt("bind", c) => c \in Channels /\ gnb = BindAt(c)
              /\ GnbAt("hear", c) => c \in Channels /\ gnb = HearAt(c)
              /\ GnbAt("reply", c) => c \in Channels /\ gnb = ReplyAt(c)
         /\ GnbAt("listen", "amf") => HasAmf /\ gnb = ListenAt
         /\ GnbAt("accept", "amf") => HasAmf /\ gnb = AcceptAt
         /\ \A op, port : GnbAt(op, port) => gnb \in 1 .. GnbSteps
<1>1. \A op, port : GnbAt(op, port) => gnb \in 1 .. GnbSteps /\ GnbInit[gnb] = Step(op, port)
  BY SetUpTypes DEF GnbAt
<1> QED
  BY <1>1, GnbProgram DEF TypeOK

LEMMA UeCalls ==
  ASSUME TypeOK
  PROVE  /\ \A c \in Channel :
              /\ UeAt("hello", c) => c \in Channels /\ ue = HelloAt(c)
              /\ UeAt("receive", c) => c \in Channels /\ ue = ReceiveAt(c)
         /\ \A op, port : UeAt(op, port) => ue \in 1 .. UeSteps
<1>1. \A op, port : UeAt(op, port) => ue \in 1 .. UeSteps /\ UeInit[ue] = Step(op, port)
  BY SetUpTypes DEF UeAt
<1> QED
  BY <1>1, UeProgram DEF TypeOK

\* The tables depend on the exercise alone, which never changes.
LEMMA SameTables ==
  ASSUME exercise' = exercise
  PROVE  /\ GnbInit' = GnbInit /\ UeInit' = UeInit
         /\ Channels' = Channels /\ HasAmf' = HasAmf
         /\ GnbSteps' = GnbSteps /\ UeSteps' = UeSteps /\ AcceptAt' = AcceptAt
         /\ \A c : HearAt(c)' = HearAt(c) /\ ReplyAt(c)' = ReplyAt(c)
                     /\ HelloAt(c)' = HelloAt(c) /\ ReceiveAt(c)' = ReceiveAt(c)
  BY DEF GnbInit, UeInit, GnbInit3, GnbInit4, GnbInit5, UeInit3, UeInit4, UeInit5,
         Channels, HasAmf, GnbSteps, UeSteps, AcceptAt, HearAt, ReplyAt, HelloAt,
         ReceiveAt, Step, Channel

LEMMA GnbKeepsSetUp ==
  ASSUME SetUpInvariant, Gnb
  PROVE  SetUpInvariant'
<1>1. /\ TypeOK /\ exercise \in 3 .. 5 /\ exercise' = exercise
      /\ UNCHANGED <<ue, amf, got>>
  BY DEF SetUpInvariant, TypeOK, Gnb, GnbProceeds, GnbBind, GnbHear, GnbReply, GnbListen, GnbAccept,
         GnbGivesUp, GnbHearFails
<1>2. /\ gnb \in 1 .. GnbSteps + 1 /\ GnbSteps \in Nat /\ Len(GnbInit) = GnbSteps
      /\ gnb \in Nat /\ ue \in Nat
  BY <1>1, SetUpTypes, GnbProgram
<1>3. /\ GnbInit' = GnbInit /\ UeInit' = UeInit /\ Channels' = Channels
      /\ HasAmf' = HasAmf /\ AcceptAt' = AcceptAt
      /\ \A c : HearAt(c)' = HearAt(c) /\ ReplyAt(c)' = ReplyAt(c)
                     /\ HelloAt(c)' = HelloAt(c) /\ ReceiveAt(c)' = ReceiveAt(c)
  BY <1>1, SameTables
<1>4. AcceptAt \in Nat
  BY DEF AcceptAt
<1>5. ASSUME /\ gnb' = gnb + 1 /\ gnb \in 1 .. GnbSteps
             /\ UNCHANGED <<failed, backlog, inbox, addr, answer>>
             /\ \/ \E c \in Channels : open' = open \cup {c} /\ gnb = BindAt(c)
                \/ open' = open \cup {"amf"} /\ HasAmf /\ gnb = ListenAt
      PROVE  SetUpInvariant'
  <2>1. TypeOK'
    BY <1>1, <1>2, <1>3, <1>5 DEF TypeOK
  <2>2. \A c \in Channels : gnb < HearAt(c) /\ HearAt(c) \in Nat /\ ReplyAt(c) \in Nat
                              /\ HearAt(c) < ReplyAt(c)
    BY <1>1, <1>5, Positions DEF BindAt, ListenAt, HearAt, ReplyAt, HasAmf
  <2>3. ASSUME NEW c \in Channels PROVE ChannelFacts(c)'
    BY <1>1, <1>2, <1>3, <1>5, <2>2 DEF SetUpInvariant, ChannelFacts
  <2>4. HasAmf => gnb < AcceptAt
    BY <1>1, <1>5 DEF HasAmf, AcceptAt, BindAt, ListenAt
  <2> QED
    BY <1>1, <1>2, <1>3, <1>4, <1>5, <2>1, <2>3, <2>4 DEF SetUpInvariant
<1>6. ASSUME NEW c \in Channel, GnbBind(c) PROVE SetUpInvariant'
  BY <1>1, <1>5, <1>6, GnbCalls DEF GnbBind
<1>7. CASE GnbListen
  BY <1>1, <1>5, <1>7, GnbCalls DEF GnbListen
<1>8. CASE GnbAccept
  <2>1. /\ gnb = AcceptAt /\ HasAmf /\ gnb \in 1 .. GnbSteps /\ gnb' = gnb + 1
        /\ backlog = "pending" /\ backlog' = "accepted"
        /\ UNCHANGED <<failed, open, inbox, addr, answer>>
    BY <1>1, <1>8, GnbCalls DEF GnbAccept
  <2>2. TypeOK'
    BY <1>1, <1>2, <1>3, <2>1 DEF TypeOK
  <2>3. \A c \in Channels : gnb < HearAt(c) /\ HearAt(c) \in Nat /\ ReplyAt(c) \in Nat
                              /\ HearAt(c) < ReplyAt(c)
    BY <1>1, <2>1, Positions
  <2>4. ASSUME NEW c \in Channels PROVE ChannelFacts(c)'
    BY <1>1, <1>2, <1>3, <2>1, <2>3 DEF SetUpInvariant, ChannelFacts
  <2> QED
    BY <1>1, <1>3, <2>1, <2>2, <2>4 DEF SetUpInvariant
<1>9. CASE GnbGivesUp
  <2>1. /\ failed' = failed \cup {"gnb"} /\ open' = {} /\ inbox' = {}
        /\ UNCHANGED <<gnb, backlog, addr, answer>>
    BY <1>9 DEF GnbGivesUp
  <2>2. TypeOK'
    BY <1>1, <1>2, <1>3, <2>1 DEF TypeOK
  <2>3. ASSUME NEW c \in Channels PROVE ChannelFacts(c)'
    BY <1>1, <1>3, <2>1 DEF SetUpInvariant, ChannelFacts
  <2> QED
    BY <1>1, <1>3, <2>1, <2>2, <2>3 DEF SetUpInvariant
<1>10. CASE GnbHearFails
  <2>1. /\ failed' = failed \cup {"gnb"}
        /\ UNCHANGED <<gnb, open, inbox, backlog, addr, answer>>
    BY <1>10 DEF GnbHearFails
  <2>2. TypeOK'
    BY <1>1, <1>2, <1>3, <2>1 DEF TypeOK
  <2>3. ASSUME NEW c \in Channels PROVE ChannelFacts(c)'
    BY <1>1, <1>3, <2>1 DEF SetUpInvariant, ChannelFacts
  <2> QED
    BY <1>1, <1>3, <2>1, <2>2, <2>3 DEF SetUpInvariant
<1>11. ASSUME NEW d \in Channel, GnbHear(d) PROVE SetUpInvariant'
  <2>1. /\ d \in Channels /\ gnb = HearAt(d) /\ gnb \in 1 .. GnbSteps /\ gnb' = gnb + 1
        /\ d \in inbox /\ inbox' = inbox \ {d} /\ addr' = addr \cup {d}
        /\ UNCHANGED <<failed, open, backlog, answer>>
    BY <1>1, <1>11, GnbCalls DEF GnbHear
  <2>2. TypeOK'
    BY <1>1, <1>2, <1>3, <2>1 DEF TypeOK
  <2>3. ASSUME NEW c \in Channels PROVE ChannelFacts(c)'
    <3>1. /\ HearAt(c) \in Nat /\ ReplyAt(c) \in Nat /\ HearAt(d) < ReplyAt(c)
          /\ c # d => HearAt(c) # HearAt(d)
      BY <1>1, <2>1, Positions
    <3>2. ChannelFacts(c)
      BY DEF SetUpInvariant
    <3>3. c = d => answer[c] # "reset" /\ ue > HelloAt(c)
      BY <2>1, <3>2 DEF ChannelFacts
    <3> QED
      BY <1>1, <1>2, <1>3, <2>1, <3>1, <3>2, <3>3 DEF ChannelFacts
  <2>4. HasAmf => gnb > AcceptAt
    BY <1>1, <2>1, <1>4, Positions
  <2> QED
    BY <1>1, <1>3, <2>1, <2>2, <2>3, <2>4 DEF SetUpInvariant
<1>12. ASSUME NEW d \in Channel, GnbReply(d) PROVE SetUpInvariant'
  <2>1. /\ d \in Channels /\ gnb = ReplyAt(d) /\ gnb \in 1 .. GnbSteps /\ gnb' = gnb + 1
        /\ answer' = [answer EXCEPT ![d] = "reply"]
        /\ UNCHANGED <<failed, open, backlog, inbox, addr>>
    BY <1>1, <1>12, GnbCalls DEF GnbReply
  <2>2. TypeOK'
    BY <1>1, <1>2, <1>3, <2>1 DEF TypeOK
  <2>3. ASSUME NEW c \in Channels PROVE ChannelFacts(c)'
    <3>1. /\ HearAt(c) \in Nat /\ ReplyAt(c) \in Nat /\ HearAt(c) < ReplyAt(d)
          /\ c \in Channel
      BY <1>1, <2>1, Positions
    <3>2. ChannelFacts(c)
      BY DEF SetUpInvariant
    <3>3. answer'[c] = IF c = d THEN "reply" ELSE answer[c]
      BY <1>1, <2>1, <3>1 DEF TypeOK
    <3>4. gnb > HearAt(c) /\ answer[c] # "reset" /\ answer[c] \in {"none", "reply", "reset"}
      BY <1>1, <2>1, <3>1, <3>2 DEF ChannelFacts, TypeOK
    <3> QED
      BY <1>1, <1>2, <1>3, <2>1, <3>1, <3>2, <3>3, <3>4 DEF ChannelFacts
  <2>4. HasAmf => gnb > AcceptAt
    BY <1>1, <2>1, <1>4, Positions
  <2> QED
    BY <1>1, <1>3, <2>1, <2>2, <2>3, <2>4 DEF SetUpInvariant
<1> QED
  BY <1>6, <1>7, <1>8, <1>9, <1>10, <1>11, <1>12 DEF Gnb, GnbProceeds

LEMMA UeKeepsSetUp ==
  ASSUME SetUpInvariant, Ue
  PROVE  SetUpInvariant'
<1>1. /\ TypeOK /\ exercise \in 3 .. 5 /\ exercise' = exercise
      /\ UNCHANGED <<gnb, amf, open, backlog, addr>>
  BY DEF SetUpInvariant, TypeOK, Ue, UeProceeds, UeHello, UeReceive, UeGivesUp
<1>2. /\ ue \in 1 .. UeSteps + 1 /\ UeSteps \in Nat /\ Len(UeInit) = UeSteps
      /\ gnb \in Nat /\ ue \in Nat
  BY <1>1, SetUpTypes, UeProgram
<1>3. /\ GnbInit' = GnbInit /\ UeInit' = UeInit /\ Channels' = Channels
      /\ HasAmf' = HasAmf /\ AcceptAt' = AcceptAt
      /\ \A c : HearAt(c)' = HearAt(c) /\ ReplyAt(c)' = ReplyAt(c)
                     /\ HelloAt(c)' = HelloAt(c) /\ ReceiveAt(c)' = ReceiveAt(c)
  BY <1>1, SameTables
<1>4. ASSUME NEW d \in Channel, UeHello(d) PROVE SetUpInvariant'
  <2>1. /\ d \in Channels /\ ue = HelloAt(d) /\ ue \in 1 .. UeSteps /\ ue' = ue + 1
        /\ \/ inbox' = inbox \cup {d} /\ answer' = answer
           \/ answer' = [answer EXCEPT ![d] = "reset"] /\ inbox' = inbox
        /\ UNCHANGED <<failed, got>>
    BY <1>1, <1>4, UeCalls DEF UeHello
  <2>2. TypeOK'
    BY <1>1, <1>2, <1>3, <2>1 DEF TypeOK
  <2>3. ASSUME NEW c \in Channels PROVE ChannelFacts(c)'
    <3>1. /\ {HelloAt(c), HelloAt(d), HearAt(c), ReplyAt(c), ReceiveAt(c)} \subseteq Nat
          /\ HearAt(c) < ReplyAt(c)
          /\ HelloAt(d) < ReceiveAt(c) /\ c \in Channel
          /\ c # d => HelloAt(c) # HelloAt(d)
      BY <1>1, <2>1, Positions
    <3>2. ChannelFacts(c)
      BY DEF SetUpInvariant
    <3>3. answer'[c] = answer[c] \/ (c = d /\ answer'[c] = "reset")
      BY <1>1, <2>1, <3>1 DEF TypeOK
    <3>4. c = d => gnb <= HearAt(c) /\ c \notin inbox /\ answer[c] # "reset"
                     /\ answer[c] # "reply"
      BY <1>2, <2>1, <3>1, <3>2 DEF ChannelFacts
    <3>5. c = d /\ answer'[c] = "reset" => c \notin inbox'
      BY <2>1, <3>4
    <3>6. c # d => (c \in inbox' <=> c \in inbox) /\ answer'[c] = answer[c]
      BY <2>1, <3>3
    <3> QED
      BY <1>1, <1>2, <1>3, <2>1, <3>1, <3>2, <3>3, <3>4, <3>5, <3>6 DEF ChannelFacts
  <2> QED
    BY <1>1, <1>3, <2>1, <2>2, <2>3 DEF SetUpInvariant
<1>5. ASSUME NEW d \in Channel, UeReceive(d) PROVE SetUpInvariant'
  <2>1. /\ d \in Channels /\ ue = ReceiveAt(d) /\ ue \in 1 .. UeSteps /\ ue' = ue + 1
        /\ answer[d] # "none"
        /\ got' = IF answer[d] = "reply" THEN got \cup {d} ELSE got
        /\ UNCHANGED <<failed, inbox, answer>>
    BY <1>1, <1>5, UeCalls DEF UeReceive
  <2>2. TypeOK'
    BY <1>1, <1>2, <1>3, <2>1 DEF TypeOK
  <2>3. ASSUME NEW c \in Channels PROVE ChannelFacts(c)'
    <3>1. /\ {HelloAt(c), ReceiveAt(c), ReceiveAt(d)} \subseteq Nat
          /\ c # d => ReceiveAt(c) # ReceiveAt(d)
      BY <1>1, <2>1, Positions
    <3>2. ChannelFacts(c)
      BY DEF SetUpInvariant
    <3> QED
      BY <1>1, <1>2, <1>3, <2>1, <3>1, <3>2 DEF ChannelFacts
  <2> QED
    BY <1>1, <1>3, <2>1, <2>2, <2>3 DEF SetUpInvariant
<1>6. CASE UeGivesUp
  <2>1. failed' = failed \cup {"ue"} /\ UNCHANGED <<ue, inbox, answer, got>>
    BY <1>6 DEF UeGivesUp
  <2>2. TypeOK'
    BY <1>1, <1>2, <1>3, <2>1 DEF TypeOK
  <2>3. ASSUME NEW c \in Channels PROVE ChannelFacts(c)'
    BY <1>1, <1>3, <2>1 DEF SetUpInvariant, ChannelFacts
  <2> QED
    BY <1>1, <1>3, <2>1, <2>2, <2>3 DEF SetUpInvariant
<1> QED
  BY <1>4, <1>5, <1>6 DEF Ue, UeProceeds

LEMMA AmfKeepsSetUp ==
  ASSUME SetUpInvariant, Amf
  PROVE  SetUpInvariant'
<1>1. /\ TypeOK /\ exercise' = exercise /\ amf = "connecting"
      /\ UNCHANGED <<gnb, ue, open, inbox, addr, answer, got>>
      /\ \/ amf' = "connected" /\ backlog' = "pending" /\ failed' = failed
         \/ failed' = failed \cup {"amf"} /\ amf' = amf /\ backlog' = backlog
  BY DEF SetUpInvariant, Amf, AmfConnect, AmfGivesUp
<1>2. /\ GnbInit' = GnbInit /\ UeInit' = UeInit /\ Channels' = Channels
      /\ HasAmf' = HasAmf /\ AcceptAt' = AcceptAt
      /\ \A c : HearAt(c)' = HearAt(c) /\ ReplyAt(c)' = ReplyAt(c)
                     /\ HelloAt(c)' = HelloAt(c) /\ ReceiveAt(c)' = ReceiveAt(c)
  BY <1>1, SameTables
<1>3. backlog = "none" /\ ~(HasAmf /\ gnb > AcceptAt)
  BY <1>1 DEF SetUpInvariant
<1>4. TypeOK'
  BY <1>1, <1>2 DEF TypeOK
<1>5. ASSUME NEW c \in Channels PROVE ChannelFacts(c)'
  BY <1>1, <1>2 DEF SetUpInvariant, ChannelFacts
<1> QED
  BY <1>1, <1>2, <1>3, <1>4, <1>5 DEF SetUpInvariant

LEMMA StutterKeepsSetUp ==
  ASSUME SetUpInvariant, UNCHANGED vars
  PROVE  SetUpInvariant'
<1>1. /\ exercise' = exercise
      /\ UNCHANGED <<gnb, ue, amf, failed, open, backlog, inbox, addr, answer, got>>
  BY DEF vars
<1>2. /\ GnbInit' = GnbInit /\ UeInit' = UeInit /\ Channels' = Channels
      /\ HasAmf' = HasAmf /\ AcceptAt' = AcceptAt
      /\ \A c : HearAt(c)' = HearAt(c) /\ ReplyAt(c)' = ReplyAt(c)
                     /\ HelloAt(c)' = HelloAt(c) /\ ReceiveAt(c)' = ReceiveAt(c)
  BY <1>1, SameTables
<1>3. TypeOK'
  BY <1>1, <1>2 DEF SetUpInvariant, TypeOK
<1>4. ASSUME NEW c \in Channels PROVE ChannelFacts(c)'
  BY <1>1, <1>2 DEF SetUpInvariant, ChannelFacts
<1> QED
  BY <1>1, <1>2, <1>3, <1>4 DEF SetUpInvariant

(***************************************************************************)
(* In every exercise, for every order of the programs' start: who is how   *)
(* far tells what the others have done.  An inductive invariant.           *)
(***************************************************************************)
THEOREM SetUpCorrect == Spec => []SetUpInvariant
<1>1. SetUpInvariant /\ [Next]_vars => SetUpInvariant'
  BY GnbKeepsSetUp, UeKeepsSetUp, AmfKeepsSetUp, StutterKeepsSetUp DEF Next
<1> QED
  BY <1>1, SetUpInit, PTL DEF Spec

LEMMA ReplyAfterAll ==
  ASSUME SetUpInvariant, NEW c \in got
  PROVE  /\ addr = Channels /\ (HasAmf => backlog = "accepted")
         /\ \A d \in Channels : answer[d] # "reset"
<1>1. TypeOK /\ exercise \in 3 .. 5 /\ c \in Channels /\ gnb \in Nat
  <2>1. TypeOK
    BY DEF SetUpInvariant
  <2> QED
    BY <2>1, SetUpTypes DEF TypeOK
<1>2. gnb > ReplyAt(c)
  BY <1>1 DEF SetUpInvariant, ChannelFacts
<1>3. ASSUME NEW d \in Channels PROVE d \in addr /\ answer[d] # "reset"
  <2>1. ReplyAt(c) \in Nat /\ HearAt(d) \in Nat /\ HearAt(d) < ReplyAt(c)
    BY <1>1, Positions
  <2> QED
    BY <1>1, <1>2, <2>1 DEF SetUpInvariant, ChannelFacts
<1>4. HasAmf => gnb > AcceptAt
  BY <1>1, <1>2, Positions
<1> QED
  BY <1>1, <1>3, <1>4 DEF SetUpInvariant, TypeOK

LEMMA NoHalfUe == SetUpInvariant => AllOrNone
<1> SUFFICES ASSUME SetUpInvariant, UeDone, NEW c \in got PROVE got = Channels
  BY DEF AllOrNone
<1>1. TypeOK /\ exercise \in 3 .. 5 /\ got \subseteq Channels /\ ue = UeSteps + 1
  <2>1. TypeOK
    BY DEF SetUpInvariant
  <2> QED
    BY <2>1, SetUpTypes DEF TypeOK
<1>2. ASSUME NEW d \in Channels PROVE d \in got
  <2>1. ue > ReceiveAt(d) /\ d \in Channel
    BY <1>1, Positions
  <2>2. answer[d] \in {"none", "reply", "reset"} /\ answer[d] # "reset"
    BY <1>1, <2>1, ReplyAfterAll DEF TypeOK
  <2> QED
    BY <2>1, <2>2 DEF SetUpInvariant, ChannelFacts
<1> QED
  BY <1>1, <1>2

-----------------------------------------------------------------------------
(* The connection *)

\* Nothing was taken before the set-up had returned.
TakenAfterSetUp == read > 0 => GnbDone \/ "gnb" \in failed

\* Where in the stream the gNB is: after the last half it took, or at the end, and
\* never further than whole messages would have brought it.
StreamPosition ==
  /\ read <= 2 * Len(taken)
  /\ taken = << >> => read = 0
  /\ taken # << >> => IF taken[Len(taken)] = <<0, 0>>
                      THEN link = "closed" /\ read = 2 * sent
                      ELSE LastHalf(taken[Len(taken)]) = read

LinkInvariant ==
  /\ SetUpInvariant /\ LinkTypeOK /\ read \in Nat /\ arrived \in Nat
  /\ TakenAfterSetUp /\ IntactInOrder /\ StreamPosition

LEMMA LinkInitially == LinkInit => LinkInvariant
<1> SUFFICES ASSUME LinkInit PROVE LinkInvariant
  OBVIOUS
<1>1. SetUpInvariant
  BY SetUpInit DEF LinkInit
<1>2. LinkTypeOK
  <2>1. started \in BOOLEAN /\ short \in BOOLEAN
    BY Zenon DEF LinkInit
  <2>2. TypeOK /\ sent \in 0 .. MaxNgap
    BY <1>1, NgapLinkAssumption DEF LinkInit, SetUpInvariant
  <2> QED
    BY <2>1, <2>2 DEF LinkInit, LinkTypeOK
<1>3. TakenAfterSetUp /\ IntactInOrder /\ StreamPosition
  BY DEF LinkInit, TakenAfterSetUp, IntactInOrder, StreamPosition
<1> QED
  BY <1>1, <1>2, <1>3 DEF LinkInvariant, LinkInit

\* The set-up never takes back what let the gNB go on.
LEMMA SetUpGoesOn ==
  ASSUME SetUpInvariant, SetUpInvariant', [Next]_vars, GnbDone \/ "gnb" \in failed
  PROVE  (GnbDone \/ "gnb" \in failed)'
<1>1. exercise' = exercise /\ gnb \in Nat /\ failed \subseteq failed'
      /\ (gnb' = gnb \/ gnb' = gnb + 1)
  <2>1. gnb \in Nat
    BY SetUpTypes DEF SetUpInvariant, TypeOK
  <2> QED
    BY <2>1 DEF Next, vars, Gnb, GnbProceeds, Ue, UeProceeds, Amf, GnbBind, GnbHear, GnbReply, GnbListen, GnbAccept,
       GnbGivesUp, GnbHearFails, UeHello, UeReceive, UeGivesUp, AmfConnect, AmfGivesUp
<1>2. GnbInit' = GnbInit /\ Len(GnbInit) \in Nat
  <2>1. Len(GnbInit) \in Nat
    BY GnbProgram DEF SetUpInvariant, TypeOK, GnbSteps
  <2> QED
    BY <1>1, <2>1, SameTables
<1> QED
  BY <1>1, <1>2 DEF GnbDone

\* A step that takes nothing, and leaves a closed connection as it is, keeps what is
\* said of the stream.
LEMMA StreamStays ==
  ASSUME LinkInvariant, UNCHANGED <<read, taken, short>>,
         link = "closed" => UNCHANGED <<link, sent>>
  PROVE  (IntactInOrder /\ StreamPosition)'
<1>1. IntactInOrder'
  <2> SUFFICES ASSUME NEW j \in DOMAIN taken
               PROVE  \/ GoesOn(j)' /\ (short \/ taken[j] = <<2 * j - 1, 2 * j>>)
                      \/ /\ taken[j] = <<0, 0>> /\ link' = "closed" /\ j > sent'
                         /\ IF j = 1 THEN sent' = 0 ELSE LastHalf(taken[j - 1]) \in {0, 2 * sent'}
    BY DEF IntactInOrder, LastHalf
  <2>1. GoesOn(j)' = GoesOn(j)
    BY DEF GoesOn, LastHalf
  <2> QED
    BY <2>1 DEF LinkInvariant, IntactInOrder
<1>2. StreamPosition'
  BY DEF LinkInvariant, StreamPosition, LastHalf
<1> QED
  BY <1>1, <1>2

LEMMA SetUpKeepsLink ==
  ASSUME LinkInvariant, [Next]_vars, UNCHANGED linkVars
  PROVE  LinkInvariant'
<1>1. SetUpInvariant'
  BY GnbKeepsSetUp, UeKeepsSetUp, AmfKeepsSetUp, StutterKeepsSetUp DEF Next, LinkInvariant
<1>2. UNCHANGED <<sent, arrived, read, link, started, taken, short>>
  BY DEF linkVars
<1>3. LinkTypeOK'
  BY <1>1, <1>2 DEF LinkInvariant, LinkTypeOK, SetUpInvariant
<1>4. IntactInOrder' /\ StreamPosition'
  BY <1>2, StreamStays
<1>5. TakenAfterSetUp'
  BY <1>1, <1>2, SetUpGoesOn DEF LinkInvariant, TakenAfterSetUp
<1> QED
  BY <1>1, <1>2, <1>3, <1>4, <1>5 DEF LinkInvariant

LEMMA LinkStep ==
  ASSUME LinkInvariant, UNCHANGED vars,
         send_ngap \/ Arrive \/ AmfCloses \/ LinkBreaks
           \/ receive_ngap \/ ReceiveNothing \/ ReceiveFails
  PROVE  LinkInvariant'
<1> USE NgapLinkAssumption
<1> DEFINE Halves == 0 .. 2 * MaxNgap
<1>1. SetUpInvariant' /\ TypeOK'
  BY StutterKeepsSetUp DEF LinkInvariant, SetUpInvariant
<1>2. /\ sent \in 0 .. MaxNgap /\ read \in Nat /\ arrived \in Nat
      /\ read <= arrived /\ arrived <= 2 * sent
      /\ link \in {"up", "closed", "broken"}
      /\ taken \in Seq(Halves \X Halves) /\ Len(taken) \in Nat
  BY DEF LinkInvariant, LinkTypeOK
<1>3. started \in BOOLEAN /\ short \in BOOLEAN
  BY DEF LinkInvariant, LinkTypeOK
<1>4. started' \in BOOLEAN /\ short' \in BOOLEAN
  BY <1>3, Zenon DEF send_ngap, Arrive, AmfCloses, LinkBreaks, receive_ngap, ReceiveNothing,
                     ReceiveFails
<1>5. exercise' = exercise /\ gnb' = gnb /\ failed' = failed /\ GnbInit' = GnbInit
  BY SameTables DEF vars
<1>6. read' = read => TakenAfterSetUp'
  BY <1>5 DEF LinkInvariant, TakenAfterSetUp, GnbDone
<1>7. IntactInOrder /\ StreamPosition
  BY DEF LinkInvariant
<1>8. CASE send_ngap
  <2>1. /\ sent' = sent + 1 /\ sent < MaxNgap /\ link = "up"
        /\ UNCHANGED <<arrived, read, link, taken, short>>
    BY <1>8 DEF send_ngap
  <2>2. LinkTypeOK'
    BY <1>1, <1>2, <1>4, <2>1 DEF LinkTypeOK
  <2>3. IntactInOrder' /\ StreamPosition'
    BY <2>1, StreamStays
  <2> QED
    BY <1>1, <1>2, <1>6, <2>1, <2>2, <2>3 DEF LinkInvariant
<1>9. CASE Arrive
  <2>1. arrived < 2 * sent /\ arrived' = arrived + 1 /\ UNCHANGED <<sent, read, link, taken, short>>
    BY <1>9 DEF Arrive
  <2>2. LinkTypeOK'
    BY <1>1, <1>2, <1>4, <2>1 DEF LinkTypeOK
  <2>3. IntactInOrder' /\ StreamPosition'
    BY <2>1, StreamStays
  <2> QED
    BY <1>1, <1>2, <1>6, <2>1, <2>2, <2>3 DEF LinkInvariant
<1>10. CASE AmfCloses
  <2>1. link = "up" /\ link' = "closed" /\ UNCHANGED <<sent, arrived, read, taken, short>>
    BY <1>10 DEF AmfCloses
  <2>2. LinkTypeOK'
    BY <1>1, <1>2, <1>4, <2>1 DEF LinkTypeOK
  <2>3. IntactInOrder' /\ StreamPosition'
    BY <2>1, StreamStays
  <2> QED
    BY <1>1, <1>2, <1>6, <2>1, <2>2, <2>3 DEF LinkInvariant
<1>11. CASE LinkBreaks
  <2>1. /\ link = "up" /\ link' = "broken"
        /\ sent' = (read + 1) \div 2 /\ arrived' = read
        /\ UNCHANGED <<read, taken, short>>
    BY <1>11 DEF LinkBreaks
  <2>2. sent' \in Nat /\ sent' <= sent /\ read <= 2 * sent'
    BY <1>2, <2>1
  <2>3. LinkTypeOK'
    BY <1>1, <1>2, <1>4, <2>1, <2>2 DEF LinkTypeOK
  <2>4. IntactInOrder' /\ StreamPosition'
    BY <2>1, StreamStays
  <2> QED
    BY <1>1, <1>2, <1>6, <2>1, <2>3, <2>4 DEF LinkInvariant
<1>12. CASE receive_ngap
  <2> DEFINE n == bytes_taken(arrived - read)
             message == <<read + 1, IF n = 2 THEN read + 2 ELSE 0>>
  <2>1. /\ read < arrived /\ read' = read + n /\ taken' = Append(taken, message)
        /\ short' = (short \/ arrived - read = 1)
        /\ GnbDone \/ "gnb" \in failed
        /\ UNCHANGED <<sent, arrived, link>>
    BY <1>12 DEF receive_ngap, SetUpReturned
  <2>2. /\ n \in 1 .. 2 /\ read + n <= arrived
        /\ arrived - read # 1 => n = 2
    BY <1>2, <2>1 DEF bytes_taken
  <2>3. message \in Halves \X Halves
    BY <1>2, <2>1, <2>2
  <2> HIDE DEF n
  <2>4. /\ taken' \in Seq(Halves \X Halves) /\ Len(taken') = Len(taken) + 1
        /\ \A j \in 1 .. Len(taken) : taken'[j] = taken[j]
        /\ taken'[Len(taken) + 1] = message
    <3> HIDE DEF message, Halves
    <3> QED
      BY <1>2, <2>1, <2>3
  <2>5. LinkTypeOK'
    BY <1>1, <1>2, <1>4, <2>1, <2>2, <2>4 DEF LinkTypeOK
  <2>6. taken # << >> => /\ Len(taken) \in 1 .. Len(taken)
                         /\ taken'[Len(taken)] = taken[Len(taken)]
                         /\ taken[Len(taken)] # <<0, 0>>
                         /\ LastHalf(taken[Len(taken)]) = read
    BY <1>2, <1>7, <2>1, <2>4, EmptySeq DEF StreamPosition
  <2>7. Len(taken) = 0 => read = 0
    BY <1>2, <1>7, EmptySeq DEF StreamPosition
  <2>8. ASSUME NEW j \in DOMAIN taken' PROVE
          \/ GoesOn(j)' /\ (short' \/ taken'[j] = <<2 * j - 1, 2 * j>>)
          \/ /\ taken'[j] = <<0, 0>> /\ link' = "closed" /\ j > sent'
             /\ IF j = 1 THEN sent' = 0 ELSE LastHalf(taken'[j - 1]) \in {0, 2 * sent'}
    <3>1. j \in 1 .. Len(taken) + 1
      BY <1>2, <2>4
    <3>2. CASE j <= Len(taken)
      <4>1. /\ j \in DOMAIN taken /\ taken'[j] = taken[j]
            /\ j # 1 => taken'[j - 1] = taken[j - 1]
        <5>1. j \in 1 .. Len(taken) /\ (j # 1 => j - 1 \in 1 .. Len(taken))
          BY <1>2, <3>1, <3>2
        <5>2. DOMAIN taken = 1 .. Len(taken)
          BY <1>2
        <5> QED
          BY <2>4, <5>1, <5>2
      <4>2. GoesOn(j)' = GoesOn(j)
        BY <4>1 DEF GoesOn, LastHalf
      <4> QED
        <5>1. \/ GoesOn(j) /\ (short \/ taken[j] = <<2 * j - 1, 2 * j>>)
              \/ /\ taken[j] = <<0, 0>> /\ link = "closed" /\ j > sent
                 /\ IF j = 1 THEN sent = 0 ELSE LastHalf(taken[j - 1]) \in {0, 2 * sent}
          BY <1>7, <4>1 DEF IntactInOrder
        <5> QED
          BY <2>1, <4>1, <4>2, <5>1
    <3>3. CASE j = Len(taken) + 1
      <4>1. taken'[j][1] = read + 1 /\ taken'[j][2] \in {0, read + 2}
        BY <2>4, <3>3
      <4>2. j # 1 => LastHalf(taken'[j - 1]) = read
        BY <1>2, <2>6, <3>3, EmptySeq
      <4>3. GoesOn(j)'
        BY <1>2, <2>7, <3>3, <4>1, <4>2 DEF GoesOn, LastHalf
      <4>4. ASSUME ~short' PROVE taken'[j] = <<2 * j - 1, 2 * j>>
        <5>1. ~short /\ n = 2
          BY <2>1, <2>2, <4>4
        <5>2. read = 2 * Len(taken)
          <6>1. CASE Len(taken) = 0
            BY <2>7, <6>1
          <6>2. CASE Len(taken) # 0
            <7>1. Len(taken) \in DOMAIN taken /\ LastHalf(taken[Len(taken)]) = read
              BY <1>2, <2>6, <6>2, EmptySeq
            <7>2. taken[Len(taken)] = <<2 * Len(taken) - 1, 2 * Len(taken)>>
              <8>1. taken[Len(taken)] # <<0, 0>>
                BY <1>2, <2>6, <6>2, EmptySeq
              <8> QED
                BY <1>7, <5>1, <7>1, <8>1 DEF IntactInOrder
            <7> QED
              BY <1>2, <6>2, <7>1, <7>2 DEF LastHalf
          <6> QED
            BY <6>1, <6>2
        <5> QED
          BY <1>2, <2>4, <3>3, <5>1, <5>2
      <4> QED
        BY <4>3, <4>4
    <3> QED
      BY <1>2, <3>1, <3>2, <3>3
  <2>9. IntactInOrder'
    BY <2>8 DEF IntactInOrder, LastHalf
  <2>10. StreamPosition'
    <3>1. taken' # << >> /\ LastHalf(taken'[Len(taken')]) = read'
      <4>1. message[1] = read + 1 /\ message[2] = (IF n = 2 THEN read + 2 ELSE 0)
        OBVIOUS
      <4> HIDE DEF message
      <4> QED
        BY <1>2, <2>1, <2>2, <2>4, <4>1, EmptySeq DEF LastHalf
    <3> QED
      BY <1>2, <1>7, <2>1, <2>2, <2>4, <3>1 DEF StreamPosition, LastHalf
  <2>11. TakenAfterSetUp'
    BY <1>5, <2>1 DEF TakenAfterSetUp, GnbDone
  <2> QED
    BY <1>1, <1>2, <2>1, <2>2, <2>5, <2>9, <2>10, <2>11 DEF LinkInvariant
<1>13. CASE ReceiveNothing
  <2>1. /\ link = "closed" /\ read = 2 * sent /\ taken' = Append(taken, <<0, 0>>)
        /\ UNCHANGED <<sent, arrived, read, link, short>>
    BY <1>13 DEF ReceiveNothing
  <2>2. <<0, 0>> \in Halves \X Halves
    OBVIOUS
  <2>3. /\ taken' \in Seq(Halves \X Halves) /\ Len(taken') = Len(taken) + 1
        /\ \A j \in 1 .. Len(taken) : taken'[j] = taken[j]
        /\ taken'[Len(taken) + 1] = <<0, 0>>
    <3> HIDE DEF Halves
    <3> QED
      BY <1>2, <2>1, <2>2
  <2>4. LinkTypeOK'
    BY <1>1, <1>2, <1>4, <2>1, <2>3 DEF LinkTypeOK
  <2>5. ASSUME NEW j \in DOMAIN taken' PROVE
          \/ GoesOn(j)' /\ (short' \/ taken'[j] = <<2 * j - 1, 2 * j>>)
          \/ /\ taken'[j] = <<0, 0>> /\ link' = "closed" /\ j > sent'
             /\ IF j = 1 THEN sent' = 0 ELSE LastHalf(taken'[j - 1]) \in {0, 2 * sent'}
    <3>1. j \in 1 .. Len(taken) + 1
      BY <1>2, <2>3
    <3>2. CASE j <= Len(taken)
      <4>1. /\ j \in DOMAIN taken /\ taken'[j] = taken[j]
            /\ j # 1 => taken'[j - 1] = taken[j - 1]
        <5>1. j \in 1 .. Len(taken) /\ (j # 1 => j - 1 \in 1 .. Len(taken))
          BY <1>2, <3>1, <3>2
        <5>2. DOMAIN taken = 1 .. Len(taken)
          BY <1>2
        <5> QED
          BY <2>3, <5>1, <5>2
      <4>2. GoesOn(j)' = GoesOn(j)
        BY <4>1 DEF GoesOn, LastHalf
      <4> QED
        <5>1. \/ GoesOn(j) /\ (short \/ taken[j] = <<2 * j - 1, 2 * j>>)
              \/ /\ taken[j] = <<0, 0>> /\ link = "closed" /\ j > sent
                 /\ IF j = 1 THEN sent = 0 ELSE LastHalf(taken[j - 1]) \in {0, 2 * sent}
          BY <1>7, <4>1 DEF IntactInOrder
        <5> QED
          BY <2>1, <4>1, <4>2, <5>1
    <3>3. CASE j = Len(taken) + 1
      <4>1. taken'[j] = <<0, 0>> /\ j > sent
        BY <1>2, <1>7, <2>1, <2>3, <3>3 DEF StreamPosition
      <4>2. ASSUME j # 1 PROVE LastHalf(taken'[j - 1]) \in {0, 2 * sent}
        <5>1. taken # << >> /\ taken'[j - 1] = taken[Len(taken)]
          <6>1. j - 1 = Len(taken) /\ Len(taken) \in 1 .. Len(taken)
            BY <1>2, <3>3, <4>2
          <6>2. taken # << >>
            BY <6>1, EmptySeq
          <6> QED
            BY <2>3, <6>1, <6>2
        <5>2. LastHalf(taken[Len(taken)]) \in {0, 2 * sent}
          <6>1. CASE taken[Len(taken)] = <<0, 0>>
            BY <6>1 DEF LastHalf
          <6>2. CASE taken[Len(taken)] # <<0, 0>>
            BY <1>7, <2>1, <5>1, <6>2 DEF StreamPosition
          <6> QED
            BY <6>1, <6>2
        <5> QED
          BY <5>1, <5>2
      <4>3. ASSUME j = 1 PROVE sent = 0
        <5>1. taken = << >>
          BY <1>2, <3>3, <4>3, EmptySeq
        <5> QED
          BY <1>2, <1>7, <2>1, <5>1 DEF StreamPosition
      <4> QED
        BY <2>1, <4>1, <4>2, <4>3
    <3> QED
      BY <1>2, <3>1, <3>2, <3>3
  <2>6. IntactInOrder'
    BY <2>5 DEF IntactInOrder, LastHalf
  <2>7. StreamPosition'
    <3>1. taken' # << >> /\ taken'[Len(taken')] = <<0, 0>>
      BY <1>2, <2>3, EmptySeq
    <3>2. LastHalf(taken'[Len(taken')]) = 0
      BY <3>1 DEF LastHalf
    <3> QED
      BY <1>2, <1>7, <2>1, <2>3, <3>1, <3>2 DEF StreamPosition, LastHalf
  <2> QED
    BY <1>1, <1>2, <1>6, <2>1, <2>4, <2>6, <2>7 DEF LinkInvariant
<1>14. CASE ReceiveFails
  <2>1. UNCHANGED <<sent, arrived, read, link, taken, short>>
    BY <1>14 DEF ReceiveFails
  <2>2. LinkTypeOK'
    BY <1>1, <1>2, <1>4, <2>1 DEF LinkTypeOK
  <2>3. IntactInOrder' /\ StreamPosition'
    BY <2>1, StreamStays
  <2> QED
    BY <1>1, <1>2, <1>6, <2>1, <2>2, <2>3 DEF LinkInvariant
<1> QED
  BY <1>8, <1>9, <1>10, <1>11, <1>12, <1>13, <1>14

(***************************************************************************)
(* The connection and the set-up it follows, in every reachable state: an  *)
(* inductive invariant.                                                    *)
(***************************************************************************)
THEOREM LinkCorrect == LinkSpec => []LinkInvariant
<1>1. LinkInvariant /\ [LinkNext]_allVars => LinkInvariant'
  <2> SUFFICES ASSUME LinkInvariant, [LinkNext]_allVars PROVE LinkInvariant'
    OBVIOUS
  <2>1. CASE SetUp
    BY <2>1, SetUpKeepsLink DEF SetUp
  <2>2. CASE \/ send_ngap \/ Arrive \/ AmfCloses \/ LinkBreaks
             \/ receive_ngap \/ ReceiveNothing \/ ReceiveFails
    <3>1. UNCHANGED vars
      BY <2>2 DEF send_ngap, Arrive, AmfCloses, LinkBreaks, receive_ngap, ReceiveNothing,
                  ReceiveFails, vars
    <3> QED
      BY <2>2, <3>1, LinkStep
  <2>3. CASE UNCHANGED allVars
    BY <2>3, SetUpKeepsLink DEF allVars
  <2> QED
    BY <2>1, <2>2, <2>3 DEF LinkNext
<1> QED
  BY <1>1, LinkInitially, PTL DEF LinkSpec

(***************************************************************************)
(* LinkTypeOK in every reachable state.                                    *)
(***************************************************************************)
THEOREM LinkTypeCorrect == LinkSpec => []LinkTypeOK
<1>1. LinkInvariant => LinkTypeOK
  BY DEF LinkInvariant
<1> QED
  BY <1>1, LinkCorrect, PTL

(***************************************************************************)
(* A UE that got a reply on any channel is known to the gNB on every       *)
(* channel, and the gNB has its AMF.                                       *)
(***************************************************************************)
THEOREM ReplyComesLast == LinkSpec => []ReplyMeansReady
<1>1. LinkInvariant => ReplyMeansReady
  BY ReplyAfterAll DEF LinkInvariant, ReplyMeansReady
<1> QED
  BY <1>1, LinkCorrect, PTL

(***************************************************************************)
(* No UE ends its set-up with replies on some of its channels only.        *)
(***************************************************************************)
THEOREM NeverHalfConnected == LinkSpec => []AllOrNone
<1>1. LinkInvariant => AllOrNone
  BY NoHalfUe DEF LinkInvariant
<1> QED
  BY <1>1, LinkCorrect, PTL

(***************************************************************************)
(* However the bytes come in, the gNB takes the AMF's stream without loss, *)
(* repetition or disorder, in whole messages as long as no receive comes   *)
(* short; messages that nobody sent come only after an orderly end and     *)
(* after all that was sent.                                                *)
(***************************************************************************)
THEOREM TakenIntact == LinkSpec => []IntactInOrder
<1>1. LinkInvariant => IntactInOrder
  BY DEF LinkInvariant
<1> QED
  BY <1>1, LinkCorrect, PTL

(***************************************************************************)
(* Unless its set-up failed, the gNB knows its UE on every channel before  *)
(* it takes its first message from the AMF.                                *)
(***************************************************************************)
THEOREM PagedUeKnown == LinkSpec => []PagedUeIsKnown
<1>1. LinkInvariant => PagedUeIsKnown
  <2> SUFFICES ASSUME LinkInvariant, read > 0, "gnb" \notin failed PROVE addr = Channels
    BY DEF PagedUeIsKnown
  <2>1. SetUpInvariant /\ TypeOK /\ GnbDone
    BY DEF LinkInvariant, TakenAfterSetUp, SetUpInvariant
  <2>2. gnb = GnbSteps + 1 /\ exercise \in 3 .. 5 /\ GnbSteps \in Nat
    BY <2>1, SetUpTypes
  <2>3. ASSUME NEW c \in Channels PROVE c \in addr
    <3>1. HearAt(c) < ReplyAt(c) /\ ReplyAt(c) <= GnbSteps
          /\ HearAt(c) \in Nat /\ ReplyAt(c) \in Nat
      BY <2>2, Positions
    <3> QED
      BY <2>1, <2>2, <3>1 DEF SetUpInvariant, ChannelFacts
  <2> QED
    BY <2>1, <2>3 DEF TypeOK
<1> QED
  BY <1>1, LinkCorrect, PTL
=============================================================================

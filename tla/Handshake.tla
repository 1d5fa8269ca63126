------------------------------ MODULE Handshake ------------------------------
(***************************************************************************)
(* How the programs of exercises 3, 4 and 5 find each other before their   *)
(* loops and threads start (initConnection, udp_tcp_init, tcp_init,        *)
(* udp_init).  Each program is a straight line of socket calls, kept here  *)
(* as a sequence of steps; a call that fails ends the function early.      *)
(*                                                                         *)
(* The programs are started by hand, in any order; Sleep(500) in the AMF   *)
(* and Sleep(1000) in the UE give the gNB time but wait for nothing.  All  *)
(* addresses are 127.0.0.1: a datagram to an open port arrives, and one to *)
(* a closed port makes the sender's next recvfrom fail (WSAECONNRESET).    *)
(***************************************************************************)
EXTENDS Naturals, Sequences

VARIABLES
  exercise,  \* which exercise's programs these are; never changes
  gnb,       \* the next step of the gNB
  ue,        \* the next step of the UE
  amf,       \* the AMF: "connecting" or "connected"
  failed,    \* the programs whose set-up function has returned early
  open,      \* ports of the gNB that take datagrams or connections
  backlog,   \* the AMF's connection: "none", "pending" or "accepted"
  inbox,     \* channels on which a hello waits in the gNB's socket
  addr,      \* channels on which the gNB knows the UE's address
  answer,    \* what the UE's socket of a channel has for recvfrom
  got        \* channels on which the UE has got its reply

vars == <<exercise, gnb, ue, amf, failed, open, backlog,
          inbox, addr, answer, got>>

Channel == {"mib", "rrc"}
Step(op, port) == [op |-> op, port |-> port]

-----------------------------------------------------------------------------
(* The programs, step by step.  Binding the TCP port changes nothing that  *)
(* another program could see before listen, so it is no step of its own.   *)

GnbInit3 == <<Step("bind", "mib"), Step("hear", "mib"), Step("reply", "mib")>>

\* Mutant: the port of exercise 5 is opened in exercise 4 too.
GnbInit4_two_ports ==
  <<Step("bind", "mib"), Step("bind", "rrc"), Step("listen", "amf"),
    Step("accept", "amf"), Step("hear", "mib"), Step("reply", "mib")>>

GnbInit4 ==
  <<Step("bind", "mib"), Step("listen", "amf"), Step("accept", "amf"),
    Step("hear", "mib"), Step("reply", "mib")>>

\* Mutant: the UE is served before the AMF.
GnbInit5_ue_first ==
  <<Step("bind", "mib"), Step("bind", "rrc"), Step("listen", "amf"),
    Step("hear", "mib"), Step("hear", "rrc"),
    Step("reply", "mib"), Step("reply", "rrc"), Step("accept", "amf")>>

\* Mutant: each hello is answered before the next is awaited.
GnbInit5_reply_at_once ==
  <<Step("bind", "mib"), Step("bind", "rrc"), Step("listen", "amf"),
    Step("accept", "amf"), Step("hear", "mib"), Step("reply", "mib"),
    Step("hear", "rrc"), Step("reply", "rrc")>>

\* Mutant: only the first socket replies.
GnbInit5_one_reply ==
  <<Step("bind", "mib"), Step("bind", "rrc"), Step("listen", "amf"),
    Step("accept", "amf"), Step("hear", "mib"), Step("hear", "rrc"),
    Step("reply", "mib")>>

\* Mutant: the second hello is not awaited.
GnbInit5_one_hello ==
  <<Step("bind", "mib"), Step("bind", "rrc"), Step("listen", "amf"),
    Step("accept", "amf"), Step("hear", "mib"),
    Step("reply", "mib"), Step("reply", "rrc")>>

\* Mutant: the AMF's connection is never accepted.
GnbInit5_no_accept ==
  <<Step("bind", "mib"), Step("bind", "rrc"), Step("listen", "amf"),
    Step("hear", "mib"), Step("hear", "rrc"),
    Step("reply", "mib"), Step("reply", "rrc")>>

GnbInit5 ==
  <<Step("bind", "mib"), Step("bind", "rrc"), Step("listen", "amf"),
    Step("accept", "amf"), Step("hear", "mib"), Step("hear", "rrc"),
    Step("reply", "mib"), Step("reply", "rrc")>>

UeInit3 == <<Step("hello", "mib"), Step("receive", "mib")>>
UeInit4 == <<Step("hello", "mib"), Step("receive", "mib")>>
UeInit5 == <<Step("hello", "mib"), Step("hello", "rrc"),
             Step("receive", "mib"), Step("receive", "rrc")>>

GnbInit == CASE exercise = 3 -> GnbInit3
             [] exercise = 4 -> GnbInit4
             [] exercise = 5 -> GnbInit5
UeInit  == CASE exercise = 3 -> UeInit3
             [] exercise = 4 -> UeInit4
             [] exercise = 5 -> UeInit5
Channels == IF exercise = 5 THEN Channel ELSE {"mib"}
HasAmf == exercise # 3

GnbDone == gnb > Len(GnbInit)
UeDone  == ue > Len(UeInit)

\* The gNB, or the UE, is about to make this call on this port.
GnbAt(op, port) ==
  "gnb" \notin failed /\ ~GnbDone /\ GnbInit[gnb] = Step(op, port)
UeAt(op, port) ==
  "ue" \notin failed /\ ~UeDone /\ UeInit[ue] = Step(op, port)

Init ==
  /\ exercise \in 3 .. 5
  /\ gnb = 1 /\ ue = 1 /\ amf = "connecting"
  /\ failed = {}
  /\ open = {}
  /\ backlog = "none"
  /\ inbox = {} /\ addr = {} /\ got = {}
  /\ answer = [c \in Channel |-> "none"]

-----------------------------------------------------------------------------
(* The gNB *)

GnbBind(c) ==
  /\ GnbAt("bind", c)
  /\ open' = open \cup {c}
  /\ gnb' = gnb + 1
  /\ UNCHANGED <<exercise, ue, amf, failed, backlog, inbox, addr, answer, got>>

GnbListen ==
  /\ GnbAt("listen", "amf")
  /\ open' = open \cup {"amf"}
  /\ gnb' = gnb + 1
  /\ UNCHANGED <<exercise, ue, amf, failed, backlog, inbox, addr, answer, got>>

\* accept blocks until the AMF has connected.
GnbAccept ==
  /\ GnbAt("accept", "amf")
  /\ backlog = "pending"
  /\ backlog' = "accepted"
  /\ gnb' = gnb + 1
  /\ UNCHANGED <<exercise, ue, amf, failed, open, inbox, addr, answer, got>>

\* A call up to accept fails: the sockets are closed, with all that waits in
\* them, and main goes on without them.
GnbGivesUp ==
  /\ \E op \in {"bind", "listen", "accept"}, port \in Channel \cup {"amf"} :
       GnbAt(op, port)
  /\ failed' = failed \cup {"gnb"}
  /\ open' = {}
  /\ inbox' = {}
  /\ UNCHANGED <<exercise, gnb, ue, amf, backlog, addr, answer, got>>

\* recvfrom blocks for a hello and stores the address it came from.
GnbHear(c) ==
  /\ GnbAt("hear", c)
  /\ c \in inbox
  /\ inbox' = inbox \ {c}
  /\ addr' = addr \cup {c}
  /\ gnb' = gnb + 1
  /\ UNCHANGED <<exercise, ue, amf, failed, open, backlog, answer, got>>

\* recvfrom fails: the function returns and leaves the sockets open.
GnbHearFails ==
  /\ \E c \in Channel : GnbAt("hear", c)
  /\ failed' = failed \cup {"gnb"}
  /\ UNCHANGED <<exercise, gnb, ue, amf, open, backlog, inbox, addr, answer, got>>

GnbReply(c) ==
  /\ GnbAt("reply", c)
  /\ answer' = [answer EXCEPT ![c] = "reply"]
  /\ gnb' = gnb + 1
  /\ UNCHANGED <<exercise, ue, amf, failed, open, backlog, inbox, addr, got>>

-----------------------------------------------------------------------------
(* The AMF *)

AmfConnect ==
  /\ HasAmf /\ "amf" \notin failed
  /\ amf = "connecting"
  /\ "amf" \in open
  /\ amf' = "connected"
  /\ backlog' = "pending"
  /\ UNCHANGED <<exercise, gnb, ue, failed, open, inbox, addr, answer, got>>

\* connect is refused, or a call before it fails: there is no second attempt.
AmfGivesUp ==
  /\ HasAmf /\ "amf" \notin failed
  /\ amf = "connecting"
  /\ failed' = failed \cup {"amf"}
  /\ UNCHANGED <<exercise, gnb, ue, amf, open, backlog, inbox, addr, answer, got>>

-----------------------------------------------------------------------------
(* The UE *)

UeHello(c) ==
  /\ UeAt("hello", c)
  /\ \/ /\ c \in open
        /\ inbox' = inbox \cup {c}
        /\ UNCHANGED answer
     \/ /\ c \notin open
        /\ answer' = [answer EXCEPT ![c] = "reset"]
        /\ UNCHANGED inbox
  /\ ue' = ue + 1
  /\ UNCHANGED <<exercise, gnb, amf, failed, open, backlog, addr, got>>

\* A call up to sendto fails: the UE closes its socket and main goes on.
UeGivesUp ==
  /\ \E c \in Channel : UeAt("hello", c)
  /\ failed' = failed \cup {"ue"}
  /\ UNCHANGED <<exercise, gnb, ue, amf, open, backlog, inbox, addr, answer, got>>

\* recvfrom blocks for a reply; when it fails, that is printed and no more.
UeReceive(c) ==
  /\ UeAt("receive", c)
  /\ answer[c] # "none"
  /\ got' = IF answer[c] = "reply" THEN got \cup {c} ELSE got
  /\ ue' = ue + 1
  /\ UNCHANGED <<exercise, gnb, amf, failed, open, backlog, inbox, addr, answer>>

-----------------------------------------------------------------------------
GnbProceeds ==
  \/ \E c \in Channel : GnbBind(c) \/ GnbHear(c) \/ GnbReply(c)
  \/ GnbListen \/ GnbAccept
UeProceeds == \E c \in Channel : UeHello(c) \/ UeReceive(c)

Gnb == GnbProceeds \/ GnbGivesUp \/ GnbHearFails
Ue  == UeProceeds \/ UeGivesUp
Amf == AmfConnect \/ AmfGivesUp

Next == Gnb \/ Ue \/ Amf

Spec == Init /\ [][Next]_vars

(***************************************************************************)
(* Every program is started, and a call with something to return for       *)
(* returns.  accept and recvfrom have no timeout: with nothing to return   *)
(* for they may fail but need not, and block for ever.  The AMF's connect  *)
(* does not block: it is taken or refused.                                 *)
(***************************************************************************)
Fairness == WF_vars(GnbProceeds) /\ WF_vars(UeProceeds) /\ WF_vars(Amf)

FairSpec == Spec /\ Fairness

-----------------------------------------------------------------------------
TypeOK ==
  /\ exercise \in 3 .. 5
  /\ gnb \in 1 .. Len(GnbInit) + 1
  /\ ue \in 1 .. Len(UeInit) + 1
  /\ amf \in {"connecting", "connected"}
  /\ failed \subseteq {"gnb", "ue", "amf"}
  /\ open \subseteq Channels \cup (IF HasAmf THEN {"amf"} ELSE {})
  /\ backlog \in {"none", "pending", "accepted"}
  /\ inbox \subseteq Channels /\ addr \subseteq Channels /\ got \subseteq Channels
  /\ answer \in [Channel -> {"none", "reply", "reset"}]

\* A UE that got a reply on any channel may count on the rest: the gNB knows its
\* address on every channel, so MIBs and RRCs will both reach it, and has the AMF
\* that will page it.  UE and AMF never talk to each other, and the UE's hellos may
\* arrive long before the AMF's connection.
ReplyMeansReady ==
  got # {} => addr = Channels /\ (HasAmf => backlog = "accepted")

\* A UE whose set-up has ended has replies on all of its channels or on none: it
\* never runs with MIBs but without RRCs, even when it came in the moment between
\* the gNB's two binds and one hello was lost.
AllOrNone == UeDone => got \in {{}, Channels}

\* One hello was refused, and the other was not.
HalfHeard ==
  \E c, d \in Channels : answer[c] = "reset" /\ d # c /\ answer[d] # "reset"

\* The set-up ends though accept and recvfrom may block for ever: with all programs
\* connected, or with a UE that came too early and was told so on every channel, or
\* with a failed call.  The one exception is a UE that was heard on one channel only:
\* gNB and UE then wait for each other, and nothing ever wakes either of them.
SetUpEnds ==
  <>(\/ GnbDone /\ UeDone /\ got = Channels
     \/ UeDone /\ \A c \in Channels : answer[c] = "reset"
     \/ failed # {}
     \/ [](HalfHeard /\ ~GnbDone /\ ~UeDone))
=============================================================================

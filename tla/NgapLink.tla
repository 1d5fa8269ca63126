------------------------------- MODULE NgapLink -------------------------------
(***************************************************************************)
(* What becomes of the AMF's connection after the set-up: send_ngap in the *)
(* AMF, the TCP byte stream, and receive_ngap in the gNB, called once by   *)
(* main and then for ever by listening_amf (exercises 4 and 5).            *)
(*                                                                         *)
(* TCP keeps the order of the bytes but not the bounds of the messages.  A *)
(* message is two halves here, and recv takes what has arrived, at most a  *)
(* whole message.  Nobody looks at how much that was, nor does main ask    *)
(* whether the set-up went well.                                           *)
(***************************************************************************)
EXTENDS Handshake

CONSTANTS
  MaxNgap,    \* bound: messages the AMF sends: 6 in exercise 4, no end in 5
  MaxPhantom  \* bound: receives from a connection that has ended

ASSUME NgapLinkAssumption == MaxNgap \in Nat /\ MaxPhantom \in Nat

VARIABLES
  sent,     \* messages the AMF has sent; message n is the halves 2n-1 and 2n
  arrived,  \* halves that have arrived at the gNB
  read,     \* halves that receive_ngap has taken
  link,     \* "up", "closed" by the AMF after its last message, or "broken"
  started,  \* has main's own receive_ngap returned, and listening_amf begun?
  taken,    \* history: what receive_ngap returned as messages: the two halves,
            \*   0 for bytes that were never written
  short     \* history: has recv found half a message only?

linkVars == <<sent, arrived, read, link, started, taken, short>>
allVars == <<vars, linkVars>>

LinkInit ==
  /\ Init
  /\ sent = 0 /\ arrived = 0 /\ read = 0
  /\ link = "up"
  /\ started = FALSE
  /\ taken = << >> /\ short = FALSE

SetUp == Next /\ UNCHANGED linkVars

-----------------------------------------------------------------------------
(* The AMF and the network *)

send_ngap ==
  /\ amf = "connected" /\ "amf" \in open
  /\ link = "up"
  /\ sent < MaxNgap
  /\ sent' = sent + 1
  /\ UNCHANGED <<vars, arrived, read, link, started, taken, short>>

Arrive ==
  /\ "amf" \in open
  /\ arrived < 2 * sent
  /\ arrived' = arrived + 1
  /\ UNCHANGED <<vars, sent, read, link, started, taken, short>>

\* Only the AMF of exercise 4 comes to its end.
AmfCloses ==
  /\ exercise = 4 /\ amf = "connected"
  /\ link = "up" /\ sent = MaxNgap
  /\ link' = "closed"
  /\ UNCHANGED <<vars, sent, arrived, read, started, taken, short>>

\* The AMF is killed: what was not read is gone.
LinkBreaks ==
  /\ amf = "connected" /\ link = "up"
  /\ link' = "broken"
  /\ sent' = (read + 1) \div 2 /\ arrived' = read
  /\ UNCHANGED <<vars, read, started, taken, short>>

-----------------------------------------------------------------------------
(* The gNB *)

\* main goes on when udp_tcp_init returns, for whatever reason it does.
SetUpReturned == HasAmf /\ (GnbDone \/ "gnb" \in failed)

\* Mutant: the size asked for is that of the pointer.
bytes_taken_of_pointer(available) == 1

bytes_taken(available) == IF available >= 2 THEN 2 ELSE available

receive_ngap ==
  /\ SetUpReturned /\ backlog = "accepted"
  /\ read < arrived
  /\ LET n == bytes_taken(arrived - read) IN
       /\ read' = read + n
       /\ taken' = Append(taken, <<read + 1, IF n = 2 THEN read + 2 ELSE 0>>)
  /\ short' = (short \/ arrived - read = 1)
  /\ started' = TRUE
  /\ UNCHANGED <<vars, sent, arrived, link>>

\* At the end of the stream recv returns 0, which is no SOCKET_ERROR.
ReceiveNothing ==
  /\ SetUpReturned /\ backlog = "accepted"
  /\ link = "closed" /\ read = 2 * sent
  /\ Len(taken) < MaxNgap + MaxPhantom
  /\ taken' = Append(taken, <<0, 0>>)
  /\ started' = TRUE
  /\ UNCHANGED <<vars, sent, arrived, read, link, short>>

\* On a broken connection, or with no socket at all, receive_ngap fails: main does
\* not look at that and goes on, and listening_amf tries again for ever.
ReceiveFails ==
  /\ SetUpReturned
  /\ link = "broken" \/ backlog # "accepted"
  /\ started' = TRUE
  /\ UNCHANGED <<vars, sent, arrived, read, link, taken, short>>

LinkNext ==
  \/ SetUp
  \/ send_ngap \/ Arrive \/ AmfCloses \/ LinkBreaks
  \/ receive_ngap \/ ReceiveNothing \/ ReceiveFails

LinkSpec == LinkInit /\ [][LinkNext]_allVars

\* Nothing is assumed of the AMF once it is connected; TCP delivers what it has,
\* and the gNB receives without pause.
LinkFairSpec ==
  /\ LinkSpec /\ Fairness
  /\ WF_allVars(Arrive)
  /\ WF_allVars(receive_ngap)

-----------------------------------------------------------------------------
LinkTypeOK ==
  /\ TypeOK
  /\ sent \in 0 .. MaxNgap
  /\ 0 <= read /\ read <= arrived /\ arrived <= 2 * sent
  /\ link \in {"up", "closed", "broken"}
  /\ started \in BOOLEAN /\ short \in BOOLEAN
  /\ taken \in Seq((0 .. 2 * MaxNgap) \X (0 .. 2 * MaxNgap))

\* The last half that a receive took.
LastHalf(m) == IF m[2] = 0 THEN m[1] ELSE m[2]

\* The j-th receive goes on where the one before it ended.
GoesOn(j) ==
  /\ taken[j][1] = IF j = 1 THEN 1 ELSE LastHalf(taken[j - 1]) + 1
  /\ taken[j][2] \in {0, taken[j][1] + 1}

\* What the gNB takes for messages is the AMF's stream piece by piece: however the
\* bytes come in, none is lost, taken twice or out of its place, and as long as no
\* receive came short the pieces are the messages, whole.  When the AMF has closed
\* the connection other messages follow, of bytes that nobody wrote, but none before
\* all that was sent is taken.
IntactInOrder ==
  \A j \in DOMAIN taken :
    \/ /\ GoesOn(j)
       /\ short \/ taken[j] = <<2 * j - 1, 2 * j>>
    \/ /\ taken[j] = <<0, 0>> /\ link = "closed" /\ j > sent
       /\ IF j = 1 THEN sent = 0 ELSE LastHalf(taken[j - 1]) \in {0, 2 * sent}

\* Before it takes its first message the gNB knows its UE on every channel, though
\* AMF and UE come in any order and the AMF may send long before: unless the set-up
\* failed, a page has where to go.
PagedUeIsKnown == read > 0 /\ "gnb" \notin failed => addr = Channels

\* What the AMF sends is taken in the end, however early it was sent, when the
\* connection lasts and the gNB's set-up ends.
AllTaken ==
  \A n \in 1 .. MaxNgap :
    sent >= n ~> \/ read >= 2 * n
                 \/ link = "broken" \/ "gnb" \in failed
                 \/ []~GnbDone
=============================================================================

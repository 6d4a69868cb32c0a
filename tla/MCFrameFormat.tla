--------------------------- MODULE MCFrameFormat ---------------------------
(* Frames of both writers: three performatives, two SASL bodies, and extended *)
(* headers of four bytes of which three are any that can be taken for part  *)
(* of a descriptor or of a list, and some of eight and of twelve.           *)
EXTENDS FrameFormat

MCPerformatives == {16, 20, 24}
MCSaslBodies == {64, 68}
\* The descriptor's zero byte, a body of either kind, a list, and a format code
\* of each sort of identifier.
Bytes == {0, 24, 64, 67, 69, 80, 83, 128, 163}

\* Of the header of an AMQP frame a quarter is skipped.
Extended ==
  {<<>>} \cup {<<7>> \o e : e \in [1..3 -> Bytes]} \cup {e \o <<69>> : e \in [1..3 -> Bytes]}
  \cup {<<0, 0, 7, 7>> \o e : e \in [1..4 -> {0, 24, 83}]}
  \cup {<<0, 0>> \o e \o <<83, 24>> : e \in [1..4 -> {0, 24, 83}]}
  \cup {<<7, 7, 83, 24, 0>> \o e : e \in {<<68, 69, 7>>, <<128, 7, 7>>, <<163, 7, 7>>}}
LongNumbers ==
  {<<7, 7, 7, 128, 0, 0, 0, 0, 0, 0, 0, n>> : n \in {24, 7}}
  \cup {<<128, 0, 0, 0, 0, 0, 0, 0, n, 69, 7, 7>> : n \in {64, 7}}
Booleans == {<<7, 7, 7, 7, 7, 7, 7, 86>>, <<86, 1, 7, 7>>}

Frame(w, k, e, s, c, m) ==
  [writer |-> w, kind |-> k, extended |-> e, spare |-> s, code |-> c, message |-> m]

\* This library writes no spare bytes in a SASL frame and no frame without a
\* performative.
OwnFrames ==
  {Frame("own", "amqp", e, s, c, m) :
     e \in {<<>>, <<7, 7, 7, 7>>}, s \in {<<0, 0>>, <<1, 2>>}, c \in MCPerformatives, m \in BOOLEAN}
  \cup {Frame("own", "sasl", <<>>, <<0, 0>>, c, FALSE) : c \in MCSaslBodies}
PeerFrames ==
  {Frame("peer", "amqp", e, <<1, 2>>, c, c = 20) :
     e \in Extended \cup LongNumbers \cup Booleans, c \in MCPerformatives \cup {Empty}}
  \cup {Frame("peer", "sasl", e, <<0, 0>>, c, FALSE) :
     e \in Extended \cup LongNumbers \cup Booleans, c \in MCSaslBodies \cup {Empty}}
  \cup {Frame("peer", "sasl", e, <<1, 2>>, c, FALSE) :
     e \in {<<>>, <<83, 64, 69, 7>>}, c \in MCSaslBodies \cup {Empty}}
  \cup {Frame("peer", "other", e, <<0, 0>>, 16, FALSE) : e \in {<<>>, <<7, 7, 7, 7>>}}

MCFrames == OwnFrames \cup PeerFrames
=============================================================================

------------------------------- MODULE Broker -------------------------------
(***************************************************************************)
(* The AMQP broker in front of a Corda node, and the node.  Neither is part *)
(* of the repository: they are modelled by what the client's code and the  *)
(* recorded server bytes of its tests expect of them, and by the liberties *)
(* AMQP 1.0 leaves a broker where the client relies on one choice.         *)
(***************************************************************************)
EXTENDS Wire

CONSTANTS
  Faults,        \* misfortunes that may happen, see below
  HandleReuse,   \* what an attach on a handle in use may do: replace the link,
                 \* end the session, or nothing
  EagerHeader,   \* AMQP header sent with the SASL outcome, or only in reply
  Credit,        \* link credit granted to the sender link
  LowCredit      \* level at which that credit is topped up

\* refuse_login   the SASL outcome may be a failure
\* refuse_link    the sender link may be refused (attach, then detach)
\* reorder        the reply may overtake the disposition of its request
\* disconnect     the connection may be lost at any moment
FaultKinds == {"refuse_login", "refuse_link", "reorder", "disconnect"}

ASSUME BrokerAssumption ==
  /\ Faults \subseteq FaultKinds
  /\ HandleReuse \subseteq {"replace", "end", "ignore"} /\ HandleReuse # {}
  /\ EagerHeader \in BOOLEAN
  /\ LowCredit \in Nat /\ Credit \in Nat /\ LowCredit < Credit

VARIABLES
  stage,         \* the frame the broker waits for, then "links"
  senderLink,    \* whether the client's sender link is attached
  queue,         \* reply queue the receiver link reads, 0 when not attached
  credited,      \* whether that link has credit
  senderCredit,  \* transfers the client may still send
  unsettled,     \* requests whose disposition is still to be sent
  requests,      \* requests waiting for the node
  executed,      \* RPCs the node has run
  replies        \* replies waiting in their queues

broker == <<stage, senderLink, queue, credited, senderCredit, unsettled,
            requests, executed, replies>>

Stages == {"sasl_header", "init", "amqp_header", "open", "begin", "links",
           "refused", "ended", "rejected"}

BrokerInit ==
  /\ stage = "sasl_header"
  /\ senderLink = FALSE
  /\ queue = 0 /\ credited = FALSE
  /\ senderCredit = 0
  /\ unsettled = {} /\ requests = {} /\ executed = {} /\ replies = {}

-----------------------------------------------------------------------------
Reads(kind) == link = "up" /\ toBroker # <<>> /\ Head(toBroker).kind = kind
Sends(frames) ==
  /\ toBroker' = Tail(toBroker)
  /\ toClient' = toClient \o frames
  /\ UNCHANGED <<link, errored>>

links == <<senderLink, queue, credited, senderCredit>>
work == <<unsettled, requests, executed, replies>>

OnSaslHeader ==
  /\ stage = "sasl_header" /\ Reads("sasl_header")
  /\ stage' = "init"
  /\ Sends(<<Frame("sasl_header", 0), Frame("mechanisms", 0)>>)
  /\ UNCHANGED <<links, work>>

OnInit ==
  /\ stage = "init" /\ Reads("init")
  /\ stage' = "amqp_header"
  /\ Sends(IF EagerHeader THEN <<Frame("outcome", 0), Frame("amqp_header", 0)>>
                          ELSE <<Frame("outcome", 0)>>)
  /\ UNCHANGED <<links, work>>

\* A failed outcome, after which the broker hangs up.
OnInitRefuse ==
  /\ "refuse_login" \in Faults
  /\ stage = "init" /\ Reads("init")
  /\ stage' = "refused"
  /\ toBroker' = <<>>
  /\ toClient' = Append(toClient, Frame("outcome", 0))
  /\ link' \in {"closed", "truncated", "reset"}
  /\ UNCHANGED <<errored, links, work>>

OnAmqpHeader ==
  /\ stage = "amqp_header" /\ Reads("amqp_header")
  /\ stage' = "open"
  /\ Sends(IF EagerHeader THEN <<>> ELSE <<Frame("amqp_header", 0)>>)
  /\ UNCHANGED <<links, work>>

OnOpen ==
  /\ stage = "open" /\ Reads("open")
  /\ stage' = "begin"
  /\ Sends(<<Frame("open", 0)>>)
  /\ UNCHANGED <<links, work>>

OnBegin ==
  /\ stage = "begin" /\ Reads("begin")
  /\ stage' = "links"
  /\ Sends(<<Frame("begin", 0)>>)
  /\ UNCHANGED <<links, work>>

OnAttachSender ==
  /\ stage = "links" /\ Reads("attach_sender")
  /\ \/ /\ Sends(<<Frame("attach", 0), Frame("flow", 0)>>)
        /\ senderLink' = TRUE /\ senderCredit' = Credit
     \/ /\ "refuse_link" \in Faults
        /\ Sends(<<Frame("attach", 0), Frame("detach", 0)>>)
        /\ UNCHANGED <<senderLink, senderCredit>>
  /\ UNCHANGED <<stage, queue, credited, work>>

OnAttachReceiver ==
  /\ stage = "links" /\ Reads("attach_receiver")
  /\ \/ /\ queue = 0 \/ "replace" \in HandleReuse
        /\ queue' = Head(toBroker).id /\ credited' = FALSE
        /\ Sends(<<Frame("attach", 0)>>)
        /\ UNCHANGED stage
     \/ /\ queue # 0 /\ "end" \in HandleReuse
        /\ stage' = "ended"
        /\ Sends(<<Frame("end", 0)>>)
        /\ UNCHANGED <<queue, credited>>
     \/ /\ queue # 0 /\ "ignore" \in HandleReuse
        /\ Sends(<<>>)
        /\ UNCHANGED <<stage, queue, credited>>
  /\ UNCHANGED <<senderLink, senderCredit, work>>

OnFlow ==
  /\ stage = "links" /\ Reads("flow") /\ queue # 0
  /\ credited' = TRUE
  /\ Sends(<<>>)
  /\ UNCHANGED <<stage, senderLink, queue, senderCredit, work>>

OnTransfer ==
  /\ stage = "links" /\ Reads("transfer") /\ senderLink /\ senderCredit > 0
  /\ senderCredit' = senderCredit - 1
  /\ unsettled' = unsettled \cup {Head(toBroker).id}
  /\ requests' = requests \cup {Head(toBroker).id}
  /\ Sends(<<>>)
  /\ UNCHANGED <<stage, senderLink, queue, credited, executed, replies>>

\* After an end frame the session's remaining frames are discarded.
Discard ==
  /\ stage = "ended" /\ link = "up" /\ toBroker # <<>>
  /\ Sends(<<>>)
  /\ UNCHANGED broker

\* Any frame the state of the connection does not allow: close, hang up.
Legal ==
  \/ stage \notin {"links", "ended"} /\ Reads(stage)
  \/ stage = "ended"
  \/ /\ stage = "links"
     /\ \/ Reads("attach_sender") /\ ~senderLink
        \/ Reads("attach_receiver")
        \/ Reads("flow") /\ queue # 0
        \/ Reads("transfer") /\ senderLink /\ senderCredit > 0

Reject ==
  /\ link = "up" /\ toBroker # <<>> /\ ~Legal
  /\ stage' = "rejected"
  /\ toBroker' = <<>>
  /\ toClient' = Append(toClient, Frame("close", 0))
  /\ link' = "closed"
  /\ UNCHANGED <<errored, links, work>>

-----------------------------------------------------------------------------
Push(f) ==
  /\ link = "up" /\ stage = "links"
  /\ toClient' = Append(toClient, f)
  /\ UNCHANGED <<toBroker, link, errored>>

Settle(c) ==
  /\ c \in unsettled
  /\ Push(Frame("disposition", c))
  /\ unsettled' = unsettled \ {c}
  /\ UNCHANGED <<stage, links, requests, executed, replies>>

\* The node runs the RPC and leaves the reply in the queue named by reply_to.
Execute(c) ==
  /\ c \in requests
  /\ requests' = requests \ {c}
  /\ executed' = executed \cup {c}
  /\ replies' = replies \cup {c}
  /\ UNCHANGED <<stage, links, unsettled, wire>>

\* Faulty variant: the reply stays in its queue.
DeliverAgain(c) ==
  /\ c \in replies
  /\ queue = c /\ credited
  /\ "reorder" \in Faults \/ c \notin unsettled
  /\ Len(toClient) < 3
  /\ Push(Frame("transfer", c))
  /\ UNCHANGED broker

Deliver(c) ==
  /\ c \in replies
  /\ queue = c /\ credited
  /\ "reorder" \in Faults \/ c \notin unsettled
  /\ Push(Frame("transfer", c))
  /\ replies' = replies \ {c}
  /\ UNCHANGED <<stage, links, unsettled, requests, executed>>

\* The broker tops up the sender link's credit, unasked.
Replenish ==
  /\ senderLink /\ senderCredit <= LowCredit
  /\ Push(Frame("flow", 0))
  /\ senderCredit' = Credit
  /\ UNCHANGED <<stage, senderLink, queue, credited, work>>

\* The connection is lost: an idle timeout, a restart, the network.  What was
\* under way in both directions may be lost with it.
Disconnect ==
  /\ "disconnect" \in Faults
  /\ link = "up"
  /\ link' \in {"closed", "truncated", "reset"}
  /\ toBroker' = <<>>
  /\ \E n \in 0..Len(toClient) : toClient' = SubSeq(toClient, 1, n)
  /\ UNCHANGED <<errored, broker>>

BrokerReads ==
  \/ OnSaslHeader \/ OnInit \/ OnInitRefuse \/ OnAmqpHeader \/ OnOpen \/ OnBegin
  \/ OnAttachSender \/ OnAttachReceiver \/ OnFlow \/ OnTransfer
  \/ Discard \/ Reject

BrokerWorks ==
  \/ \E c \in Calls : Settle(c) \/ Execute(c) \/ Deliver(c)
  \/ Replenish

BrokerNext == BrokerReads \/ BrokerWorks \/ Disconnect
=============================================================================

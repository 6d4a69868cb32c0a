---------------------------- MODULE SectionReader ----------------------------
(***************************************************************************)
(* The message part of a transfer frame: the sections Frame::to_vec writes *)
(* one after the other, and the single pass of DescribedReader by which    *)
(* amqp::Frame::decode takes them apart again.                             *)
(*                                                                         *)
(* A section is a descriptor followed by a value.  The reader holds one    *)
(* descriptor read ahead of its value, offers it to one section type after *)
(* the other, and reads the value where the two match.  The body is the    *)
(* exception: Body::deserialize wants to read the descriptor itself.       *)
(***************************************************************************)
EXTENDS Naturals, Sequences

CONSTANT Messages   \* the section sequences that may arrive

\* The bodies: data, which may be in several sections, as sequences may, and an
\* amqp-value, by what Body's Deserialize makes of its value.  It is one that
\* Any reads and no other does ("known"); or neither Any nor an identifier has
\* anything to do with it ("unknown"); or a number or symbol that Any does not
\* read and that is the descriptor of a body section ("names_data", ..); or a
\* uint of fewer than four bytes; or a value with a descriptor of its own:
\*   described_known   that is the number of a format code Any reads, and the
\*                     value has the type that belongs to it
\*   described_panics  the same of null or byte, but another type of value
\*   described_body    that is a body section's, and its type reads the value
\*   described_deep    the same, but its type panics at the value: an
\*                     amqp-value's on a described_panics, say
\* A described value that is none of these is "unknown".  Descriptors are
\* symbols or ulongs, as AMQP has them.
Known == {"data", "sequence", "known", "described_known"}
NamesBody == {"names_data", "names_sequence", "names_value"}
BodyKinds == Known \cup NamesBody
  \cup {"unknown", "uint", "described_panics", "described_body", "described_deep"}
Repeated == {"data", "sequence"}

\* "null" is what to_vec writes for a message without a body: a bare null,
\* with no descriptor.
Ranked == [header |-> 1, delivery_annotations |-> 2, message_annotations |-> 3,
           properties |-> 4, application_properties |-> 5, null |-> 6, footer |-> 7]
Sections == DOMAIN Ranked \cup BodyKinds
Rank == [s \in Sections |-> IF s \in BodyKinds THEN 6 ELSE Ranked[s]]

\* Sections come in the order AMQP prescribes, each with a descriptor that this
\* library knows it by, and but for an amqp-value with a value its type reads.
\* Only data and sequences may be spread over several sections.
ASSUME MessagesAssumption ==
  \A m \in Messages :
    /\ m \in Seq(Sections)
    /\ \A i, j \in 1..Len(m) :
         i < j => Rank[m[i]] < Rank[m[j]] \/ (m[i] = m[j] /\ m[i] \in Repeated)

VARIABLES
  sections,     \* the message being decoded
  at,           \* sections consumed whole
  open,         \* whether the next section's descriptor is consumed too
  descriptor,   \* DescribedReader.descriptor
  step,         \* position in Frame::decode
  decoded,      \* the indices of the sections the decoded message holds
  body,         \* its body is the one sent, another, or not read yet: none
  outcome       \* running, or what Frame::decode did: ok, err, panic

vars == <<sections, at, open, descriptor, step, decoded, body, outcome>>

\* Faulty variant: a section asked for twice.
ReadsRepeated == <<"header", "delivery_annotations", "message_annotations",
                   "message_annotations", "application_properties">>

\* The reads before the body: reader.read(.., true) but for the last, whose
\* successor's descriptor is left to Body::deserialize.
Reads == <<"header", "delivery_annotations", "message_annotations", "properties",
           "application_properties">>
BodyStep == 6
NextStep == 7
FooterStep == 8

Init ==
  /\ sections \in Messages /\ sections # <<>>
  /\ at = 0 /\ open = FALSE
  /\ descriptor = "none"
  /\ step = 0
  /\ decoded = {} /\ body = "none"
  /\ outcome = "running"

-----------------------------------------------------------------------------
Runs(s) == outcome = "running" /\ step = s
Finish(o) == outcome' = o /\ UNCHANGED step
Continue == step' = step + 1 /\ UNCHANGED outcome

\* Faulty variant: the end of the input is not looked for.
ReadAheadUnchecked(n) ==
  IF n = Len(sections) \/ sections[n+1] = "null"
  THEN open' = FALSE /\ UNCHANGED descriptor /\ Finish("panic")
  ELSE open' = TRUE /\ descriptor' = sections[n+1] /\ Continue

\* reader.next() with n sections consumed: the descriptor of section n+1 is
\* read ahead.  At the end of the input the old descriptor stays.  A null is
\* not a descriptor, and the assert_eq! of assume(0) says so.
ReadAhead(n) ==
  IF n = Len(sections)
  THEN open' = FALSE /\ UNCHANGED descriptor /\ Continue
  ELSE IF sections[n+1] = "null"
  THEN open' = FALSE /\ UNCHANGED descriptor /\ Finish("panic")
  ELSE open' = TRUE /\ descriptor' = sections[n+1] /\ Continue

\* deserializer.reader()
NewReader ==
  /\ Runs(0)
  /\ ReadAhead(0)
  /\ UNCHANGED <<sections, at, decoded, body>>

\* The value of the section whose descriptor was read ahead.
TakeValue ==
  /\ at' = at + 1
  /\ decoded' = decoded \cup {at + 1}

\* Faulty variant: the descriptor after the application properties is read
\* ahead like the others.
ReadMatchedAhead ==
  /\ step \in DOMAIN Reads /\ Runs(step)
  /\ descriptor = Reads[step]
  /\ TakeValue
  /\ ReadAhead(at + 1)
  /\ UNCHANGED <<sections, body>>

\* reader.read(&mut deserializer, next): matched
ReadMatched ==
  /\ step \in DOMAIN Reads /\ Runs(step)
  /\ descriptor = Reads[step]
  /\ TakeValue
  /\ IF step < Len(Reads)
     THEN ReadAhead(at + 1)
     ELSE open' = FALSE /\ UNCHANGED descriptor /\ Continue
  /\ UNCHANGED <<sections, body>>

ReadSkipped ==
  /\ step \in DOMAIN Reads /\ Runs(step)
  /\ descriptor # Reads[step]
  /\ Continue
  /\ UNCHANGED <<sections, at, open, descriptor, decoded, body>>

\* The body is read, as b, with the n sections behind its place consumed.
TakeBody(b, n) ==
  /\ at' = at + n
  /\ decoded' = decoded \cup {at + 1}
  /\ body' = b /\ open' = FALSE
  /\ Continue
FailBody(o) == UNCHANGED <<at, decoded, body, open>> /\ Finish(o)

NextIn(kinds) == at < Len(sections) /\ sections[at+1] \in kinds
AtLast == at + 1 = Len(sections)

\* Body::deserialize(&mut deserializer) reads descriptor and value.
ReadBody ==
  /\ Runs(BodyStep) /\ ~open
  /\ IF NextIn({"described_known"}) THEN TakeBody("another", 1)
     ELSE IF NextIn(Known) THEN TakeBody("sent", 1)
     ELSE FailBody(IF NextIn({"described_panics"}) THEN "panic" ELSE "err")
  /\ UNCHANGED <<sections, descriptor>>

\* Where the descriptor is already gone it takes the value for an identifier.
\* That of a body section makes it read the variant's content from what is
\* next, which is a footer or nothing: a Sequence skips the footer's descriptor
\* and takes its map for the list; next() panics at the end of the input, and
\* peek() does not.  read_u32() reads a uint with its format code in front, and
\* panics unless a footer makes it four bytes.
ReadBodyOpened ==
  /\ Runs(BodyStep) /\ open
  /\ IF NextIn({"described_body"}) THEN TakeBody("another", 1)
     ELSE IF NextIn({"names_sequence"}) /\ ~AtLast THEN TakeBody("another", 2)
     ELSE FailBody(IF \/ NextIn({"uint", "names_data"}) /\ AtLast
                      \/ NextIn({"described_deep"})
                   THEN "panic" ELSE "err")
  /\ UNCHANGED <<sections, descriptor>>

\* Faulty variant: the descriptor after the body is not read.
AfterBodyForgotten ==
  /\ Runs(NextStep)
  /\ Continue
  /\ UNCHANGED <<sections, at, open, descriptor, decoded, body>>

AfterBody ==
  /\ Runs(NextStep)
  /\ ReadAhead(at)
  /\ UNCHANGED <<sections, at, decoded, body>>

\* The last read; whatever is left of the input is not looked at.
ReadFooter ==
  /\ Runs(FooterStep)
  /\ IF descriptor = "footer"
     THEN TakeValue /\ open' = FALSE
     ELSE UNCHANGED <<at, decoded, open>>
  /\ Finish("ok")
  /\ UNCHANGED <<sections, descriptor, body>>

Done == outcome # "running" /\ UNCHANGED vars

Next ==
  \/ NewReader \/ ReadMatched \/ ReadSkipped
  \/ ReadBody \/ ReadBodyOpened \/ AfterBody \/ ReadFooter \/ Done

Spec == Init /\ [][Next]_vars

-----------------------------------------------------------------------------
Present == {sections[i] : i \in 1..Len(sections)}
Has(kinds) == Present \cap kinds # {}
Bodies == {i \in 1..Len(sections) : sections[i] \in BodyKinds}
InPlace == Has({"application_properties"})

\* The types of the reader's state: no section is taken beyond the last.
TypeOK ==
  /\ sections \in Messages
  /\ at \in 0..Len(sections) /\ open \in BOOLEAN
  /\ descriptor \in Sections \cup {"none"}
  /\ step \in 0..FooterStep
  /\ decoded \subseteq 1..Len(sections)
  /\ body \in {"none", "sent", "another"}
  /\ outcome \in {"running", "ok", "err", "panic"}

\* A descriptor held from an earlier section, as it is at the end of the
\* input, is never taken for the descriptor of the value that comes next.
MatchIsFresh ==
  /\ Runs(step) /\ step \in DOMAIN Reads /\ descriptor = Reads[step]
       => open /\ sections[at+1] = Reads[step]
  /\ Runs(FooterStep) /\ descriptor = "footer"
       => open /\ sections[at+1] = "footer"

\* A message that decodes has the sections that were sent.  Of a body in several
\* sections only the first is kept, and the rest, footer included, is dropped
\* without an error.  The body is the one sent if the message has application
\* properties, but that a described value loses its descriptor; without them
\* it is always another, which in one case is made of the footer.  (A sequence's
\* elements are none of this: the library's Sequence has no place for any.)
DecodedIsSent ==
  outcome = "ok" =>
    \E b \in Bodies :
      /\ \A i \in Bodies : b <= i
      /\ decoded = IF Bodies = {b} /\ sections[b] # "names_sequence"
                   THEN 1..Len(sections) ELSE 1..b
      /\ body = "sent" <=> InPlace /\ sections[b] # "described_known"
      /\ body # "none"

\* Which messages decode: with application properties those with a body that
\* is data, a sequence or a value Any reads; without, only those whose
\* amqp-value is taken for a body with its descriptor.
AcceptedMessages ==
  outcome # "running" =>
    (outcome = "ok" <=>
       IF InPlace THEN Has(Known)
       ELSE Has({"described_body"}) \/ (Has({"names_sequence"}) /\ Has({"footer"})))

\* Which panic: with application properties a value with a descriptor that
\* misleads Any; without, a message without a body, as to_vec writes one, and
\* amqp-values at which the deserializer runs into the end of the input.
PanicsExactly ==
  outcome # "running" =>
    (outcome = "panic" <=>
       IF InPlace THEN Has({"described_panics"})
       ELSE \/ Has({"null", "described_deep"})
            \/ Has({"uint", "names_data"}) /\ ~Has({"footer"}))
=============================================================================

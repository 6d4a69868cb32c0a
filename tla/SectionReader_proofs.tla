------------------------ MODULE SectionReader_proofs ------------------------
(***************************************************************************)
(* Theorems about SectionReader, for every set of messages whose sections  *)
(* come in the order AMQP prescribes.  The invariant relates the reader's  *)
(* position in Frame::decode to the rank of the sections before and after  *)
(* its place in the message.                                               *)
(***************************************************************************)
EXTENDS SectionReader, TLAPS

Before(r) == \A i \in 1..at : Rank[sections[i]] < r
From(r) == at < Len(sections) => Rank[sections[at+1]] >= r

\* The descriptor held is that of the section that comes next, and at the end
\* of the input that of a section read long before.
Held ==
  IF at < Len(sections)
  THEN open /\ descriptor = sections[at+1] /\ descriptor # "null"
  ELSE ~open /\ descriptor \in Sections

\* What is known at each step of Frame::decode.
AtReads ==
  /\ Held /\ Before(step) /\ From(step)
  /\ at = Len(sections) => Rank[descriptor] < step
AtBody ==
  IF at > 0 /\ sections[at] = "application_properties"
  THEN ~open /\ descriptor = "application_properties" /\ Before(6)
  ELSE Held /\ Before(5) /\ From(6)
\* The body, section b, has been read: in its place, or without application
\* properties from what lies behind its descriptor.
ReadTo(b) ==
  /\ sections[b] \in BodyKinds /\ Rank[sections[b]] = 6
  /\ \A i \in 1..Len(sections) : i < b => sections[i] \notin BodyKinds
  /\ decoded = 1..b
  /\ IF InPlace
     THEN /\ at = b /\ sections[b] \in Known
          /\ body = IF sections[b] = "described_known" THEN "another" ELSE "sent"
     ELSE /\ body = "another"
          /\ \/ at = b /\ sections[b] = "described_body"
             \/ /\ at = b + 1 /\ at = Len(sections)
                /\ sections[b] = "names_sequence" /\ sections[at] = "footer"
Read == \E b \in 1..Len(sections) : ReadTo(b)
AtFooter == Read /\ Held /\ (at = Len(sections) => descriptor # "footer")

Progress ==
  /\ step = 0 => at = 0 /\ ~open
  /\ step \in 1..5 => AtReads
  /\ step = BodyStep => AtBody
  /\ step = NextStep => Read /\ ~open /\ descriptor \in Sections /\ descriptor # "footer"
  /\ step = FooterStep => AtFooter

Verdict == DecodedIsSent /\ AcceptedMessages /\ PanicsExactly

IInv ==
  /\ TypeOK /\ sections # <<>>
  /\ outcome = "running" => Progress
  /\ outcome = "running" /\ step <= BodyStep => decoded = 1..at /\ body = "none"
  /\ Verdict

-----------------------------------------------------------------------------
\* The ranks, by name.
LEMMA RankFacts ==
  /\ {"header", "delivery_annotations", "message_annotations", "properties",
      "application_properties", "null", "footer"} \cup BodyKinds = Sections
  /\ \A s \in Sections : Rank[s] \in 1..7
  /\ Rank["header"] = 1 /\ Rank["delivery_annotations"] = 2 /\ Rank["message_annotations"] = 3
  /\ Rank["properties"] = 4 /\ Rank["application_properties"] = 5
  /\ Rank["null"] = 6 /\ Rank["footer"] = 7
  /\ \A s \in BodyKinds : Rank[s] = 6
  /\ \A s \in Sections : Rank[s] = 5 => s = "application_properties"
  /\ \A s \in Sections : Rank[s] = 6 => s \in BodyKinds \/ s = "null"
  /\ \A s \in Sections : Rank[s] = 7 => s = "footer"
  /\ Known \subseteq BodyKinds /\ Repeated \subseteq Known
  /\ "null" \notin BodyKinds /\ "footer" \notin BodyKinds
  /\ "application_properties" \notin BodyKinds
<1> DEFINE Others == {"header", "delivery_annotations", "message_annotations", "properties",
                      "application_properties", "null", "footer"}
<1>1. Others = DOMAIN Ranked /\ Others \cup BodyKinds = Sections
  BY DEF Sections, Ranked
<1>2. Others \cap BodyKinds = {}
  BY DEF BodyKinds, Known, NamesBody
<1>3. \A s \in BodyKinds : Rank[s] = 6
  BY <1>1 DEF Rank
<1>4. \A s \in Others : Rank[s] = Ranked[s]
  BY <1>1, <1>2 DEF Rank
<1>5. /\ Ranked["header"] = 1 /\ Ranked["delivery_annotations"] = 2 /\ Ranked["message_annotations"] = 3
      /\ Ranked["properties"] = 4 /\ Ranked["application_properties"] = 5
      /\ Ranked["null"] = 6 /\ Ranked["footer"] = 7
  BY DEF Ranked
<1>6. Known \subseteq BodyKinds /\ Repeated \subseteq Known
  BY DEF BodyKinds, Known, Repeated
<1> QED BY <1>1, <1>2, <1>3, <1>4, <1>5, <1>6

\* The reads before the body ask for the sections in the order of their ranks.
LEMMA ReadsFacts ==
  /\ DOMAIN Reads = 1..5 /\ Len(Reads) = 5
  /\ \A k \in 1..5 : Reads[k] \in Sections /\ Rank[Reads[k]] = k
  /\ \A k \in 1..5, s \in Sections : Rank[s] = k => s = Reads[k]
  /\ Reads[5] = "application_properties"
<1>1. DOMAIN Reads = 1..5 /\ Len(Reads) = 5
  BY DEF Reads
<1>2. /\ Reads[1] = "header" /\ Reads[2] = "delivery_annotations" /\ Reads[3] = "message_annotations"
      /\ Reads[4] = "properties" /\ Reads[5] = "application_properties"
  BY DEF Reads
<1>3. ASSUME NEW k \in 1..5 PROVE k = 1 \/ k = 2 \/ k = 3 \/ k = 4 \/ k = 5
  OBVIOUS
<1>4. \A k \in 1..5 : Reads[k] \in Sections /\ Rank[Reads[k]] = k
  BY <1>2, <1>3, RankFacts
<1>5. \A k \in 1..5, s \in Sections : Rank[s] = k => s = Reads[k]
  BY <1>2, <1>3, RankFacts
<1> QED BY <1>1, <1>2, <1>4, <1>5

\* A message's sections come in the order of their ranks.
LEMMA Ordered ==
  ASSUME sections \in Messages
  PROVE  /\ Len(sections) \in Nat
         /\ \A i \in 1..Len(sections) : sections[i] \in Sections
         /\ \A i, j \in 1..Len(sections) :
              i < j => \/ Rank[sections[i]] < Rank[sections[j]]
                       \/ sections[i] = sections[j] /\ sections[i] \in Repeated
BY MessagesAssumption

\* Sections of the same rank are of the same kind.
LEMMA OneKind ==
  ASSUME sections \in Messages, NEW i \in 1..Len(sections), NEW j \in 1..Len(sections),
         Rank[sections[i]] = Rank[sections[j]]
  PROVE  sections[i] = sections[j]
<1>1. /\ sections[i] \in Sections /\ sections[j] \in Sections
      /\ i < j => Rank[sections[i]] < Rank[sections[j]] \/ sections[i] = sections[j]
      /\ j < i => Rank[sections[j]] < Rank[sections[i]] \/ sections[i] = sections[j]
      /\ i \in Nat /\ j \in Nat
  BY Ordered
<1>2. Rank[sections[i]] \in Nat /\ Rank[sections[j]] \in Nat
  BY <1>1, RankFacts
<1> QED BY <1>1, <1>2

\* Nothing has been decoded at first.
LEMMA InitInv == Init => IInv
<1> SUFFICES ASSUME Init PROVE IInv
  OBVIOUS
<1>1. TypeOK
  <2>1. sections \in Messages /\ at = 0 /\ open = FALSE /\ descriptor = "none" /\ step = 0
        /\ decoded = {} /\ body = "none" /\ outcome = "running"
    BY DEF Init
  <2>2. at \in 0..Len(sections)
    BY <2>1, Ordered
  <2>3. open \in BOOLEAN
    BY <2>1
  <2>4. step \in 0..FooterStep /\ decoded \subseteq 1..Len(sections)
    BY <2>1 DEF FooterStep
  <2> QED BY <2>1, <2>2, <2>3, <2>4 DEF TypeOK
<1>2. Progress /\ decoded = 1..at /\ body = "none"
  BY DEF Init, Progress, BodyStep, NextStep, FooterStep
<1>3. Verdict
  BY DEF Init, Verdict, DecodedIsSent, AcceptedMessages, PanicsExactly
<1> QED BY <1>1, <1>2, <1>3 DEF Init, IInv

\* Of a message that is still being decoded nothing is claimed.
LEMMA StillRunning ==
  ASSUME TypeOK', outcome' = "running", Progress', sections' # <<>>,
         (step <= BodyStep => decoded = 1..at /\ body = "none")'
  PROVE  IInv'
BY DEF IInv, Verdict, DecodedIsSent, AcceptedMessages, PanicsExactly

\* The types, after a step.
LEMMA Types ==
  ASSUME TypeOK, sections' = sections, NEW n \in 0..Len(sections), at' = n, open' \in BOOLEAN,
         descriptor' \in Sections \cup {"none"}, step' \in 0..8, decoded' \subseteq 1..n,
         body' \in {"none", "sent", "another"},
         outcome' \in {"running", "ok", "err", "panic"}
  PROVE  TypeOK'
<1>1. sections \in Messages /\ Len(sections) \in Nat
  BY Ordered DEF TypeOK
<1>2. at' \in 0..Len(sections') /\ sections' \in Messages
  BY <1>1
<1>3. decoded' \subseteq 1..Len(sections')
  BY <1>1
<1>4. step' \in 0..FooterStep
  BY DEF FooterStep
<1> QED BY <1>2, <1>3, <1>4 DEF TypeOK

\* A message with a null where the reader looks for a descriptor has no
\* application properties and nothing else for a body.
LEMMA NullStandsAlone ==
  ASSUME sections \in Messages, NEW n \in 0..Len(sections) - 1, sections[n+1] = "null",
         \A i \in 1..n : Rank[sections[i]] < 5
  PROVE  Has({"null", "described_deep"}) /\ ~InPlace
         /\ \A kinds \in SUBSET BodyKinds : ~Has(kinds)
<1>1. n + 1 \in 1..Len(sections) /\ Len(sections) \in Nat
  BY Ordered
<1>2. ASSUME NEW i \in 1..Len(sections),
             sections[i] = "application_properties" \/ sections[i] \in BodyKinds
      PROVE  FALSE
  <2>1. i # n + 1
    BY <1>2, RankFacts
  <2>2. CASE i < n + 1
    BY <1>2, <2>2, RankFacts
  <2>3. CASE i > n + 1
    <3>1. \/ Rank[sections[n+1]] < Rank[sections[i]]
          \/ sections[n+1] = sections[i]
      BY <1>1, <2>3, Ordered
    <3> QED BY <1>2, <3>1, RankFacts
  <2> QED BY <1>1, <2>1, <2>2, <2>3
<1>3. "null" \in Present
  BY <1>1 DEF Present
<1> QED BY <1>2, <1>3 DEF Present, Has, InPlace

\* Reading ahead to the section that comes next, before the body's turn.
LEMMA ReadAheadStep ==
  ASSUME IInv, outcome = "running", step \in 0..4, sections' = sections,
         NEW n \in 0..Len(sections), at' = n, ReadAhead(n), decoded' = 1..n, body' = "none",
         \A i \in 1..n : Rank[sections[i]] < step + 1,
         n < Len(sections) => Rank[sections[n+1]] >= step + 1,
         n = Len(sections) => descriptor \in Sections /\ Rank[descriptor] < step + 1
  PROVE  IInv'
<1>0. TypeOK /\ sections \in Messages /\ sections # <<>> /\ Len(sections) \in Nat
      /\ descriptor \in Sections \cup {"none"}
  BY Ordered DEF IInv, TypeOK
<1>1. CASE n = Len(sections)
  <2>1. open' = FALSE /\ descriptor' = descriptor /\ step' = step + 1 /\ outcome' = "running"
    BY <1>1 DEF ReadAhead, Continue
  <2>2. TypeOK'
    <3>1. open' \in BOOLEAN
      BY <2>1
    <3>2. step' \in 0..8 /\ descriptor' \in Sections \cup {"none"}
      BY <1>0, <2>1
    <3> QED BY <1>0, <2>1, <3>1, <3>2, Types
  <2>3. Progress'
    BY <1>0, <1>1, <2>1 DEF Progress, AtReads, Held, Before, From, BodyStep, NextStep, FooterStep
  <2> QED BY <1>0, <2>1, <2>2, <2>3, StillRunning
<1>2. CASE n < Len(sections) /\ sections[n+1] = "null"
  <2>1. open' = FALSE /\ descriptor' = descriptor /\ step' = step /\ outcome' = "panic"
    BY <1>0, <1>2 DEF ReadAhead, Finish
  <2>2. TypeOK'
    <3>1. open' \in BOOLEAN
      BY <2>1
    <3>2. step' \in 0..8 /\ descriptor' \in Sections \cup {"none"}
      BY <1>0, <2>1
    <3> QED BY <1>0, <2>1, <3>1, <3>2, Types
  <2>3. Has({"null", "described_deep"}) /\ ~InPlace /\ \A kinds \in SUBSET BodyKinds : ~Has(kinds)
    <3>1. n \in 0..Len(sections) - 1
      BY <1>0, <1>2
    <3>2. ASSUME NEW i \in 1..n PROVE Rank[sections[i]] < 5
      <4>1. sections[i] \in Sections /\ Rank[sections[i]] < step + 1
        BY <1>0, Ordered
      <4>2. Rank[sections[i]] \in 1..7 /\ step + 1 <= 5
        BY <4>1, RankFacts
      <4> QED BY <4>1, <4>2
    <3> QED BY <1>0, <1>2, <3>1, <3>2, NullStandsAlone
  <2>4. Present' = Present
    BY DEF Present
  <2>5. ~Has({"described_body"}) /\ ~Has({"names_sequence"})
    <3>1. {"described_body"} \in SUBSET BodyKinds /\ {"names_sequence"} \in SUBSET BodyKinds
      BY DEF BodyKinds, NamesBody
    <3> QED BY <2>3, <3>1
  <2>6. Verdict'
    BY <2>1, <2>3, <2>4, <2>5
       DEF Verdict, DecodedIsSent, AcceptedMessages, PanicsExactly, Has, InPlace
  <2> QED BY <1>0, <2>1, <2>2, <2>6 DEF IInv
<1>3. CASE n < Len(sections) /\ sections[n+1] # "null"
  <2>1. open' = TRUE /\ descriptor' = sections[n+1] /\ step' = step + 1 /\ outcome' = "running"
    BY <1>0, <1>3 DEF ReadAhead, Continue
  <2>2. sections[n+1] \in Sections
    BY <1>0, <1>3, Ordered
  <2>3. TypeOK'
    <3>1. open' \in BOOLEAN
      BY <2>1
    <3>2. step' \in 0..8 /\ descriptor' \in Sections \cup {"none"}
      BY <1>0, <2>1, <2>2
    <3> QED BY <1>0, <2>1, <2>2, <3>1, <3>2, Types
  <2>4. Progress'
    BY <1>0, <1>3, <2>1 DEF Progress, AtReads, Held, Before, From, BodyStep, NextStep, FooterStep
  <2> QED BY <1>0, <2>1, <2>3, <2>4, StillRunning
<1> QED BY <1>0, <1>1, <1>2, <1>3

\* deserializer.reader() keeps the invariant.
LEMMA NewReaderInv == IInv /\ NewReader => IInv'
<1> SUFFICES ASSUME IInv, NewReader PROVE IInv'
  OBVIOUS
<1>1. /\ outcome = "running" /\ step = 0
      /\ sections' = sections /\ at' = at /\ decoded' = decoded /\ body' = body
  BY DEF NewReader, Runs
<1>2. at = 0 /\ decoded = 1..at /\ body = "none" /\ sections \in Messages /\ sections # <<>>
  BY <1>1 DEF IInv, Progress, TypeOK, BodyStep
<1>3. Len(sections) \in Nat /\ Len(sections) > 0 /\ sections[1] \in Sections
  <2>1. sections \in Seq(Sections)
    BY <1>2, MessagesAssumption
  <2> QED BY <1>2, <2>1
<1>4. ReadAhead(at')
  BY <1>1, <1>2 DEF NewReader
<1>5. Rank[sections[1]] >= 1
  BY <1>3, RankFacts
<1> QED BY <1>1, <1>2, <1>3, <1>4, <1>5, ReadAheadStep

\* A read that matches keeps the invariant.
LEMMA ReadMatchedInv == IInv /\ ReadMatched => IInv'
<1> SUFFICES ASSUME IInv, ReadMatched PROVE IInv'
  OBVIOUS
<1>1. outcome = "running" /\ step \in 1..5 /\ descriptor = Reads[step]
      /\ sections' = sections /\ at' = at + 1 /\ decoded' = decoded \cup {at + 1} /\ body' = body
  BY ReadsFacts DEF ReadMatched, Runs, TakeValue
<1>2. /\ TypeOK /\ AtReads /\ decoded = 1..at /\ body = "none"
      /\ sections \in Messages /\ sections # <<>>
      /\ Len(sections) \in Nat /\ at \in 0..Len(sections)
  BY <1>1, Ordered DEF IInv, Progress, TypeOK, BodyStep
<1>3. Rank[descriptor] = step /\ descriptor \in Sections
  BY <1>1, ReadsFacts
<1>4. at < Len(sections) /\ descriptor = sections[at+1] /\ at + 1 \in 1..Len(sections)
  BY <1>1, <1>2, <1>3 DEF AtReads, Held
<1>5. decoded' = 1..(at + 1)
  BY <1>1, <1>2
<1>6. \A i \in 1..(at + 1) : Rank[sections[i]] < step + 1
  BY <1>1, <1>2, <1>3, <1>4, Ordered, RankFacts, SMTT(30) DEF AtReads, Before
<1>7. at + 1 < Len(sections) => Rank[sections[at+2]] >= step + 1
  <2> SUFFICES ASSUME at + 1 < Len(sections) PROVE Rank[sections[at+2]] >= step + 1
    OBVIOUS
  <2>1. at + 1 \in 1..Len(sections) /\ at + 2 \in 1..Len(sections) /\ at + 1 < at + 2
    BY <1>2, <1>4
  <2>2. sections[at+1] \notin Repeated
    BY <1>1, <1>3, <1>4, RankFacts
  <2>3. Rank[sections[at+1]] < Rank[sections[at+2]]
    BY <1>2, <2>1, <2>2, Ordered
  <2>4. sections[at+2] \in Sections
    BY <1>2, <2>1, Ordered
  <2> QED BY <1>1, <1>3, <1>4, <2>3, <2>4, RankFacts, SMTT(30)
<1>8. CASE step < 5
  <2>1. ReadAhead(at + 1)
    BY <1>1, <1>8, ReadsFacts DEF ReadMatched
  <2>2. PICK n \in 1..Len(sections) : n = at + 1
    BY <1>4
  <2>3. n < Len(sections) => Rank[sections[n+1]] >= step + 1
    BY <1>2, <1>7, <2>2
  <2> QED BY <1>1, <1>2, <1>3, <1>5, <1>6, <1>8, <2>1, <2>2, <2>3, ReadAheadStep
<1>9. CASE step = 5
  <2>1. open' = FALSE /\ descriptor' = descriptor /\ step' = 6 /\ outcome' = "running"
    BY <1>1, <1>9, ReadsFacts DEF ReadMatched, Continue
  <2>2. descriptor = "application_properties" /\ sections[at+1] = "application_properties"
    BY <1>1, <1>4, <1>9, ReadsFacts
  <2>3. TypeOK'
    <3>1. open' \in BOOLEAN
      BY <2>1
    <3>2. step' \in 0..8 /\ descriptor' \in Sections \cup {"none"}
      BY <1>1, <1>2, <1>3, <1>4, <1>5, <2>1
    <3> QED BY <1>1, <1>2, <1>3, <1>4, <1>5, <2>1, <3>1, <3>2, Types
  <2>4. AtBody'
    BY <1>1, <1>2, <1>4, <1>6, <1>9, <2>1, <2>2 DEF AtBody, Before
  <2>5. Progress'
    BY <2>1, <2>4 DEF Progress, BodyStep, NextStep, FooterStep
  <2> QED BY <1>1, <1>2, <1>5, <2>1, <2>3, <2>5, StillRunning
<1> QED BY <1>1, <1>8, <1>9

\* A read of a section that is absent keeps the invariant.
LEMMA ReadSkippedInv == IInv /\ ReadSkipped => IInv'
<1> SUFFICES ASSUME IInv, ReadSkipped PROVE IInv'
  OBVIOUS
<1>1. /\ outcome = "running" /\ step \in 1..5 /\ descriptor # Reads[step]
      /\ UNCHANGED <<sections, at, open, descriptor, decoded, body>>
      /\ step' = step + 1 /\ outcome' = "running"
  BY ReadsFacts DEF ReadSkipped, Runs, Continue
<1>2. /\ TypeOK /\ AtReads /\ decoded = 1..at /\ body = "none"
      /\ sections \in Messages /\ sections # <<>>
      /\ Len(sections) \in Nat /\ at \in 0..Len(sections)
  BY <1>1, Ordered DEF IInv, Progress, TypeOK, BodyStep
<1>3. TypeOK'
  BY <1>1, <1>2 DEF TypeOK, FooterStep
<1>4. Before(step) /\ Held /\ (at = Len(sections) => Rank[descriptor] < step)
  BY <1>2 DEF AtReads
<1>5. From(step + 1)
  <2>1. CASE at < Len(sections)
    <3>1. descriptor \in Sections /\ Rank[descriptor] >= step /\ descriptor = sections[at+1]
      BY <1>2, <2>1, Ordered DEF AtReads, Held, From
    <3>2. Rank[descriptor] # step
      BY <1>1, <3>1, ReadsFacts
    <3> QED BY <1>1, <3>1, <3>2, RankFacts DEF From
  <2> QED BY <2>1 DEF From
<1>6. \A i \in 1..at : Rank[sections[i]] \in 1..7
  BY <1>2, Ordered, RankFacts
<1>7. CASE step < 5
  <2>1. Held'
    BY <1>1, <1>4 DEF Held
  <2>2. \A i \in 1..at : Rank[sections[i]] < step + 1
    BY <1>1, <1>4, <1>6 DEF Before
  <2>3. Before(step)'
    BY <1>1, <2>2 DEF Before
  <2>4. From(step)'
    BY <1>1, <1>5 DEF From
  <2>5. at = Len(sections) => Rank[descriptor] < step + 1
    <3> SUFFICES ASSUME at = Len(sections) PROVE Rank[descriptor] < step + 1
      OBVIOUS
    <3>1. descriptor \in Sections
      BY <1>2, <1>4 DEF Held
    <3> QED BY <1>1, <1>4, <3>1, RankFacts
  <2>6. AtReads'
    BY <1>1, <2>1, <2>3, <2>4, <2>5 DEF AtReads
  <2> QED BY <1>1, <1>2, <1>3, <1>7, <2>6, StillRunning DEF Progress, BodyStep, NextStep, FooterStep
<1>8. CASE step = 5
  <2>1. ~(at > 0 /\ sections[at] = "application_properties")
    BY <1>2, <1>4, <1>8, RankFacts DEF Before
  <2>2. AtBody'
    BY <1>1, <1>4, <1>5, <1>8, <2>1 DEF AtBody, Held, Before, From
  <2> QED BY <1>1, <1>2, <1>3, <1>8, <2>2, StillRunning DEF Progress, BodyStep, NextStep, FooterStep
<1> QED BY <1>1, <1>7, <1>8

\* At the body's turn: whether it is in its place, and what has been read.
LEMMA AtBodyFacts ==
  ASSUME TypeOK, AtBody
  PROVE  /\ InPlace => ~open /\ descriptor = "application_properties"
         /\ ~InPlace => Held
         /\ \A i \in 1..Len(sections) : i <= at => Rank[sections[i]] < 6
         /\ at < Len(sections) => Rank[sections[at+1]] >= 6
<1>1. /\ sections \in Messages /\ at \in 0..Len(sections) /\ Len(sections) \in Nat
      /\ \A i \in 1..Len(sections) : sections[i] \in Sections /\ Rank[sections[i]] \in 1..7
  BY Ordered, RankFacts DEF TypeOK
<1>2. CASE at > 0 /\ sections[at] = "application_properties"
  <2>1. ~open /\ descriptor = "application_properties" /\ Before(6)
    BY <1>2 DEF AtBody
  <2>2. InPlace
    BY <1>1, <1>2 DEF InPlace, Has, Present
  <2>3. \A i \in 1..Len(sections) : i <= at => Rank[sections[i]] < 6
    BY <1>1, <2>1 DEF Before
  <2>4. ASSUME at < Len(sections) PROVE Rank[sections[at+1]] >= 6
    <3>1. at \in 1..Len(sections) /\ at + 1 \in 1..Len(sections) /\ at < at + 1
      BY <1>1, <1>2, <2>4
    <3>2. Rank[sections[at]] = 5 /\ sections[at] \notin Repeated
      BY <1>2, RankFacts
    <3>3. Rank[sections[at]] < Rank[sections[at+1]]
      BY <1>1, <3>1, <3>2, Ordered
    <3> QED BY <1>1, <3>1, <3>2, <3>3
  <2> QED BY <2>1, <2>2, <2>3, <2>4
<1>3. CASE ~(at > 0 /\ sections[at] = "application_properties")
  <2>1. Held /\ Before(5) /\ From(6)
    BY <1>3 DEF AtBody
  <2>2. \A i \in 1..Len(sections) : i <= at => Rank[sections[i]] < 5
    BY <1>1, <2>1 DEF Before
  <2>3. ASSUME NEW i \in 1..Len(sections), sections[i] = "application_properties" PROVE FALSE
    <3>1. i > at /\ Rank[sections[i]] = 5
      BY <1>1, <2>2, <2>3, RankFacts
    <3>2. at + 1 \in 1..Len(sections) /\ Rank[sections[at+1]] >= 6
      BY <1>1, <2>1, <3>1 DEF From
    <3>3. i > at + 1
      BY <1>1, <3>1, <3>2
    <3>4. Rank[sections[at+1]] < Rank[sections[i]] \/ Rank[sections[at+1]] = Rank[sections[i]]
      BY <1>1, <3>2, <3>3, Ordered
    <3> QED BY <1>1, <3>1, <3>2, <3>4
  <2>4. ~InPlace
    BY <2>3 DEF InPlace, Has, Present
  <2>5. \A i \in 1..Len(sections) : i <= at => Rank[sections[i]] < 6
    BY <1>1, <2>2
  <2> QED BY <2>1, <2>4, <2>5 DEF From
<1> QED BY <1>2, <1>3

\* What the message has for a body is what comes next.
LEMMA NextBody ==
  ASSUME TypeOK, AtBody, NEW kinds \in SUBSET (BodyKinds \cup {"null"})
  PROVE  Has(kinds) <=> NextIn(kinds)
<1>1. /\ sections \in Messages /\ at \in 0..Len(sections) /\ Len(sections) \in Nat
      /\ \A i \in 1..Len(sections) : sections[i] \in Sections /\ Rank[sections[i]] \in 1..7
  BY Ordered, RankFacts DEF TypeOK
<1>2. ASSUME NextIn(kinds) PROVE Has(kinds)
  BY <1>1, <1>2 DEF NextIn, Has, Present
<1>3. ASSUME Has(kinds) PROVE NextIn(kinds)
  <2>1. PICK i \in 1..Len(sections) : sections[i] \in kinds
    BY <1>3 DEF Has, Present
  <2>2. Rank[sections[i]] = 6
    BY <2>1, RankFacts
  <2>3. i > at
    BY <1>1, <2>2, AtBodyFacts
  <2>4. at < Len(sections) /\ at + 1 \in 1..Len(sections) /\ Rank[sections[at+1]] >= 6
    BY <1>1, <2>3, AtBodyFacts
  <2>5. i > at + 1 => Rank[sections[at+1]] < Rank[sections[i]] \/ sections[at+1] = sections[i]
    BY <1>1, <2>4, Ordered
  <2>6. sections[at+1] = sections[i]
    BY <1>1, <2>2, <2>3, <2>4, <2>5
  <2> QED BY <2>1, <2>4, <2>6 DEF NextIn
<1> QED BY <1>2, <1>3

\* Behind a body that is not repeated there is at most a footer.
LEMMA NextFooter ==
  ASSUME TypeOK, AtBody, NextIn(BodyKinds), sections[at+1] \notin Repeated
  PROVE  /\ Has({"footer"}) <=> ~AtLast
         /\ ~AtLast => at + 2 = Len(sections) /\ sections[at+2] = "footer"
<1>1. /\ sections \in Messages /\ at \in 0..Len(sections) /\ Len(sections) \in Nat
      /\ \A i \in 1..Len(sections) : sections[i] \in Sections /\ Rank[sections[i]] \in 1..7
      /\ at + 1 \in 1..Len(sections) /\ Rank[sections[at+1]] = 6
  BY Ordered, RankFacts DEF TypeOK, NextIn
<1>2. ASSUME Has({"footer"}) PROVE ~AtLast
  <2>1. PICK i \in 1..Len(sections) : sections[i] = "footer"
    BY <1>2 DEF Has, Present
  <2>2. i > at /\ i # at + 1
    BY <1>1, <2>1, AtBodyFacts, RankFacts
  <2> QED BY <1>1, <2>2 DEF AtLast
<1>3. ASSUME ~AtLast
      PROVE  at + 2 = Len(sections) /\ sections[at+2] = "footer"
  <2>1. at + 2 \in 1..Len(sections)
    BY <1>1, <1>3 DEF AtLast
  <2>2. Rank[sections[at+1]] < Rank[sections[at+2]]
    BY <1>1, <2>1, Ordered
  <2>3. Rank[sections[at+2]] = 7
    BY <1>1, <2>1, <2>2
  <2>4. sections[at+2] = "footer" /\ sections[at+2] \notin Repeated
    BY <1>1, <2>1, <2>3, RankFacts
  <2>5. ASSUME at + 3 \in 1..Len(sections) PROVE FALSE
    <3>1. Rank[sections[at+2]] < Rank[sections[at+3]]
      BY <1>1, <2>1, <2>4, <2>5, Ordered
    <3>2. Rank[sections[at+3]] \in 1..7
      BY <1>1, <2>5
    <3> QED BY <2>3, <3>1, <3>2
  <2> QED BY <1>1, <2>1, <2>4, <2>5
<1>4. ASSUME ~AtLast PROVE Has({"footer"})
  BY <1>1, <1>3, <1>4 DEF Has, Present
<1> QED BY <1>2, <1>3, <1>4

\* A body that has been taken.
LEMMA BodyTaken ==
  ASSUME TypeOK, sections # <<>>, outcome = "running", step = BodyStep, sections' = sections,
         descriptor' = descriptor, NEW b \in {"sent", "another"}, NEW n \in {1, 2},
         at + n <= Len(sections), TakeBody(b, n),
         NEW c \in 1..Len(sections), c = at + 1, ReadTo(c)',
         descriptor \in Sections, descriptor # "footer"
  PROVE  IInv'
<1>1. /\ at' = at + n /\ body' = b /\ open' = FALSE /\ step' = 7 /\ outcome' = "running"
      /\ at \in Nat /\ Len(sections) \in Nat /\ at + n \in 0..Len(sections)
      /\ decoded' = decoded \cup {at + 1} /\ decoded \subseteq 1..Len(sections)
  BY Ordered DEF TakeBody, Continue, BodyStep, TypeOK
<1>2. decoded' = 1..(at + 1)
  BY <1>1 DEF ReadTo
<1>3. TypeOK'
  <2>1. PICK m \in 0..Len(sections) : m = at + n
    BY <1>1
  <2>2. open' \in BOOLEAN /\ outcome' \in {"running", "ok", "err", "panic"}
    BY <1>1
  <2>3. step' \in 0..8 /\ decoded' \subseteq 1..m
    BY <1>1, <1>2, <2>1
  <2>4. descriptor' \in Sections \cup {"none"} /\ body' \in {"none", "sent", "another"}
    BY <1>1
  <2> QED BY <1>1, <2>1, <2>2, <2>3, <2>4, Types
<1>4. Read'
  BY DEF Read
<1>5. Progress'
  BY <1>1, <1>4 DEF Progress, BodyStep, NextStep, FooterStep
<1>6. (step <= BodyStep => decoded = 1..at /\ body = "none")'
  BY <1>1 DEF BodyStep
<1> QED BY <1>1, <1>3, <1>5, <1>6, StillRunning

\* A body that fails.
LEMMA BodyFailed ==
  ASSUME TypeOK, sections # <<>>, outcome = "running", sections' = sections,
         descriptor' = descriptor, NEW o \in {"err", "panic"}, FailBody(o),
         InPlace => ~Has(Known) /\ (o = "panic" <=> Has({"described_panics"})),
         ~InPlace =>
           /\ ~Has({"described_body"}) /\ ~(Has({"names_sequence"}) /\ Has({"footer"}))
           /\ o = "panic" <=> \/ Has({"null", "described_deep"})
                              \/ Has({"uint", "names_data"}) /\ ~Has({"footer"})
  PROVE  IInv'
<1>1. /\ UNCHANGED <<at, decoded, body, open, step>> /\ outcome' = o
  BY DEF FailBody, Finish
<1>2. TypeOK'
  BY <1>1 DEF TypeOK
<1>3. Present' = Present
  BY DEF Present
<1>4. InPlace' = InPlace /\ \A kinds : Has(kinds)' = Has(kinds)
  BY <1>3 DEF InPlace, Has
<1>5. DecodedIsSent'
  BY <1>1 DEF DecodedIsSent
<1>6. AcceptedMessages' /\ PanicsExactly'
  BY <1>1, <1>3 DEF AcceptedMessages, PanicsExactly, InPlace, Has
<1> QED BY <1>1, <1>2, <1>5, <1>6 DEF IInv, Verdict

\* What is known where the body is read.
LEMMA BodyBase ==
  ASSUME IInv, Runs(BodyStep)
  PROVE  /\ TypeOK /\ AtBody /\ sections # <<>> /\ outcome = "running" /\ step = BodyStep
         /\ decoded = 1..at /\ body = "none" /\ sections \in Messages
         /\ Len(sections) \in Nat /\ at \in 0..Len(sections)
         /\ \A i \in 1..Len(sections) : i <= at => sections[i] \notin BodyKinds
         /\ at < Len(sections) => sections[at+1] \in Sections
<1>1. outcome = "running" /\ step = 6 /\ BodyStep = 6
  BY DEF Runs, BodyStep
<1>2. /\ TypeOK /\ AtBody /\ decoded = 1..at /\ body = "none" /\ sections \in Messages /\ sections # <<>>
      /\ Len(sections) \in Nat /\ at \in 0..Len(sections)
  BY <1>1, Ordered DEF IInv, Progress, TypeOK
<1>3. \A i \in 1..Len(sections) : i <= at => sections[i] \notin BodyKinds
  BY <1>2, AtBodyFacts, RankFacts
<1>4. at < Len(sections) => sections[at+1] \in Sections
  BY <1>2, Ordered
<1> QED BY <1>1, <1>2, <1>3, <1>4

\* Body::deserialize in its place keeps the invariant.
LEMMA ReadBodyInv == IInv /\ ReadBody => IInv'
<1> SUFFICES ASSUME IInv, ReadBody PROVE IInv'
  OBVIOUS
<1>1. Runs(BodyStep) /\ ~open /\ UNCHANGED <<sections, descriptor>>
  BY DEF ReadBody
<1>2. /\ TypeOK /\ AtBody /\ sections # <<>> /\ outcome = "running" /\ step = BodyStep
      /\ decoded = 1..at /\ sections \in Messages
      /\ Len(sections) \in Nat /\ at \in 0..Len(sections)
      /\ \A i \in 1..Len(sections) : i <= at => sections[i] \notin BodyKinds
  BY <1>1, BodyBase
<1>3. InPlace' = InPlace
  BY <1>1 DEF InPlace, Has, Present
<1>4. Known \subseteq BodyKinds /\ {"described_known"} \subseteq Known
  BY DEF Known, BodyKinds
<1>5. CASE InPlace /\ NextIn(Known)
  <2>1. at + 1 <= Len(sections) /\ at + 1 \in 1..Len(sections) /\ sections[at+1] \in Known
    BY <1>2, <1>5 DEF NextIn
  <2>2. Rank[sections[at+1]] = 6 /\ sections[at+1] \in BodyKinds
    BY <1>4, <2>1, RankFacts
  <2>3. descriptor = "application_properties" /\ descriptor \in Sections
    BY <1>2, <1>5, AtBodyFacts, RankFacts
  <2>4. PICK b \in {"sent", "another"} :
          TakeBody(b, 1) /\ b = IF sections[at+1] = "described_known" THEN "another" ELSE "sent"
    BY <1>5, <2>1 DEF ReadBody, NextIn
  <2>5. at' = at + 1 /\ decoded' = 1..(at + 1) /\ body' = b
    BY <1>2, <2>4 DEF TakeBody
  <2>6. PICK c \in 1..Len(sections) : c = at + 1
    BY <2>1
  <2>7. ReadTo(c)'
    BY <1>1, <1>2, <1>3, <1>5, <2>1, <2>2, <2>4, <2>5, <2>6 DEF ReadTo
  <2> QED BY <1>1, <1>2, <2>1, <2>3, <2>4, <2>6, <2>7, BodyTaken
<1>6. CASE InPlace /\ ~NextIn(Known)
  <2>1. PICK o \in {"err", "panic"} : FailBody(o) /\ (o = "panic" <=> NextIn({"described_panics"}))
    BY <1>4, <1>6 DEF ReadBody, NextIn
  <2>2. Known \in SUBSET (BodyKinds \cup {"null"}) /\ {"described_panics"} \in SUBSET (BodyKinds \cup {"null"})
    BY <1>4 DEF BodyKinds
  <2>3. ~Has(Known) /\ (o = "panic" <=> Has({"described_panics"}))
    BY <1>2, <1>6, <2>1, <2>2, NextBody
  <2> QED BY <1>1, <1>2, <1>6, <2>1, <2>3, BodyFailed
<1>7. CASE ~InPlace
  <2>1. at = Len(sections)
    BY <1>1, <1>2, <1>7, AtBodyFacts DEF Held
  <2>2. \A kinds : ~NextIn(kinds)
    BY <1>2, <2>1 DEF NextIn
  <2>3. FailBody("err")
    BY <2>2 DEF ReadBody
  <2>4. \A kinds \in SUBSET (BodyKinds \cup {"null"}) : ~Has(kinds)
    BY <1>2, <2>2, NextBody
  <2>5. /\ {"described_body"} \in SUBSET (BodyKinds \cup {"null"})
        /\ {"names_sequence"} \in SUBSET (BodyKinds \cup {"null"})
        /\ {"null", "described_deep"} \in SUBSET (BodyKinds \cup {"null"})
        /\ {"uint", "names_data"} \in SUBSET (BodyKinds \cup {"null"})
    BY DEF BodyKinds, NamesBody
  <2>6. ~Has({"described_body"}) /\ ~Has({"names_sequence"}) /\ ~Has({"null", "described_deep"})
        /\ ~Has({"uint", "names_data"})
    BY <2>4, <2>5
  <2> QED BY <1>1, <1>2, <1>7, <2>3, <2>6, BodyFailed
<1> QED BY <1>5, <1>6, <1>7

\* Body::deserialize with the descriptor already gone keeps the invariant.
LEMMA ReadBodyOpenedInv == IInv /\ ReadBodyOpened => IInv'
<1> SUFFICES ASSUME IInv, ReadBodyOpened PROVE IInv'
  OBVIOUS
<1>1. Runs(BodyStep) /\ open /\ UNCHANGED <<sections, descriptor>>
  BY DEF ReadBodyOpened
<1>2. /\ TypeOK /\ AtBody /\ sections # <<>> /\ outcome = "running" /\ step = BodyStep
      /\ decoded = 1..at /\ sections \in Messages
      /\ Len(sections) \in Nat /\ at \in 0..Len(sections)
      /\ \A i \in 1..Len(sections) : i <= at => sections[i] \notin BodyKinds
      /\ at < Len(sections) => sections[at+1] \in Sections
  BY <1>1, BodyBase
<1>3. InPlace' = InPlace /\ ~InPlace
  BY <1>1, <1>2, AtBodyFacts DEF InPlace, Has, Present
<1>4. at < Len(sections) /\ descriptor = sections[at+1] /\ descriptor # "null" /\ descriptor \in Sections
      /\ at + 1 \in 1..Len(sections)
  BY <1>1, <1>2, <1>3, AtBodyFacts DEF Held
<1>5. /\ {"described_body"} \in SUBSET (BodyKinds \cup {"null"})
      /\ {"names_sequence"} \in SUBSET (BodyKinds \cup {"null"})
      /\ {"null", "described_deep"} \in SUBSET (BodyKinds \cup {"null"})
      /\ {"uint", "names_data"} \in SUBSET (BodyKinds \cup {"null"})
      /\ {"described_body", "names_sequence", "uint", "names_data"} \subseteq BodyKinds \ Repeated
  BY DEF BodyKinds, NamesBody, Known, Repeated
<1>6. /\ Has({"described_body"}) <=> sections[at+1] = "described_body"
      /\ Has({"names_sequence"}) <=> sections[at+1] = "names_sequence"
      /\ Has({"null", "described_deep"}) <=> sections[at+1] = "described_deep"
      /\ Has({"uint", "names_data"}) <=> sections[at+1] \in {"uint", "names_data"}
  BY <1>2, <1>4, <1>5, NextBody DEF NextIn
<1>7. sections[at+1] \in {"described_body", "names_sequence", "uint", "names_data"} =>
        /\ Has({"footer"}) <=> ~AtLast
        /\ ~AtLast => at + 2 = Len(sections) /\ sections[at+2] = "footer"
        /\ sections[at+1] \in BodyKinds /\ Rank[sections[at+1]] = 6
  BY <1>2, <1>4, <1>5, NextFooter, RankFacts DEF NextIn
<1>8. CASE sections[at+1] = "described_body"
  <2>1. TakeBody("another", 1)
    BY <1>4, <1>8 DEF ReadBodyOpened, NextIn
  <2>2. at' = at + 1 /\ decoded' = 1..(at + 1) /\ body' = "another"
    BY <1>2, <2>1 DEF TakeBody
  <2>3. PICK c \in 1..Len(sections) : c = at + 1
    BY <1>4
  <2>5. ReadTo(c)'
    BY <1>1, <1>2, <1>3, <1>4, <1>7, <1>8, <2>2, <2>3 DEF ReadTo
  <2>4. at + 1 <= Len(sections) /\ descriptor # "footer"
    BY <1>2, <1>4, <1>8
  <2> QED BY <1>1, <1>2, <1>4, <2>1, <2>3, <2>4, <2>5, BodyTaken
<1>9. CASE sections[at+1] = "names_sequence" /\ ~AtLast
  <2>1. TakeBody("another", 2)
    BY <1>4, <1>9 DEF ReadBodyOpened, NextIn
  <2>2. at' = at + 2 /\ decoded' = 1..(at + 1) /\ body' = "another"
    BY <1>2, <2>1 DEF TakeBody
  <2>3. PICK c \in 1..Len(sections) : c = at + 1
    BY <1>4
  <2>5. ReadTo(c)'
    BY <1>1, <1>2, <1>3, <1>4, <1>7, <1>9, <2>2, <2>3 DEF ReadTo
  <2>4. at + 2 <= Len(sections) /\ descriptor # "footer"
    BY <1>2, <1>4, <1>7, <1>9
  <2> QED BY <1>1, <1>2, <1>4, <2>1, <2>3, <2>4, <2>5, BodyTaken
<1>10. CASE sections[at+1] # "described_body" /\ ~(sections[at+1] = "names_sequence" /\ ~AtLast)
  <2>1. PICK o \in {"err", "panic"} :
          /\ FailBody(o)
          /\ o = "panic" <=> \/ sections[at+1] \in {"uint", "names_data"} /\ AtLast
                             \/ sections[at+1] = "described_deep"
    BY <1>4, <1>10 DEF ReadBodyOpened, NextIn
  <2>2. ~Has({"described_body"}) /\ ~(Has({"names_sequence"}) /\ Has({"footer"}))
    BY <1>6, <1>7, <1>10
  <2>3. o = "panic" <=> \/ Has({"null", "described_deep"})
                        \/ Has({"uint", "names_data"}) /\ ~Has({"footer"})
    BY <1>6, <1>7, <2>1
  <2> QED BY <1>1, <1>2, <1>3, <2>1, <2>2, <2>3, BodyFailed
<1> QED BY <1>8, <1>9, <1>10

\* Reading ahead after the body keeps the invariant.
LEMMA AfterBodyInv == IInv /\ AfterBody => IInv'
<1> SUFFICES ASSUME IInv, AfterBody PROVE IInv'
  OBVIOUS
<1>1. outcome = "running" /\ step = 7 /\ UNCHANGED <<sections, at, decoded, body>> /\ ReadAhead(at)
  BY DEF AfterBody, Runs, NextStep
<1>2. /\ TypeOK /\ Read /\ descriptor \in Sections /\ descriptor # "footer"
      /\ sections \in Messages /\ sections # <<>> /\ Len(sections) \in Nat /\ at \in 0..Len(sections)
      /\ decoded \subseteq 1..Len(sections)
  BY <1>1, Ordered DEF IInv, Progress, TypeOK, NextStep
<1>3. InPlace' = InPlace
  BY <1>1 DEF InPlace, Has, Present
<1>4. PICK b \in 1..Len(sections) : ReadTo(b)
  BY <1>2 DEF Read
<1>5. Read'
  <2>1. ReadTo(b)'
    BY <1>1, <1>3, <1>4 DEF ReadTo
  <2> QED BY <1>1, <2>1 DEF Read
<1>6. CASE at = Len(sections)
  <2>1. open' = FALSE /\ descriptor' = descriptor /\ step' = 8 /\ outcome' = "running"
    BY <1>1, <1>6 DEF ReadAhead, Continue
  <2>2. TypeOK'
    <3>0. open' \in BOOLEAN
      BY <2>1
    <3>1. step' \in 0..FooterStep
      BY <2>1 DEF FooterStep
    <3>2. sections \in Messages /\ body \in {"none", "sent", "another"}
      BY <1>2 DEF TypeOK
    <3>3. descriptor' \in Sections \cup {"none"} /\ outcome' \in {"running", "ok", "err", "panic"}
      BY <1>2, <2>1
    <3> QED BY <1>1, <1>2, <3>0, <3>1, <3>2, <3>3 DEF TypeOK
  <2>3. Progress'
    BY <1>1, <1>2, <1>5, <1>6, <2>1 DEF Progress, AtFooter, Held, BodyStep, NextStep, FooterStep
  <2>4. (step <= BodyStep => decoded = 1..at /\ body = "none")'
    BY <2>1 DEF BodyStep
  <2> QED BY <1>1, <1>2, <2>1, <2>2, <2>3, <2>4, StillRunning
<1>7. CASE at < Len(sections)
  <2>1. at = b /\ at \in 1..Len(sections) /\ at + 1 \in 1..Len(sections)
    BY <1>2, <1>4, <1>7 DEF ReadTo
  <2>2. sections[at+1] # "null" /\ sections[at+1] \in Sections
    <3>1. Rank[sections[at]] = 6 /\ sections[at] \in BodyKinds
      BY <1>4, <2>1 DEF ReadTo
    <3>2. sections[at+1] # "null"
      BY <1>2, <2>1, <3>1, OneKind, RankFacts
    <3> QED BY <1>2, <2>1, <3>2, Ordered
  <2>3. open' = TRUE /\ descriptor' = sections[at+1] /\ step' = 8 /\ outcome' = "running"
    BY <1>1, <1>2, <1>7, <2>2 DEF ReadAhead, Continue
  <2>4. TypeOK'
    BY <1>1, <1>2, <2>2, <2>3 DEF TypeOK, FooterStep
  <2>5. Progress'
    BY <1>1, <1>2, <1>5, <1>7, <2>2, <2>3
       DEF Progress, AtFooter, Held, BodyStep, NextStep, FooterStep
  <2>6. (step <= BodyStep => decoded = 1..at /\ body = "none")'
    BY <2>3 DEF BodyStep
  <2> QED BY <1>1, <1>2, <2>3, <2>4, <2>5, <2>6, StillRunning
<1> QED BY <1>2, <1>6, <1>7

\* A message whose body has been read is accepted, and does not panic.
LEMMA ReadIsAccepted ==
  ASSUME TypeOK, NEW b \in 1..Len(sections), ReadTo(b)
  PROVE  /\ IF InPlace THEN Has(Known)
            ELSE Has({"described_body"}) \/ (Has({"names_sequence"}) /\ Has({"footer"}))
         /\ ~(IF InPlace THEN Has({"described_panics"})
              ELSE \/ Has({"null", "described_deep"})
                   \/ Has({"uint", "names_data"}) /\ ~Has({"footer"}))
<1>1. sections \in Messages /\ Len(sections) \in Nat /\ at \in 0..Len(sections)
  BY Ordered DEF TypeOK
<1>2. \A kinds \in SUBSET (BodyKinds \cup {"null"}) : Has(kinds) <=> sections[b] \in kinds
  <2> SUFFICES ASSUME NEW kinds \in SUBSET (BodyKinds \cup {"null"})
               PROVE  Has(kinds) <=> sections[b] \in kinds
    OBVIOUS
  <2>1. ASSUME sections[b] \in kinds PROVE Has(kinds)
    BY <2>1 DEF Has, Present
  <2>2. ASSUME Has(kinds) PROVE sections[b] \in kinds
    <3>1. PICK i \in 1..Len(sections) : sections[i] \in kinds
      BY <2>2 DEF Has, Present
    <3>2. Rank[sections[i]] = 6 /\ Rank[sections[b]] = 6
      BY <3>1, RankFacts DEF ReadTo
    <3> QED BY <1>1, <3>1, <3>2, OneKind
  <2> QED BY <2>1, <2>2
<1>3. /\ Known \in SUBSET (BodyKinds \cup {"null"})
      /\ {"described_body"} \in SUBSET (BodyKinds \cup {"null"})
      /\ {"names_sequence"} \in SUBSET (BodyKinds \cup {"null"})
      /\ {"described_panics"} \in SUBSET (BodyKinds \cup {"null"})
      /\ {"null", "described_deep"} \in SUBSET (BodyKinds \cup {"null"})
      /\ {"uint", "names_data"} \in SUBSET (BodyKinds \cup {"null"})
  BY DEF BodyKinds, NamesBody
<1>4. CASE InPlace
  <2>1. sections[b] \in Known /\ sections[b] # "described_panics"
    BY <1>4 DEF ReadTo, Known
  <2> QED BY <1>2, <1>3, <1>4, <2>1
<1>5. CASE ~InPlace
  <2>1. CASE sections[b] = "described_body"
    BY <1>2, <1>3, <1>5, <2>1
  <2>2. CASE at = b + 1 /\ at = Len(sections) /\ sections[b] = "names_sequence" /\ sections[at] = "footer"
    <3>1. Has({"footer"})
      BY <1>1, <2>2 DEF Has, Present
    <3> QED BY <1>2, <1>3, <1>5, <2>2, <3>1
  <2> QED BY <1>5, <2>1, <2>2 DEF ReadTo
<1> QED BY <1>4, <1>5

\* The last read keeps the invariant.
LEMMA ReadFooterInv == IInv /\ ReadFooter => IInv'
<1> SUFFICES ASSUME IInv, ReadFooter PROVE IInv'
  OBVIOUS
<1>1. outcome = "running" /\ step = 8 /\ UNCHANGED <<sections, descriptor, body, step>> /\ outcome' = "ok"
  BY DEF ReadFooter, Runs, FooterStep, Finish
<1>2. /\ TypeOK /\ AtFooter /\ sections \in Messages /\ sections # <<>>
      /\ Len(sections) \in Nat /\ at \in 0..Len(sections) /\ descriptor \in Sections \cup {"none"}
  BY <1>1, Ordered DEF IInv, Progress, TypeOK, FooterStep, BodyStep, NextStep
<1>3. PICK b \in 1..Len(sections) : ReadTo(b)
  BY <1>2 DEF AtFooter, Read
<1>4. /\ sections[b] \in BodyKinds /\ Rank[sections[b]] = 6 /\ decoded = 1..b
      /\ \A i \in 1..Len(sections) : i < b => sections[i] \notin BodyKinds
      /\ b \in Nat /\ (at = b \/ at = b + 1)
  BY <1>1, <1>3 DEF ReadTo
<1>5. Present' = Present /\ Bodies' = Bodies
  BY <1>1 DEF Present, Bodies
<1>6. b \in Bodies /\ \A i \in Bodies : b <= i
  BY <1>4 DEF Bodies
<1>7. body' = "sent" <=> InPlace /\ sections[b] # "described_known"
  BY <1>1, <1>3 DEF ReadTo
<1>8. body' # "none"
  BY <1>1, <1>3 DEF ReadTo
<1>9. AcceptedMessages' /\ PanicsExactly'
  BY <1>1, <1>2, <1>3, <1>5, ReadIsAccepted DEF AcceptedMessages, PanicsExactly, InPlace, Has
<1>10. ASSUME decoded' = IF Bodies = {b} /\ sections[b] # "names_sequence" THEN 1..Len(sections) ELSE 1..b
       PROVE  DecodedIsSent'
  BY <1>1, <1>5, <1>6, <1>7, <1>8, <1>10 DEF DecodedIsSent, InPlace, Has
<1>11. CASE descriptor = "footer"
  <2>1. at' = at + 1 /\ decoded' = decoded \cup {at + 1} /\ open' = FALSE
    BY <1>11 DEF ReadFooter, TakeValue
  <2>2. at < Len(sections) /\ sections[at+1] = "footer"
    BY <1>2, <1>11 DEF AtFooter, Held
  <2>3. at = b /\ sections[b] # "names_sequence"
    BY <1>2, <1>3, <2>2 DEF ReadTo, Known
  <2>4. at + 1 \in 1..Len(sections) /\ Rank[sections[at+1]] = 7 /\ sections[at+1] \notin BodyKinds
    BY <1>2, <2>2, RankFacts
  <2>5. ASSUME NEW i \in 1..Len(sections), i > at + 1 PROVE FALSE
    <3>1. Rank[sections[at+1]] < Rank[sections[i]]
      BY <1>2, <2>2, <2>4, <2>5, Ordered, RankFacts
    <3>2. Rank[sections[i]] \in 1..7
      BY <1>2, Ordered, RankFacts
    <3> QED BY <2>4, <3>1, <3>2
  <2>6. at + 1 = Len(sections)
    BY <1>2, <2>2, <2>4, <2>5
  <2>7. Bodies = {b}
    BY <1>2, <1>4, <1>6, <2>3, <2>4, <2>6 DEF Bodies
  <2>8. decoded' = 1..Len(sections)
    BY <1>2, <1>4, <2>1, <2>3, <2>6
  <2>9. TypeOK'
    <3>0. open' \in BOOLEAN
      BY <2>1
    <3>1. at' \in 0..Len(sections)
      BY <1>2, <2>1, <2>6
    <3>2. step' \in 0..FooterStep /\ body' \in {"none", "sent", "another"}
      BY <1>1, <1>2 DEF TypeOK
    <3>3. outcome' \in {"running", "ok", "err", "panic"} /\ decoded' \subseteq 1..Len(sections)
      BY <1>1, <2>8
    <3> QED BY <1>1, <1>2, <3>0, <3>1, <3>2, <3>3 DEF TypeOK
  <2>10. DecodedIsSent'
    BY <1>10, <2>3, <2>7, <2>8
  <2> QED BY <1>1, <1>2, <1>9, <2>9, <2>10 DEF IInv, Verdict
<1>12. CASE descriptor # "footer"
  <2>1. UNCHANGED <<at, decoded, open>>
    BY <1>12 DEF ReadFooter
  <2>2. TypeOK'
    BY <1>1, <1>2, <2>1 DEF TypeOK
  <2>3. decoded' = IF Bodies = {b} /\ sections[b] # "names_sequence" THEN 1..Len(sections) ELSE 1..b
    <3>1. CASE sections[b] = "names_sequence"
      BY <1>4, <2>1, <3>1
    <3>2. CASE sections[b] # "names_sequence"
      <4>1. at = b
        BY <1>3, <3>2 DEF ReadTo
      <4>2. CASE at = Len(sections)
        BY <1>4, <2>1, <4>1, <4>2
      <4>3. CASE at < Len(sections)
        <5>1. at + 1 \in 1..Len(sections) /\ sections[at+1] # "footer" /\ sections[at+1] \in Sections
          BY <1>2, <1>12, <4>3, Ordered DEF AtFooter, Held
        <5>2. \/ Rank[sections[b]] < Rank[sections[at+1]]
              \/ sections[at+1] = sections[b]
          BY <1>2, <1>4, <4>1, <5>1, Ordered
        <5>3. sections[at+1] \in BodyKinds
          <6>1. CASE sections[at+1] = sections[b]
            BY <1>4, <6>1
          <6>2. CASE Rank[sections[b]] < Rank[sections[at+1]]
            <7>1. Rank[sections[at+1]] \in 1..7
              BY <5>1, RankFacts
            <7>2. Rank[sections[at+1]] = 7
              BY <1>4, <6>2, <7>1
            <7> QED BY <5>1, <7>2, RankFacts
          <6> QED BY <5>2, <6>1, <6>2
        <5>4. Bodies # {b}
          BY <1>4, <4>1, <5>1, <5>3 DEF Bodies
        <5> QED BY <1>4, <2>1, <5>4
      <4> QED BY <1>2, <4>2, <4>3
    <3> QED BY <3>1, <3>2
  <2>4. DecodedIsSent'
    BY <1>10, <2>3
  <2> QED BY <1>1, <1>2, <1>9, <2>2, <2>4 DEF IInv, Verdict
<1> QED BY <1>11, <1>12

\* Every step keeps the invariant.
LEMMA StepInv == IInv /\ [Next]_vars => IInv'
<1>1. ASSUME IInv, UNCHANGED vars PROVE IInv'
  <2>1. UNCHANGED <<sections, at, open, descriptor, step, decoded, body, outcome>>
    BY <1>1 DEF vars
  <2>2. Present' = Present /\ Bodies' = Bodies
    BY <2>1 DEF Present, Bodies
  <2>3. InPlace' = InPlace
    BY <2>2 DEF InPlace, Has
  <2>4. TypeOK'
    BY <1>1, <2>1 DEF IInv, TypeOK
  <2>5. Verdict'
    BY <1>1, <2>1, <2>2, <2>3
       DEF IInv, Verdict, DecodedIsSent, AcceptedMessages, PanicsExactly, Has
  <2>6. /\ Held' = Held /\ AtReads' = AtReads /\ AtBody' = AtBody
    BY <2>1 DEF AtReads, AtBody, Held, Before, From
  <2>7. Read' = Read /\ AtFooter' = AtFooter
    BY <2>1, <2>3, <2>6 DEF Read, ReadTo, AtFooter
  <2>8. Progress' = Progress
    BY <2>1, <2>6, <2>7 DEF Progress
  <2> QED BY <1>1, <2>1, <2>4, <2>5, <2>8 DEF IInv
<1> QED BY <1>1, NewReaderInv, ReadMatchedInv, ReadSkippedInv, ReadBodyInv, ReadBodyOpenedInv,
           AfterBodyInv, ReadFooterInv
        DEF Next, Done

\* The invariant holds of every behaviour.
LEMMA Invariant == Spec => []IInv
BY InitInv, StepInv, PTL DEF Spec

-----------------------------------------------------------------------------
\* The types of the reader's state, for every set of messages.
THEOREM TypeCorrect == Spec => []TypeOK
<1>1. IInv => TypeOK
  BY DEF IInv
<1> QED BY <1>1, Invariant, PTL

\* A descriptor that is still held at the end of the input matches no later
\* read.
THEOREM FreshMatches == Spec => []MatchIsFresh
<1>1. IInv => MatchIsFresh
  <2> SUFFICES ASSUME IInv PROVE MatchIsFresh
    OBVIOUS
  <2>0. sections \in Messages /\ Len(sections) \in Nat /\ at \in 0..Len(sections)
    BY Ordered DEF IInv, TypeOK
  <2>1. ASSUME Runs(step), step \in DOMAIN Reads, descriptor = Reads[step]
        PROVE  open /\ sections[at+1] = Reads[step]
    <3>1. step \in 1..5 /\ Rank[descriptor] = step
      BY <2>1, ReadsFacts
    <3>2. AtReads
      BY <2>1, <3>1 DEF IInv, Progress, Runs
    <3> QED BY <2>0, <2>1, <3>1, <3>2 DEF AtReads, Held
  <2>2. ASSUME Runs(FooterStep), descriptor = "footer"
        PROVE  open /\ sections[at+1] = "footer"
    <3>1. AtFooter
      BY <2>2 DEF IInv, Progress, Runs
    <3> QED BY <2>0, <2>2, <3>1 DEF AtFooter, Held
  <2> QED BY <2>1, <2>2 DEF MatchIsFresh
<1> QED BY <1>1, Invariant, PTL

\* What a message that decodes has of the message sent: every section before
\* the first of several bodies, the body itself only where the application
\* properties are there, and no footer that a Sequence took for its list.
THEOREM SentIsDecoded == Spec => []DecodedIsSent
<1>1. IInv => DecodedIsSent
  BY DEF IInv, Verdict
<1> QED BY <1>1, Invariant, PTL

\* Which messages decode, for every body the sections may have.
THEOREM Accepted == Spec => []AcceptedMessages
<1>1. IInv => AcceptedMessages
  BY DEF IInv, Verdict
<1> QED BY <1>1, Invariant, PTL

\* Which messages panic: with application properties and without.
THEOREM PanicsKnown == Spec => []PanicsExactly
<1>1. IInv => PanicsExactly
  BY DEF IInv, Verdict
<1> QED BY <1>1, Invariant, PTL
=============================================================================

--------------------------- MODULE MCSectionReader ---------------------------
(* Every choice of the other sections, with no body, the null the encoder   *)
(* writes for none, every kind of body, and data and sequences in two       *)
(* sections.                                                                *)
EXTENDS SectionReader, FiniteSets, SequencesExt

Optional == <<"header", "delivery_annotations", "message_annotations", "properties",
              "application_properties">>
Pick(s, present) == SelectSeq(s, LAMBDA x : x \in present)
MCBodies == {<<>>, <<"null">>} \cup {<<k>> : k \in BodyKinds}
            \cup {<<k, k>> : k \in Repeated}
MCMessages ==
  { Pick(Optional, present) \o b \o Pick(<<"footer">>, present) :
      present \in SUBSET (ToSet(Optional) \cup {"footer"}), b \in MCBodies }
=============================================================================

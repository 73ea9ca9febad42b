---------------------------- MODULE TreeDecoding ----------------------------
(***************************************************************************)
(* What a decoder means, on the tree of an element: the reference for the  *)
(* decoders of StanzaDecoding, which work on tokens.                       *)
(***************************************************************************)
EXTENDS StanzaDecoding

(* The reference: a decoder takes the children it knows and leaves out the *)
(* others with all they contain.                                           *)
RECURSIVE Tree(_, _)
Tree(e, kind) ==
  LET known == SelectSeq(e.kids, LAMBDA k : Child(kind, k.name).does # "ignore")
      value(k) == Tree(k, Child(kind, k.name).as)
      broken == \E i \in 1 .. Len(known) :
                  Child(kind, known[i].name).does = "fail" \/ ~value(known[i]).ok
  IN IF ~Fits(Tokens(e), 1, kind) \/ broken THEN Failed
     ELSE Done(Value(kind, StartToken(e),
                     FoldLeft(LAMBDA fs, k : Assign(fs, Child(kind, k.name), value(k).value),
                              <<>>, known)))

NamesIn(e) == {Tokens(e)[i].name : i \in 1 .. Len(Tokens(e))}

(* No element that a decoder reads through holds anything that decoder     *)
(* would take for its own child or for its own end.                        *)
RECURSIVE Plain(_, _)
Plain(e, kind) ==
  \A i \in 1 .. Len(e.kids) :
    LET k == e.kids[i]
        child == Child(kind, k.name)
    IN /\ child.does = "decode" => Plain(k, child.as)
       /\ child.does = "ignore" /\ kind \in ReadsThrough =>
            \A n \in NamesIn(k) : n # e.name /\ Child(kind, n).does = "ignore"

Reads(e) == packets' = packets + 1 /\ open /\ e # StreamEnd

(* Reading tokens gives what the tree of the element means: a child that   *)
(* is not known, at any depth, disturbs neither its siblings nor the place *)
(* of the next packet, as long as it holds nothing that reads like a part  *)
(* of the element around it (NextPacket and the UnmarshalXML methods).     *)
DecodesAsTree ==
  [][Reads(input') /\ Plain(input', PacketKind(input'.name)) =>
       output' = IF PacketKind(input'.name) = "unknown" THEN Failed
                 ELSE Tree(input', PacketKind(input'.name))]_vars

(* An error with a code that is sent on says the same: reason and text     *)
(* survive MarshalXML and UnmarshalXML.                                    *)
ErrorsRoundTrip ==
  \A i \in 1 .. Len(output.value.fields) :
    LET v == output.value.fields[i].value
        w == Tree(MarshalErr(v), "err").value
        Said(x) == <<[k \in 1 .. Len(Only(x, "Reason")) |-> Only(x, "Reason")[k].value.name[2]],
                     {Only(x, "Text")[k].value.text : k \in 1 .. Len(Only(x, "Text"))} \ {""}>>
    IN v.type = "err" /\ v.text # "" => Said(w) = Said(v)
=============================================================================

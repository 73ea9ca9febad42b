-------------------------------- MODULE Text --------------------------------
(***************************************************************************)
(* Character strings as sequences of character codes, with the functions   *)
(* of Go's strings package that the address helpers and SASL call.         *)
(***************************************************************************)
EXTENDS Integers, SequencesExt

Space == 32
Comma == 44
Slash == 47
Colon == 58
EqualSign == 61
AtSign == 64
Open == 91
Close == 93

Chars(s) == ToSet(s)

(* strings.Index and strings.LastIndex of one character; 0 when absent.    *)
FirstAt(s, c) == SelectInSeq(s, LAMBDA x : x = c)
LastAt(s, c)  == SelectLastInSeq(s, LAMBDA x : x = c)

Occurrences(s, c) == Cardinality({i \in DOMAIN s : s[i] = c})

(* strings.SplitN(s, c, 2).                                                *)
SplitOnce(s, c) ==
  LET i == FirstAt(s, c)
  IN IF i = 0 THEN <<s>> ELSE <<SubSeq(s, 1, i - 1), SubSeq(s, i + 1, Len(s))>>

(* strings.Join.                                                           *)
Join(parts, separator) ==
  FlattenSeq([i \in DOMAIN parts |->
                IF i = 1 THEN parts[i] ELSE <<separator>> \o parts[i]])

(* The order of Go's strings.                                              *)
Precedes(s, t) ==
  \E n \in 0 .. Len(s) :
    /\ n <= Len(t) /\ SubSeq(s, 1, n) = SubSeq(t, 1, n)
    /\ n < Len(s) => n < Len(t) /\ s[n + 1] < t[n + 1]

(* sort.Strings: each name goes before the first that follows it.          *)
Inserted(s, name) ==
  LET i == SelectInSeq(s, LAMBDA t : ~Precedes(t, name))
  IN IF i = 0 THEN Append(s, name) ELSE InsertAt(s, i, name)

Sorted(names) ==
  LET sorted[n \in 0 .. Len(names)] ==
        IF n = 0 THEN <<>> ELSE Inserted(sorted[n - 1], names[n])
  IN sorted[Len(names)]
=============================================================================

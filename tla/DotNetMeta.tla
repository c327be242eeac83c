----------------------------- MODULE DotNetMeta -----------------------------
(***************************************************************************)
(* The self-description a .NET process sends with its events               *)
(* (helpers/dotnet/nettrace.rs): the labels of an event's extension and    *)
(* the metadata blob.  The blob of the fields, at its end, is read in      *)
(* DotNetFields.                                                           *)
(*                                                                         *)
(* A blob is a sequence of tokens, each an integer or a string of the      *)
(* source's encoding; a blob that ends early ends between two tokens, and  *)
(* a size counts tokens.                                                   *)
(***************************************************************************)
EXTENDS Integers, Sequences, SequencesExt

Num(n) == [int |-> n]
Txt(s) == [str |-> s]
Tokens == [int : Int] \cup [str : STRING]

-----------------------------------------------------------------------------
(* The extension: labels with what they carry.                             *)

Label(kind, data) == [kind |-> kind, data |-> data]
LabelKinds == {"meta", "activity", "related"}

(* parse_event_extension_v1 stops at a label it does not know, at one      *)
(* whose data is not all there, and after three.                           *)
ParsedLabels(ext) ==
    LET bad == SelectInSeq(ext, LAMBDA l : l.kind \notin LabelKinds)
        upto == IF bad = 0 THEN Len(ext) ELSE bad - 1
    IN SubSeq(ext, 1, IF upto < 3 THEN upto ELSE 3)

(* What the handler keeps of a label: the last one of its kind.            *)
LabelData(ext, kind, none) ==
    LET labels == ParsedLabels(ext)
        at == SelectLastInSeq(labels, LAMBDA l : l.kind = kind)
    IN IF at = 0 THEN none ELSE labels[at].data

-----------------------------------------------------------------------------
(* The metadata: the id, the name, keywords, version and level, then the   *)
(* fields.  What is cut off is missing, and so is all that follows.        *)

NoValue == -1

MetaParser(toks) ==
    [name |-> IF Len(toks) > 1 THEN toks[2].str ELSE "",
     keywords |-> IF Len(toks) > 2 THEN toks[3].int ELSE NoValue,
     version |-> IF Len(toks) > 3 THEN toks[4].int ELSE NoValue,
     fields |-> SubSeq(toks, 6, Len(toks))]

(* What a runtime writes of an event: the reference for the parser.        *)
MetaTokens(id, e, fields) ==
    <<Num(id), Txt(e.name), Num(e.keywords), Num(e.version), Num(4)>> \o fields
=============================================================================

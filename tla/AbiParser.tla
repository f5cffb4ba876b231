------------------------------ MODULE AbiParser ------------------------------
(***************************************************************************)
(* The types of event and function parameters as a JSON ABI writes them    *)
(* (abi/parser.rs) and the signature that AbiEvent hashes into the first   *)
(* topic (abi/types.rs).  A signature that differs from the compiler's     *)
(* raises no error: no log ever matches it.                                *)
(*                                                                         *)
(* The text of a type is a record: base is its word, bits the number       *)
(* written behind it (0 if there is none), dims its brackets from left to  *)
(* right, where 0 is [] and n is [n], comps the components of a tuple.     *)
(***************************************************************************)
EXTENDS Naturals, Sequences, SequencesExt

Unknown == [k |-> "unknown"]

RECURSIVE ParseTypeString(_)

(* Mutant: the first bracket is taken for the outermost array.             *)
BracketsLeft(text) == <<[text EXCEPT !.dims = Tail(@)], Head(text.dims)>>

(* strip_suffix and rfind: what is before the last bracket, and its size.  *)
Brackets(text) == <<[text EXCEPT !.dims = Front(@)], Last(text.dims)>>

ParseTypeString(text) ==
  CASE text.dims # <<>> ->
         LET elem == ParseTypeString(Brackets(text)[1])
             size == Brackets(text)[2]
         IN  CASE elem = Unknown -> Unknown
               [] elem # Unknown /\ size = 0 -> [k |-> "array", of |-> elem]
               [] OTHER -> [k |-> "farray", of |-> elem, n |-> size]
    [] text.dims = <<>> /\ text.base \in {"address", "bool", "string"} -> [k |-> text.base]
    [] text.dims = <<>> /\ text.base \in {"uint", "int"} ->
         [k |-> text.base, n |-> IF text.bits = 0 THEN 256 ELSE text.bits]
    [] text.dims = <<>> /\ text.base = "bytes" ->
         IF text.bits = 0 THEN [k |-> "bytes"] ELSE [k |-> "fixed", n |-> text.bits]
    [] OTHER -> Unknown

RECURSIVE ParseParam(_)

(* parse_param: the components are looked at for tuple and tuple[] only.   *)
(* parse_params stops at the first type that is not known.                 *)
ParseParam(text) ==
  IF text.base # "tuple" \/ text.dims \notin {<<>>, <<0>>} THEN ParseTypeString(text)
  ELSE LET parts == [i \in DOMAIN text.comps |-> ParseParam(text.comps[i])]
           tuple == [k |-> "tuple", parts |-> parts]
       IN  CASE \E i \in DOMAIN parts : parts[i] = Unknown -> Unknown
             [] OTHER -> IF text.dims = <<>> THEN tuple ELSE [k |-> "array", of |-> tuple]

RECURSIVE ToSolString(_)

(* The text of a type, as it stands in a signature.                        *)
ToSolString(t) ==
  LET plain == [base |-> t.k, bits |-> 0, dims |-> <<>>, comps |-> <<>>]
  IN  CASE t.k \in {"uint", "int"} -> [plain EXCEPT !.bits = t.n]
        [] t.k = "fixed" -> [plain EXCEPT !.base = "bytes", !.bits = t.n]
        [] t.k = "array" -> [ToSolString(t.of) EXCEPT !.dims = Append(@, 0)]
        [] t.k = "farray" -> [ToSolString(t.of) EXCEPT !.dims = Append(@, t.n)]
        [] t.k = "tuple" ->
             [plain EXCEPT !.comps = [i \in DOMAIN t.parts |-> ToSolString(t.parts[i])]]
        [] OTHER -> plain

-----------------------------------------------------------------------------
(* The compiler's form of a type, for reference.                           *)
RECURSIVE Canonical(_)
Canonical(text) ==
  [text EXCEPT !.bits = IF @ = 0 /\ text.base \in {"uint", "int"} THEN 256 ELSE @,
               !.comps = [i \in DOMAIN @ |-> Canonical(@[i])]]

RECURSIVE Refusable(_)
Refusable(text) ==
  \/ text.base = "function"
  \/ text.base = "tuple" /\ text.dims \notin {<<>>, <<0>>}
  \/ \E i \in DOMAIN text.comps : Refusable(text.comps[i])

(* types.rs:95 and parser.rs:117: a parameter is refused exactly if it is, *)
(* or contains, a tuple in more than one array or in a fixed one, or a     *)
(* function; any other has in the signature the form that the compiler     *)
(* hashes, through every nesting of arrays and tuples.                     *)
SignatureCanonical(text) ==
  IF Refusable(text) THEN ParseParam(text) = Unknown
  ELSE ToSolString(ParseParam(text)) = Canonical(text)
=============================================================================

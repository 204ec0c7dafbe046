---------------------------- MODULE SegmentMatchers ---------------------------
(***************************************************************************)
(* The segments of route templates and what each of them matches           *)
(* (Include/Router/RouteTemplateSegments.hpp, SegmentMatchers.hpp,         *)
(* SegmentOperations.hpp).                                                 *)
(*                                                                         *)
(* A segment of a template is literal text or a parameter, which has a     *)
(* name, the kind of its constraint and the constraint's arguments. A      *)
(* segment of a path is given by what the matchers see of it: its text and *)
(* length, whether the conversions to bool, int, float and double accept   *)
(* it and which int they make of it (they accept any text that begins with *)
(* a number), and whether all its characters are letters.                  *)
(***************************************************************************)
EXTENDS Integers

Kinds ==
  {"string", "bool", "float", "double", "int", "required", "alpha", "min", "max", "range",
   "minlength", "maxlength", "length", "regex", "any"}

Precedence(segment) ==
  CASE segment.kind = "string"    -> 140 [] segment.kind = "bool"      -> 130
    [] segment.kind = "float"     -> 120 [] segment.kind = "double"    -> 110
    [] segment.kind = "int"       -> 100 [] segment.kind = "required"  -> 90
    [] segment.kind = "alpha"     -> 80  [] segment.kind = "min"       -> 70
    [] segment.kind = "max"       -> 60  [] segment.kind = "range"     -> 50
    [] segment.kind = "minlength" -> 40  [] segment.kind = "maxlength" -> 30
    [] segment.kind = "length"    -> 20  [] segment.kind = "regex"     -> 10
    [] segment.kind = "any"       -> 0

Matches(segment, word) ==
  CASE segment.kind = "string"    -> word.text = segment.text
    [] segment.kind = "bool"      -> word.bool \/ word.isInt
    [] segment.kind = "float"     -> word.float
    [] segment.kind = "double"    -> word.double
    [] segment.kind = "int"       -> word.isInt
    [] segment.kind = "required"  -> word.length > 0
    [] segment.kind = "alpha"     -> word.alpha
    [] segment.kind = "min"       -> word.isInt /\ word.int >= segment.min
    [] segment.kind = "max"       -> word.isInt /\ word.int <= segment.max
    [] segment.kind = "range"     -> word.isInt /\ word.int \in segment.min..segment.max
    [] segment.kind = "minlength" -> word.length >= segment.min
    [] segment.kind = "maxlength" -> word.length <= segment.max
    [] segment.kind = "length"    -> word.length \in segment.min..segment.max
    [] segment.kind = "regex"     -> word.text \in segment.texts
    [] segment.kind = "any"       -> TRUE

(* Mutation: parameters of different names are different segments. *)
SameWithName(segment) == segment

(* What two segments are compared by: a parameter's name does not count.   *)
Same(segment) ==
  [field \in DOMAIN segment \ {"name"} |-> segment[field]]

(* What a segment of each kind has besides its kind and its name. *)
Arguments(kind) ==
  CASE kind = "string"               -> {"text"}
    [] kind \in {"min", "minlength"} -> {"min"}
    [] kind \in {"max", "maxlength"} -> {"max"}
    [] kind \in {"range", "length"}  -> {"min", "max"}
    [] kind = "regex"                -> {"texts"}
    [] OTHER                         -> {}

(* What createConstrain accepts of the arguments; other templates throw.   *)
WellFormed(segment) ==
  /\ DOMAIN segment \ {"name"} = {"kind"} \cup Arguments(segment.kind)
  /\ segment.kind \in Kinds
  /\ segment.kind \in {"minlength", "length"} => segment.min >= 1
  /\ segment.kind = "maxlength" => segment.max >= 1
  /\ segment.kind = "length" => segment.min <= segment.max
=============================================================================

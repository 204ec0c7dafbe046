----------------------------- MODULE MCRoutingTree ----------------------------
(***************************************************************************)
(* Instances of RoutingTree for TLC: templates of two segments, with dead  *)
(* ends and segments of equal precedence, and templates of one segment of  *)
(* every kind.                                                             *)
(***************************************************************************)
EXTENDS RoutingTree

Text(text)  == [kind |-> "string", text |-> text]
Param(kind) == [kind |-> kind, name |-> "id"]
Between(a, b) ==
  [kind |-> "range", min |-> a, max |-> b, name |-> "id"]

NoNumber(text, length) ==
  [text |-> text, length |-> length, bool |-> FALSE, isInt |-> FALSE, int |-> 0,
   float |-> FALSE, double |-> FALSE, alpha |-> TRUE]
Number(text, length, n) ==
  [text |-> text, length |-> length, bool |-> FALSE, isInt |-> TRUE, int |-> n,
   float |-> TRUE, double |-> TRUE, alpha |-> FALSE]

MCEmpty == NoNumber("", 0)

MCWords ==
  {MCEmpty, NoNumber("bob", 3), [NoNumber("true", 4) EXCEPT !.bool = TRUE],
   Number("7", 1, 7), Number("12ab", 4, 12),
   [Number("1e99", 4, 1) EXCEPT !.float = FALSE]}

Narrow == {Text("bob"), Between(1, 9), Between(5, 20), Param("any")}

Route(method, template) == [method |-> method, template |-> template]

Nested ==
  {Route("Get", <<s>>) : s \in {Text("bob"), Param("any")}} \cup
  {Route("Get", <<s, t>>) : s \in Narrow, t \in {Text("7"), Param("any")}} \cup
  {Route("Post", <<Param("any"), Param("any")>>)}

EveryKind ==
  {Route("Get", <<s>>) : s \in
     {Text("7"), Param("bool"), Param("float"), Param("double"), Param("int"),
      Param("required"), Param("alpha"), Param("any"), Between(1, 9),
      [kind |-> "int", name |-> "number"],
      [kind |-> "min", min |-> 10, name |-> "id"], [kind |-> "max", max |-> 10, name |-> "id"],
      [kind |-> "minlength", min |-> 1, name |-> "id"],
      [kind |-> "maxlength", max |-> 1, name |-> "id"],
      [kind |-> "length", min |-> 2, max |-> 3, name |-> "id"],
      [kind |-> "regex", texts |-> {"bob", "7"}, name |-> "id"]}}

MCMenus == {Nested, EveryKind}

Segments == {route.template[1] : route \in UNION MCMenus} \cup {Text("7")}
Parts    == Segments \cup {Same(s) : s \in Segments}
Places   == {<<>>} \cup {<<s>> : s \in Parts} \cup {<<s, t>> : s \in Parts, t \in Parts}

Tie(s) ==
  LET own == CASE s.kind = "string" -> IF s.text = "7" THEN 1 ELSE 2
               [] s.kind = "range"  -> s.min
               [] OTHER             -> 3
  IN  IF "name" \notin DOMAIN s THEN own ELSE IF s.name = "id" THEN 10 + own ELSE 20 + own

TieOf(node) == IF node = <<>> THEN 0 ELSE Tie(Last(node))

MCOrders == {[n \in Places |-> TieOf(n)], [n \in Places |-> 30 - TieOf(n)]}
=============================================================================

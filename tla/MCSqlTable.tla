----------------------------- MODULE MCSqlTable -----------------------------
(***************************************************************************)
(* Instances of SqlTable for TLC: a table t with a signed key, and a table *)
(* tt whose name extends t's and whose key is a string and a float.        *)
(***************************************************************************)
EXTENDS SqlTable, TLC

Int16(n) == [ty |-> "i16", opt |-> {<<n>>}]
Bool(b) == [ty |-> "bool", opt |-> {<<IF b THEN 1 ELSE 0>>}]
Float(bits) == [ty |-> "float", opt |-> {<<bits>>}]
Utf8(bytes) == [ty |-> "utf8", opt |-> {bytes}]
Null(ty) == TypedNull(ty)

Column(ty, nullable) == [ty |-> ty, nullable |-> nullable]
Cmp(col, op, lit) == <<[op |-> op, col |-> col, lit |-> lit]>>

MCTable == {"t", "tt"}
MCNameOf == [t \in MCTable |-> IF t = "t" THEN <<1>> ELSE <<1, 1>>]
MCLayoutOf == [t \in MCTable |->
  IF t = "t" THEN <<Column("i16", TRUE), Column("i16", TRUE), Column("bool", TRUE)>>
  ELSE <<Column("utf8", FALSE), Column("float", FALSE), Column("i16", TRUE)>>]
MCPkOf == [t \in MCTable |-> IF t = "t" THEN <<1>> ELSE <<1, 2>>]

MCInserts == {
  <<"t", <<<<Int16(-1), Int16(1), Bool(TRUE)>>>>>>,
  <<"t", <<<<Int16(0), Int16(2), Bool(FALSE)>>, <<Int16(-1), Null("i16"), Null("bool")>>>>>>,
  <<"t", <<<<Null("i16"), Int16(1), Bool(TRUE)>>>>>>,
  <<"tt", <<<<Utf8(<< >>), Float(130), Int16(1)>>, <<Utf8(<<0>>), Float(1), Int16(1)>>,
            <<Utf8(<< >>), Float(1), Int16(2)>>>>>>}

MCDeletes == {
  <<"t", <<Cmp(1, "eq", Int16(-1))>>>>,
  <<"t", <<Cmp(1, "eq", Int16(-1)), Cmp(2, "eq", Int16(1))>>>>,
  <<"t", <<Cmp(2, "eq", Int16(1)) \o Cmp(2, "eq", Int16(2))>>>>,
  <<"tt", <<Cmp(2, "eq", Float(1)), Cmp(1, "eq", Utf8(<<0>>))>>>>}

MCUpdates == {
  <<"t", 2, Int16(2), <<Cmp(2, "eq", Int16(1))>>>>,
  <<"t", 1, Int16(0), <<Cmp(3, "eq", Bool(TRUE))>>>>}

MCSelects == {
  <<"t", << >>, <<1, 2, 3>>>>,
  <<"t", <<Cmp(2, "eq", Int16(1))>>, <<1, 2>>>>,
  <<"t", <<Cmp(2, "le", Int16(1))>>, <<2>>>>,
  <<"t", <<Cmp(3, "lt", Bool(TRUE)), Cmp(1, "ge", Int16(-1))>>, <<1, 3>>>>,
  <<"t", <<Cmp(2, "gt", Int16(1)) \o Cmp(2, "lt", Int16(1))>>, <<1, 2>>>>,
  <<"tt", << >>, <<1, 2, 3>>>>,
  <<"tt", <<Cmp(1, "eq", Utf8(<< >>)), Cmp(2, "lt", Float(2))>>, <<1, 2>>>>}

Symmetry == Permutations(Client)
=============================================================================

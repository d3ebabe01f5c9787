------------------------------ MODULE Grammar ------------------------------
(***************************************************************************)
(* The rules of parser.py, which pegen writes out of wyrm.gram: a record   *)
(* for each stretch of the class, a field for each method.  A rule is a    *)
(* sequence of alternatives in the order they are tried.  An alternative   *)
(* matches its items one after another and makes a tree of what they       *)
(* leave: a name, a literal or a rule leaves its tree, a plain token       *)
(* nothing.  Positions in the source are left out of the trees.            *)
(***************************************************************************)
EXTENDS Naturals, Sequences, TLC

Item(op, toks, rule, group) ==
    [op |-> op, toks |-> toks, rule |-> rule, group |-> group]

\* A token, a token whose text the tree keeps, a rule, None, and no elements.
T(tok)     == Item("token", {tok}, "", <<>>)
Newline    == Item("token", {"NEWLINE", ";"}, "", <<>>)
Kept(toks) == Item("kept", toks, "", <<>>)
R(rule)    == Item("rule", {}, rule, <<>>)
No         == Item("none", {}, "", <<>>)
Empty      == Item("empty", {}, "", <<>>)

\* Items that may be absent, leaving None or the empty list, and items
\* repeated any number of times, or at least once.  A group of plain tokens
\* leaves nothing.
Opt(group)     == Item("opt", {}, "", group)
OrEmpty(group) == Item("orEmpty", {}, "", group)
Many(group)    == Item("many", {}, "", group)
More(group)    == Item("more", {}, "", group)

\* `make` names the tree, or the helper of actions.py that builds it.
As(make, items) == [make |-> make, items |-> items]
Same(items)     == As("same", items)
OneOf(rules)    == [i \in DOMAIN rules |-> Same(<<R(rules[i])>>)]
Commas(item)    == As("cons", <<item, Many(<<T(","), item>>)>>)
BadChain(op, rule) == As("left", <<R(rule), Many(<<Kept(op), R("postfix_expr")>>)>>)
Chain(op, rule) == As("left", <<R(rule), Many(<<Kept(op), R(rule)>>)>>)

Keywords == {"and", "break", "catch", "class", "co", "continue", "defer",
    "defined", "do", "elif", "else", "emit", "false", "fn", "for", "from",
    "getter", "if", "import", "in", "is", "not", "or", "pass", "return",
    "setter", "signal", "slot", "static", "super", "task", "this", "thread",
    "true", "try", "undefined", "var", "while", "with", "yield"}

\* The words of the instances; `on`, `error`, `as`, `except` are soft.
Names   == {"a", "b", "c", "d", "f", "m", "n", "x", "y",
            "on", "error", "as", "except"}
Numbers == {"0", "1", "2"}
Strings == {"'s", "\\c", "text"}

Name   == Kept(Names \ Keywords)
Number == Kept(Numbers)
Text   == Kept(Strings)
Typed  == Opt(<<T(":"), R("ann_type")>>)
Given  == Opt(<<T("="), R("assign_expr")>>)
Result == Opt(<<T("->"), R("ann_type")>>)
Args   == OrEmpty(<<R("arg_list")>>)
Params == OrEmpty(<<R("param_list")>>)
Path   == As("cons", <<Name, Many(<<T("::"), Name>>)>>)

-----------------------------------------------------------------------------
Blocks == [
  start |-> <<Same(<<R("program"), T("ENDMARKER")>>)>>,
  program |-> <<As("Program", <<Many(<<R("stmt_item")>>), Many(<<Newline>>)>>)>>,
  block |-> <<As("flat", <<T(":"), Newline, T("INDENT"), Many(<<R("stmt_item")>>), T("DEDENT")>>),
              Same(<<T(":"), R("simple_stmt_line")>>),
              As("flat", <<T("{"), Many(<<Newline>>), Many(<<R("brace_stmt_item")>>), T("}")>>)>>,
  stmt_item |-> <<As("single", <<R("compound_stmt"), Opt(<<Newline>>)>>),
                  Same(<<R("simple_stmt_line")>>)>>,
  brace_stmt_item |-> <<As("single", <<R("compound_stmt"), Many(<<Newline>>)>>),
                        As("single", <<R("simple_stmt"), More(<<Newline>>)>>),
                        As("single", <<R("simple_stmt")>>)>>]

Lines == [
  simple_stmt_line |-> <<As("cons", <<R("simple_stmt"), T(";"), R("simple_stmt_line")>>),
                         As("single", <<R("simple_stmt"), T(";"), Newline>>),
                         As("single", <<R("simple_stmt"), T(";")>>),
                         As("single", <<R("simple_stmt"), Newline>>),
                         As("single", <<R("simple_stmt")>>)>>,
  simple_stmt |-> OneOf(<<"with_stmt_simple", "static_stmt", "var_stmt", "assignment_stmt",
                          "from_import_stmt", "import_stmt", "return_stmt", "yield_stmt",
                          "emit_stmt", "signal_def", "pass_stmt", "continue_stmt",
                          "break_stmt", "expr_stmt">>)]

Compounds == [
  compound_stmt |-> <<As("Decorated", <<R("decorator"), R("compound_stmt")>>)>>
                    \o OneOf(<<"if_stmt", "while_stmt", "for_stmt", "fn_def", "co_def",
                               "class_def", "with_block", "defer_stmt">>),
  decorator |-> <<As("Applied", <<T("@"), Name, T("("), Args, T(")"), Opt(<<Newline>>)>>),
                  As("Decorator", <<T("@"), Name, Opt(<<Newline>>)>>)>>,
  pass_stmt |-> <<As("Pass", <<T("pass")>>)>>,
  continue_stmt |-> <<As("Continue", <<T("continue")>>)>>,
  break_stmt |-> <<As("Break", <<T("break")>>)>>]

Returns == [
  expr_stmt |-> <<As("ExprStmt", <<R("expression")>>)>>,
  return_stmt |-> <<As("Return", <<T("return"), R("expression")>>),
                    As("Return", <<T("return"), No>>)>>,
  yield_stmt |-> <<As("YieldFrom", <<T("yield"), T("from"), R("expression")>>),
                   As("Yield", <<T("yield"), R("expression")>>),
                   As("Yield", <<T("yield"), No>>)>>,
  emit_stmt |-> <<As("Emit", <<T("emit"), Name, T("("), Args, T(")")>>)>>,
  if_stmt |-> <<As("If", <<T("if"), R("expression"), R("block"), Many(<<R("elif_clause")>>),
                           Opt(<<R("else_clause")>>)>>)>>,
  elif_clause |-> <<As("ElifClause", <<T("elif"), R("expression"), R("block")>>)>>,
  else_clause |-> <<Same(<<T("else"), R("block")>>)>>]

Loops == [
  while_stmt |-> <<As("While", <<T("while"), R("expression"), R("block")>>)>>,
  for_stmt |-> <<As("For", <<T("for"), Name, T("in"), R("expression"), R("block"),
                             Opt(<<R("else_clause")>>)>>)>>,
  defer_stmt |-> <<As("DeferOnError", <<T("defer"), T("on"), T("error"), R("block")>>),
                   As("Defer", <<T("defer"), R("block")>>)>>,
  var_stmt |-> <<As("VarDecl", <<T("var"), R("var_targets"), Opt(<<T("="), R("expr_list")>>)>>)>>,
  var_targets |-> <<Commas(R("var_target"))>>,
  var_target |-> <<As("VarTarget", <<Name, Typed>>)>>,
  assignment_stmt |-> <<As("make_assignment_stmt", <<R("target_list"), R("assign_op"), R("expr_list")>>)>>,
  target_list |-> <<Commas(R("target"))>>]

Targets == [
  target |-> <<As("fold_index_target", <<R("target_base"), Many(<<R("target_index_suffix")>>)>>)>>,
  target_base |-> <<As("AttrTarget", <<Kept({"this"}), More(<<T("."), Name>>)>>),
                    As("AttrTarget", <<Name, More(<<T("."), Name>>)>>),
                    As("NameTarget", <<Name>>)>>,
  target_index_suffix |-> <<Same(<<T("["), R("expression"), T("]")>>)>>,
  assign_op |-> <<Same(<<Kept({"?=", ":=", "="})>>)>>,
  static_stmt |-> <<As("StaticDecl", <<T("static"), Name, Typed, Given>>)>>,
  type_expr |-> <<As("make_type_expr", <<Name, Many(<<T("::"), Name>>)>>)>>,
  ann_type |-> <<Same(<<R("type_expr"), Many(<<T("|"), R("type_expr")>>)>>)>>]

Withs == [
  with_stmt_simple |-> <<As("WithSimple", <<T("with"), Name, Typed, T("="), R("assign_expr")>>)>>,
  with_block |-> <<As("WithBlock", <<T("with"), T(":"), Newline, T("INDENT"),
                                     R("with_binding_list"), T("DEDENT")>>)>>,
  with_binding_list |-> <<As("cons", <<R("with_binding"), Newline, R("with_binding_list")>>),
                          As("single", <<R("with_binding"), Newline>>),
                          As("single", <<R("with_binding")>>)>>,
  with_binding |-> <<As("WithBinding", <<Name, Typed, T("="), R("assign_expr")>>)>>,
  import_stmt |-> <<As("make_static_import", <<T("import"), T("static"), R("import_body")>>),
                    Same(<<T("import"), R("import_body")>>)>>]

ImportsOf == [
  import_body |-> <<As("ImportExcept", <<R("module_path"), T("::"), T("*"), T("except"), R("except_names")>>),
                    As("ImportAll", <<R("module_path"), T("::"), T("*")>>),
                    As("ImportItems", <<R("module_path"), T("::"), T("("), R("import_item_list"), T(")")>>),
                    As("ImportAs", <<R("module_path"), T("as"), Name>>),
                    As("Import", <<R("module_path")>>)>>,
  module_path |-> <<Path>>,
  except_names |-> <<Same(<<T("("), R("name_list"), T(")")>>),
                     As("single", <<Name>>)>>,
  import_item |-> <<As("ImportItem", <<Name, T("as"), Name>>),
                    As("ImportItem", <<Name, No>>)>>,
  import_item_list |-> <<Commas(R("import_item"))>>]

Functions == [
  from_import_stmt |-> <<As("FromImport", <<T("from"), R("module_path"), T("import"), R("name_list")>>)>>,
  name_list |-> <<Commas(Name)>>,
  fn_def |-> <<As("FnDef", <<T("fn"), R("class_target"), Name, T("("), Params, T(")"), Result, R("block")>>),
               As("FnDef", <<T("fn"), No, Name, T("("), Params, T(")"), Result, R("block")>>)>>,
  class_target |-> <<As("classes", <<T("["), Name, Many(<<T(","), Name>>), T("]")>>),
                     As("classes", <<T("["), T("]")>>)>>,
  param_list |-> <<Commas(R("param"))>>,
  param |-> OneOf(<<"var_positional", "var_keyword", "plain_param">>)]

Coroutines == [
  plain_param |-> <<As("Param", <<Name, Typed, Given>>)>>,
  var_positional |-> <<As("VarPositional", <<T("*"), Name>>)>>,
  var_keyword |-> <<As("VarKeyword", <<T("**"), Name>>)>>,
  co_params |-> <<As("CoParams", <<T("<-"), R("ann_type"), T(","), R("param_list")>>),
                  As("CoParams", <<T("<-"), R("ann_type"), Empty>>),
                  As("CoParams", <<No, R("param_list")>>)>>,
  co_def |-> <<As("CoDef", <<T("co"), R("class_target"), Name, T("("), Opt(<<R("co_params")>>), T(")"), Result, R("block")>>),
               As("CoDef", <<T("co"), No, Name, T("("), Opt(<<R("co_params")>>), T(")"), Result, R("block")>>)>>]

Classes == [
  class_def |-> <<As("ClassDef", <<T("class"), Name, T("("), Args, T(")"), R("class_block")>>),
                  As("ClassDef", <<T("class"), Name, Empty, R("class_block")>>)>>,
  class_block |-> <<As("members", <<T(":"), Newline, T("INDENT"), Many(<<R("class_member_item")>>), T("DEDENT")>>),
                    As("members", <<T("{"), Many(<<Newline>>), Many(<<R("class_member_brace")>>), T("}")>>)>>,
  class_member_brace |-> [i \in 1..5 |-> Same(<<R(<<"fn_def", "co_def", "slot_def", "signal_def", "static_stmt">>[i]),
                                                Many(<<Newline>>)>>)]]

Slots == [
  class_member_item |-> [i \in 1..5 |-> Same(<<R(<<"fn_def", "co_def", "slot_def", "signal_def", "static_stmt">>[i]),
                                               Opt(<<Newline>>)>>)],
  slot_def |-> <<As("SlotDef", <<T("slot"), Name, Typed, Given, Opt(<<T("with"), R("slot_options")>>)>>)>>,
  signal_def |-> <<As("SignalDef", <<T("signal"), Name, T("("), Params, T(")")>>)>>,
  slot_options |-> <<Same(<<T(":"), Newline, T("INDENT"), R("slot_option_list"), T("DEDENT")>>),
                     Same(<<T("{"), Many(<<R("slot_option_brace")>>), T("}")>>)>>,
  slot_option_brace |-> <<Same(<<R("slot_option"), Opt(<<T(";")>>)>>)>>]

Assigned == [
  slot_option_list |-> <<As("cons", <<R("slot_option"), Newline, R("slot_option_list")>>),
                         As("single", <<R("slot_option"), Newline>>),
                         As("single", <<R("slot_option")>>)>>,
  slot_option |-> <<As("SlotOption", <<Kept({"setter", "getter"}), T("="), Kept({"undefined"})>>),
                    As("SlotOption", <<Kept({"setter", "getter"}), T("="), R("assign_expr")>>)>>,
  expression |-> <<As("expression", <<R("expr_list")>>)>>,
  expr_list |-> <<Commas(R("assign_expr"))>>,
  assign_expr |-> <<As("YieldFrom", <<T("yield"), T("from"), R("expression")>>),
                    As("Yield", <<T("yield"), R("expression")>>),
                    As("Yield", <<T("yield"), No>>),
                    As("SetIfUnset", <<R("or_expr"), T("?="), R("or_expr")>>),
                    Same(<<R("catch_expr")>>)>>]

Handlers == [
  catch_expr |-> <<As("Catch", <<R("try_operand"), T("catch"), R("catch_handler")>>),
                   Same(<<R("try_operand")>>)>>,
  try_operand |-> <<As("Try", <<T("try"), R("or_expr")>>),
                    Same(<<R("or_expr")>>)>>,
  catch_handler |-> <<As("Return", <<T("return"), R("expression")>>),
                      As("Return", <<T("return"), No>>),
                      Same(<<R("or_expr")>>)>>,
  or_expr |-> <<Chain({"or"}, "and_expr")>>,
  and_expr |-> <<Chain({"and"}, "not_expr")>>,
  not_expr |-> <<As("not", <<T("not"), R("not_expr")>>),
                 Same(<<R("comparison")>>)>>]

Comparisons == [
  comparison |-> <<As("isNot", <<R("bitwise_or_expr"), T("is"), T("not"), R("type_constraint")>>),
                   As("TypeCheck", <<R("bitwise_or_expr"), T("is"), R("type_constraint")>>),
                   As("compare", <<R("bitwise_or_expr"), R("comp_op"), R("bitwise_or_expr")>>),
                   Same(<<R("bitwise_or_expr")>>)>>,
  comp_op |-> <<As("spaceship", <<T("<="), T(">")>>),
                Same(<<Kept({"<=", ">=", "==", "!=", "<", ">", "in"})>>)>>,
  type_constraint |-> <<As("cons", <<R("type_expr"), Many(<<T("|"), R("type_expr")>>)>>)>>,
  bitwise_or_expr |-> <<Chain({"|"}, "bitwise_xor_expr")>>,
  bitwise_xor_expr |-> <<Chain({"^"}, "bitwise_and_expr")>>,
  bitwise_and_expr |-> <<Chain({"&"}, "shift_expr")>>]

Operators == [
  shift_expr |-> <<Chain({"<<", ">>"}, "additive_expr")>>,
  additive_expr |-> <<Chain({"+", "-"}, "mult_expr")>>,
  mult_expr |-> <<Chain({"*", "/", "%"}, "unary_expr")>>,
  unary_expr |-> <<As("Decorated", <<R("decorator"), R("unary_expr")>>),
                   As("neg", <<T("-"), R("unary_expr")>>),
                   As("pos", <<T("+"), R("unary_expr")>>),
                   As("inv", <<T("~"), R("unary_expr")>>),
                   As("not", <<T("not"), R("unary_expr")>>),
                   As("TaskSpawn", <<T("task"), R("unary_expr")>>),
                   Same(<<R("power_expr")>>)>>,
  power_expr |-> <<As("power", <<R("postfix_expr"), Kept({"**"}), R("unary_expr")>>),
                   Same(<<R("postfix_expr")>>)>>,
  postfix_expr |-> <<As("fold_postfix", <<R("primary"), Many(<<R("postfix_op")>>)>>)>>]

Postfixes == [
  postfix_op |-> OneOf(<<"call_op", "index_op", "attr_op", "message_op", "scope_op">>),
  call_op |-> <<As("Call", <<T("("), Args, T(")")>>)>>,
  index_op |-> <<As("Index", <<T("["), R("expression"), T("]")>>)>>,
  attr_op |-> <<As("Attr", <<T("."), Name>>)>>,
  message_op |-> <<As("Message", <<T("!"), Name, T("::"), Name, T("("), Args, T(")")>>),
                   As("Message", <<T("!"), Name, T("::"), Name, No>>),
                   As("Message", <<T("!"), No, Name, T("("), Args, T(")")>>),
                   As("Message", <<T("!"), No, Name, No>>)>>]

BadArguments == [
  scope_op |-> <<As("AstRef", <<T("::"), T("$ast")>>), As("Scope", <<T("::"), Name>>)>>,
  arg_list |-> <<Commas(R("argument"))>>,
  argument |-> <<Same(<<R("assign_expr")>>), As("Kwarg", <<Name, T("="), R("assign_expr")>>),
                 As("SpreadKw", <<T("**"), R("assign_expr")>>), As("SpreadPos", <<T("*"), R("assign_expr")>>)>>]
Arguments == [
  scope_op |-> <<As("AstRef", <<T("::"), T("$ast")>>),
                 As("Scope", <<T("::"), Name>>)>>,
  arg_list |-> <<Commas(R("argument"))>>,
  argument |-> <<As("Kwarg", <<Name, T("="), R("assign_expr")>>),
                 As("SpreadKw", <<T("**"), R("assign_expr")>>),
                 As("SpreadPos", <<T("*"), R("assign_expr")>>),
                 Same(<<R("assign_expr")>>)>>]

Primaries == [
  primary |-> OneOf(<<"literal", "ellipsis_literal", "message_tuple_expr", "paren_or_tuple",
                      "array_literal", "pair_literal", "dict_literal">>)
              \o <<As("ThisRef", <<T("this")>>),
                   As("SuperCall", <<T("super"), T("("), Args, T(")")>>),
                   As("Defined", <<T("defined"), T("("), R("literal"), T(")")>>),
                   As("ThreadSpawn", <<T("thread"), R("module_path")>>)>>
              \o OneOf(<<"lambda_expr", "do_expr", "if_expr">>)
              \o <<As("Name", <<Name>>)>>,
  literal |-> <<As("Num", <<Number>>),
                As("make_string_literal", <<Text>>),
                As("true", <<T("true")>>),
                As("false", <<T("false")>>)>>]

Literals == [
  ellipsis_literal |-> <<As("EllipsisExpr", <<T("...")>>)>>,
  array_literal |-> <<As("Array", <<T("["), OrEmpty(<<R("expr_list")>>), T("]")>>)>>,
  pair_literal |-> <<As("Pair", <<T("$"), T("["), OrEmpty(<<R("pair_body")>>), T("]")>>)>>,
  pair_body |-> <<Commas(R("assign_expr"))>>,
  paren_or_tuple |-> <<As("Tuple", <<T("("), T(")")>>),
                       As("Tuple", <<T("("), R("assign_expr"), T(","), T(")")>>),
                       As("make_tuple", <<T("("), R("assign_expr"), More(<<T(","), R("assign_expr")>>),
                                     Opt(<<T(",")>>), T(")")>>),
                       Same(<<T("("), R("assign_expr"), T(")")>>)>>,
  dict_literal |-> <<As("Dict", <<T("{"), OrEmpty(<<R("dict_body")>>), T("}")>>)>>]

Bodies == [
  dict_body |-> <<Commas(R("dict_pair"))>>,
  dict_pair |-> <<As("DictEntry", <<R("assign_expr"), T(":"), R("assign_expr")>>)>>,
  message_tuple_expr |-> <<As("MessageTupleExpr", <<T("("), R("expr_list"), T(")"), T("!"), Name, T("("), Args, T(")")>>),
                           As("MessageTupleExpr", <<T("("), R("expr_list"), T(")"), T("!"), Name, No>>)>>,
  lambda_expr |-> <<As("Lambda", <<T("fn"), T("("), Params, T(")"), R("block")>>)>>,
  do_expr |-> <<As("Do", <<T("do"), R("block")>>)>>,
  if_expr |-> <<As("If", <<T("if"), R("expression"), R("block"), Many(<<R("elif_clause")>>),
                           Opt(<<R("else_clause")>>)>>)>>]

Rules == Blocks @@ Lines @@ Compounds @@ Returns @@ Loops @@ Targets @@ Withs
         @@ ImportsOf @@ Functions @@ Coroutines @@ Classes @@ Slots @@ Assigned
         @@ Handlers @@ Comparisons @@ Operators @@ Postfixes @@ Arguments
         @@ Primaries @@ Literals @@ Bodies
============================================================================

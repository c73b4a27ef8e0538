------------------------------- MODULE Parser -------------------------------
(***************************************************************************)
(* The functions of the Draton parser, crates/draton-parser/src, as code   *)
(* of the machine of RecursiveDescent, in the order of the source: every   *)
(* call on the cursor, every early return, every recovery.                 *)
(*                                                                         *)
(* Tokens that the parser treats alike are one kind: "@block" is @unsafe   *)
(* and @comptime, "@handler" the two handler items, "lit" every literal    *)
(* that parses and "badlit" and "badfstr" those that do not, "op" the      *)
(* binary operators that are no prefix and "-" those that are, "=" the     *)
(* assignments with a value and "++" those without, "junk" every token     *)
(* that begins and continues nothing.  The levels of precedence, which all *)
(* accept the same operands, are one loop.                                 *)
(***************************************************************************)
EXTENDS RecursiveDescent, TLC

\* What several functions do at their ends.
Shared == [nothing |-> <<>>, take |-> <<Take>>, skip |-> <<Skip>>, fail |-> <<Fail>>]

-----------------------------------------------------------------------------
(* parser.rs *)

ItemStarts == {"fn", "class", "interface", "enum", "error", "const", "import", "pub", "@type",
               "@acyclic", "@extern", "@handler"}
StmtStops == {"}", "let", "return", "if", "elif", "for", "while", "spawn", "@block", "@pointer",
              "@asm", "@if", "@gc_config"}

ParseCode == [
  parse |-> <<Each({}, "parse_round")>>,
  parse_round |-> <<Docs, StopAt({"eof"}), IfStuck("item"), Sub("synchronize_top_level")>> ]

\* Mutant of SynchronizeCode: the semicolon is not taken.
KeepSemicolonCode == [
  synchronize_top_level |-> <<Each(ItemStarts, "skip")>>,
  synchronize_stmt |-> <<Each(StmtStops \cup {";"}, "skip")>> ]

SynchronizeCode == [
  synchronize_top_level |-> <<Each(ItemStarts, "skip")>>,
  synchronize_stmt |-> <<Each(StmtStops \cup {";"}, "skip"), IfAt({";"}), Skip>> ]

-----------------------------------------------------------------------------
(* item.rs *)

ItemCode == [
  item |-> <<Docs, IfAt({"pub"}), Goto("pub_item"), Goto("item_kind")>>,
  pub_item |-> <<Take, IfFails("item_kind"), Surrender("synchronize_top_level")>>,
  item_kind |-> <<Pick("fn" :> "fn_def" @@ "class" :> "class_def" @@ "@acyclic" :> "acyclic_class_def"
                       @@ "layer" :> "layer_outside" @@ "interface" :> "interface_def"
                       @@ "enum" :> "enum_def" @@ "error" :> "error_def" @@ "const" :> "const_def"
                       @@ "import" :> "import_def" @@ "@type" :> "type_block"
                       @@ "@extern" :> "extern_block" @@ "@handler" :> "handler_item", "fail")>>,
  layer_outside |-> <<Note, Surrender("skip_layer_block")>>,
  handler_item |-> <<Take, Goto("fn_def")>> ]

FnCode == [
  fn_def |-> <<Sub("fn_signature"), IfAt({"{"}), Try("block")>>,
  fn_signature |-> <<Need("fn"), Need("ident"), Sub("type_param_list"), Sub("param_list"),
                     When("->"), Try("type_expr")>>,
  param_list |-> <<Need("("), Each({")"}, "param"), Want(")")>>,
  param |-> <<Need("ident"), When(":"), Try("type_expr"), StopUnless(",")>> ]

ClassCode == [
  class_def |-> <<Need("class"), Need("ident"), Sub("type_param_list"), When("extends"), Want("ident"),
                  When("implements"), Each({}, "name_listed"),
                  Need("{"), Each({"}"}, "class_member"), Want("}")>>,
  name_listed |-> <<Want("ident"), StopUnless(",")>>,
  class_member |-> <<Docs, IfFails("class_member_kind"), Sub("synchronize_stmt")>>,
  class_member_kind |-> <<Pick("let" :> "class_field" @@ "fn" :> "fn_def" @@ "pub" :> "pub_member"
                               @@ "layer" :> "layer" @@ "@type" :> "type_block", "fail")>>,
  pub_member |-> <<Take, Pick("fn" :> "fn_def" @@ "let" :> "class_field", "fail")>>,
  acyclic_class_def |-> <<Need("@acyclic"), Goto("class_def")>>,
  class_field |-> <<Want("let"), May("mut"), Need("ident"), When(":"), Try("type_expr"), May(";")>> ]

LayerCode == [
  type_param_list |-> <<IfAt({"["}), Goto("type_params")>>,
  type_params |-> <<Want("["), Each({"]"}, "type_param"), Want("]")>>,
  type_param |-> <<Need("ident"), StopUnless(",")>>,
  layer |-> <<Need("layer"), Need("ident"), Need("{"), Each({"}"}, "layer_member"), Want("}")>>,
  layer_member |-> <<Docs, IfFails("layer_member_kind"), Sub("synchronize_stmt")>>,
  layer_member_kind |-> <<Pick("fn" :> "fn_def" @@ "pub" :> "pub_method" @@ "layer" :> "nested_layer"
                               @@ "@type" :> "type_block", "fail")>>,
  pub_method |-> <<Take, Goto("fn_def")>>,
  nested_layer |-> <<Note, Goto("skip_layer_block")>>,
  skip_layer_block |-> <<May("layer"), IfAt({"ident"}), Skip, When("{"), Goto("skip_to_close")>>,
  skip_to_close |-> <<Each({"}"}, "skip_nested"), Skip>>,
  skip_nested |-> <<IfAt({"{"}), Goto("skip_braces"), Skip>>,
  skip_braces |-> <<Skip, Goto("skip_to_close")>> ]

InterfaceCode == [
  interface_def |-> <<Need("interface"), Need("ident"), Need("{"), Each({"}"}, "interface_member"), Want("}")>>,
  interface_member |-> <<Docs, IfFails("interface_member_kind"), Sub("synchronize_stmt")>>,
  interface_member_kind |-> <<Pick("fn" :> "method_signature" @@ "@type" :> "type_block", "fail")>>,
  method_signature |-> <<Sub("fn_signature"), May(";")>> ]

DefCode == [
  enum_def |-> <<Need("enum"), Need("ident"), Need("{"), Each({"}"}, "name_listed"), Want("}")>>,
  error_def |-> <<Need("error"), Need("ident"), Sub("param_list")>>,
  const_def |-> <<Need("const"), Need("ident"), Want("="), Sub("expression"), May(";")>>,
  import_def |-> <<Need("import"), Need("{"), Each({"}"}, "import_item"), Want("}"),
                   When("from"), Sub("module_path")>>,
  import_item |-> <<Need("ident"), When("as"), Want("ident"), May(",")>> ]

ExternCode == [
  extern_block |-> <<Need("@extern"), Sub("expression"), Doubt, Need("{"),
                     Each({"}"}, "extern_function"), Want("}")>>,
  extern_function |-> <<IfFails("method_signature"), Sub("synchronize_stmt")>>,
  type_block |-> <<Need("@type"), Need("{"), Each({"}"}, "type_member"), Want("}")>>,
  type_member |-> <<IfFails("type_member_kind"), Sub("synchronize_stmt"), May(",")>>,
  type_member_kind |-> <<Pick("fn" :> "fn_signature" @@ "ident" :> "type_binding", "fail")>>,
  type_binding |-> <<Need("ident"), Want(":"), Try("type_expr")>>,
  module_path |-> <<Need("ident"), While({"."}, "field")>> ]

TypeCode == [
  type_expr |-> <<Docs, Sub("type_atom"), While({"??"}, "take")>>,
  type_atom |-> <<Pick("fn" :> "fn_type" @@ "(" :> "paren_type" @@ "@pointer" :> "take"
                       @@ "ident" :> "named_type", "fail")>>,
  named_type |-> <<Take, When("["), Goto("type_args")>>,
  type_args |-> <<Each({"]"}, "type_arg"), Want("]")>>,
  type_arg |-> <<Try("type_expr"), StopUnless(",")>>,
  fn_type |-> <<Take, Want("("), Each({")"}, "type_arg"), Want(")"), Want("->"), Sub("type_expr")>>,
  paren_type |-> <<Want("("), Each({")"}, "type_arg"), Want(")"), When("->"), Goto("type_expr"), Doubt>> ]

-----------------------------------------------------------------------------
(* stmt.rs *)

BlockCode == [
  block |-> <<Need("{"), Each({"}"}, "block_round"), Want("}")>>,
  block_round |-> <<Docs, StopAt({"eof", "}"}), IfStuck("stmt"), Sub("synchronize_stmt")>>,
  stmt |-> <<Docs, Pick("let" :> "let_stmt" @@ "return" :> "return_stmt" @@ "if" :> "if_stmt"
                        @@ "for" :> "for_stmt" @@ "while" :> "while_stmt" @@ "spawn" :> "spawn_stmt"
                        @@ "@block" :> "special_block" @@ "@pointer" :> "special_block"
                        @@ "@asm" :> "asm_block" @@ "@if" :> "if_compile_stmt"
                        @@ "@gc_config" :> "gc_config_stmt" @@ "@type" :> "type_block"
                        @@ "{" :> "block", "expr_stmt")>>,
  special_block |-> <<Take, Goto("block")>>,
  asm_block |-> <<Need("@asm"), Need("{"), Each({"}"}, "skip"), Want("}")>>,
  if_compile_stmt |-> <<Take, Sub("expression"), Sub("block")>>,
  gc_config_stmt |-> <<Take, Need("{"), Each({"}"}, "gc_entry"), Want("}")>>,
  gc_entry |-> <<Need("ident"), Want("="), Sub("expression"), May(",")>> ]

LetCode == [
  let_stmt |-> <<Take, May("mut"), IfAt({"("}), Goto("let_destructure"), Need("ident"),
                 When(":"), Try("type_expr"), When("="), Try("expression"), May(";")>>,
  let_destructure |-> <<Need("("), Each({")"}, "destructured"), Want(")"), Want("="),
                        Sub("expression"), May(";")>>,
  destructured |-> <<Need("ident"), IfNot({")"}), Want(",")>>,
  return_stmt |-> <<Take, IfNot({";", "}", "eof"}), Try("expression"), May(";")>> ]

ControlCode == [
  if_stmt |-> <<Take, Sub("condition"), Sub("block"), When("else"), Goto("else_branch"),
                IfAt({"elif"}), Try("if_stmt")>>,
  else_branch |-> <<Try("else_kind")>>,
  else_kind |-> <<Pick("if" :> "if_stmt" @@ "elif" :> "if_stmt", "block")>>,
  condition |-> <<When("("), Goto("paren_condition"), Goto("expression")>>,
  paren_condition |-> <<Sub("expression"), Want(")")>>,
  for_stmt |-> <<Take, Need("ident"), Want("in"), Sub("expression"), Sub("block")>>,
  while_stmt |-> <<Take, Sub("condition"), Sub("block")>>,
  spawn_stmt |-> <<Take, Goto("block_or_expression")>>,
  block_or_expression |-> <<IfAt({"{"}), Goto("block"), Goto("expression")>> ]

ExprStmtCode == [
  expr_stmt |-> <<Sub("expression"), Sub("assigned"), May(";")>>,
  assigned |-> <<Pick("=" :> "value" @@ "++" :> "take", "nothing")>>,
  value |-> <<Take, Goto("expression")>> ]

-----------------------------------------------------------------------------
(* expr.rs *)

OperatorCode == [
  expression |-> <<Sub("unary"), While({"op", "-", "??", "as"}, "operand")>>,
  operand |-> <<Pick("as" :> "cast", "prefixed")>>,
  cast |-> <<Take, Goto("type_expr")>>,
  unary |-> <<Pick("-" :> "prefixed" @@ "!" :> "prefixed", "postfix")>>,
  prefixed |-> <<Take, Goto("unary")>> ]

PostfixCode == [
  postfix |-> <<Sub("primary"), While({"(", ".", "["}, "suffix")>>,
  suffix |-> <<Pick("(" :> "call" @@ "." :> "field", "index")>>,
  call |-> <<Take, Each({")"}, "argument"), Want(")")>>,
  field |-> <<Take, Need("ident")>>,
  index |-> <<Take, Sub("expression"), Want("]")>> ]

\* Only the name of a class takes type arguments, tokens of any kind.
TypeArgCode == [
  type_arg_suffix |-> <<IfAt({"["}), Goto("type_arg_list")>>,
  type_arg_list |-> <<IfTypeArgs, Goto("skip_type_args")>>,
  skip_type_args |-> <<Skip, Goto("skip_to_bracket")>>,
  skip_to_bracket |-> <<Each({"]"}, "skip_in_brackets"), Skip>>,
  skip_in_brackets |-> <<IfAt({"["}), Goto("skip_type_args"), Skip>> ]

ClassLiteralCode == [
  name |-> <<Take, Goto("class_literal_suffix")>>,
  class_literal_suffix |-> <<Maybe, Sub("type_arg_suffix"), IfClassLiteral, Goto("class_literal")>>,
  class_literal |-> <<Want("{"), Each({"}"}, "field_value"), Want("}")>>,
  field_value |-> <<Need("ident"), Want(":"), Sub("expression"), StopUnless(",")>>,
  argument |-> <<Sub("expression"), StopUnless(",")>> ]

PrimaryCode == [
  primary |-> <<Docs, Pick("lit" :> "take" @@ "badlit" :> "bad_literal" @@ "badfstr" :> "bad_fstring"
                           @@ "ident" :> "name" @@ "[" :> "array" @@ "{" :> "brace" @@ "(" :> "paren"
                           @@ "lambda" :> "lambda" @@ "match" :> "match" @@ "chan" :> "chan", "fail")>> ]

LiteralTokenCode == [
  bad_literal |-> <<Take, Fail>>,
  bad_fstring |-> <<Take, Note>> ]

LiteralCode == [
  array |-> <<Take, Each({"]"}, "argument"), Want("]")>>,
  brace |-> <<Take, When("}"), Goto("nothing"), Sub("expression"), When(":"), Goto("map_rest"),
              While({","}, "set_item"), Want("}")>>,
  set_item |-> <<Take, StopAt({"}"}), Sub("expression")>>,
  map_rest |-> <<Sub("expression"), While({","}, "map_entry"), Want("}")>>,
  map_entry |-> <<Take, StopAt({"}"}), Sub("expression"), Want(":"), Sub("expression")>>,
  paren |-> <<Take, When(")"), Goto("nothing"), Sub("expression"), When(","), Goto("tuple_rest"),
              Want(")"), Maybe, Goto("class_literal_suffix")>>,
  tuple_rest |-> <<Each({")"}, "argument"), Want(")")>> ]

ArrowCode == [
  lambda |-> <<Take, Each({"=>"}, "lambda_param"), Want("=>"), Sub("expression")>>,
  lambda_param |-> <<Need("ident"), StopUnless(",")>>,
  match |-> <<Take, Sub("expression"), Need("{"), Each({"}"}, "arm"), Want("}")>>,
  arm |-> <<Sub("expression"), Want("=>"), Sub("block_or_expression"), May(",")>>,
  chan |-> <<Take, Want("["), Sub("type_expr"), Want("]")>> ]

-----------------------------------------------------------------------------

ParserCode ==
  Shared @@ ParseCode @@ SynchronizeCode @@ ItemCode @@ FnCode @@ ClassCode @@ LayerCode
    @@ InterfaceCode @@ DefCode @@ ExternCode @@ TypeCode @@ BlockCode @@ LetCode @@ ControlCode
    @@ ExprStmtCode @@ OperatorCode @@ PostfixCode @@ TypeArgCode @@ ClassLiteralCode
    @@ PrimaryCode @@ LiteralTokenCode @@ LiteralCode @@ ArrowCode

-----------------------------------------------------------------------------
(* Properties *)

\* The functions with a loop that recovers with synchronize_stmt, and the tokens at
\* which that stops and which the loop does not take.
Refused == [
  block |-> {"elif"},
  class_def |-> StmtStops \ {"}", "let"},
  layer |-> StmtStops \ {"}"},
  interface_def |-> StmtStops \ {"}"},
  extern_block |-> StmtStops \ {"}"},
  type_block |-> StmtStops \ {"}"} ]

AtRefused == \E i \in DOMAIN stack : stack[i].f \in DOMAIN Refused /\ look \in Refused[stack[i].f]

\* A text of any tokens is parsed to its end, but for one case: a loop that recovers
\* with synchronize_stmt comes to a token at which that stops and that it does not
\* take itself.
EndsUnlessRefused == <>Parsed \/ <>[]AtRefused

\* "Parses a full program and returns both the AST and collected errors" (Parser::parse).
ParseEnds == <>Parsed
=============================================================================

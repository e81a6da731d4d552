---------------------------- MODULE NameSpellings ----------------------------
(***************************************************************************)
(* How compilers and demanglers spell types and functions, and what is to  *)
(* be printed of them.  The grammar of C++ declarators is stated here on   *)
(* its own; types and functions are the parser's own tokens.               *)
(*                                                                         *)
(* A style is a record of Booleans: west puts const in front of the type,  *)
(* gap puts a space before * and &, contexts adds `class`, conventions     *)
(* adds __cdecl and __ptr64, apart separates two closing brackets, quoted  *)
(* puts functions that are scopes in quotes and adds their return types,   *)
(* deduced appends the template arguments of a function.                   *)
(***************************************************************************)
EXTENDS NamePrinter

LOCAL When(condition, words) == IF condition THEN words ELSE <<>>

Cdecl == <<"__", "cdecl">>

Ptr64 == <<Space, "__", "ptr64">>

SpellCv(layer) ==
    When(layer.isConst, <<Space, "const">>) \o
    When(layer.isVolatile, <<Space, "volatile">>)

WestCv(layer) ==
    When(layer.isConst, <<"const", Space>>) \o
    When(layer.isVolatile, <<"volatile", Space>>)

SpellSymbol(symbol, style) ==
    When(style.gap, <<Space>>) \o symbol \o When(style.conventions, Ptr64)

SpellPtrs(specs, style) ==
    FoldLeft(LAMBDA words, layer :
                 words \o SpellSymbol(<<"*">>, style) \o SpellCv(layer),
             <<>>, Tail(specs.layers))

SpellRef(specs, style) ==
    When(specs.refness = "lvalue", SpellSymbol(<<"&">>, style)) \o
    When(specs.refness = "rvalue", SpellSymbol(<<"&", "&">>, style))

\* Only pointers of objects come with a __ptr64 here.
Near(style) == [style EXCEPT !.conventions = FALSE]

SpellFunctionSpecs(specs, style) ==
    SpellCv(Head(specs.layers)) \o SpellRef(specs, Near(style)) \o
    When(specs.isNoexcept, <<Space, "noexcept">>)

RECURSIVE SpellType(_, _), SpellDeclarator(_, _, _), SpellRegular(_, _),
          SpellIdentifier(_, _), SpellScopes(_, _), SpellArgs(_, _)

SpellList(types, style) ==
    FoldLeft(LAMBDA words, type :
                 words \o When(words # <<>>, <<",">> \o When(~style.contexts, <<Space>>))
                       \o SpellType(type, style),
             <<>>, types)

SpellTemplateArgs(types, style) ==
    LET list == SpellList(types, style)
    IN  <<"<">> \o list \o
        When(style.apart /\ list # <<>> /\ Last(list) = ">", <<Space>>) \o <<">">>

SpellArgs(types, style) ==
    <<"(">> \o (IF types = <<>> /\ style.contexts THEN <<"void">>
                ELSE SpellList(types, style)) \o <<")">>

SpellIdentifier(id, style) ==
    LET base == CASE id.form = "text" -> id.text
                  [] id.form = "operator" ->
                         <<"operator">> \o
                         When(InIdentifier(Head(id.text)), <<Space>>) \o id.text
                  [] id.form = "conversion" ->
                         <<"operator", Space>> \o SpellType(id.type, style)
    IN  base \o When(id.templateArgs # <<>>,
                     \* operator< and operator<< keep off their arguments
                     When(Last(base) = "<" /\ style.apart, <<Space>>) \o
                     SpellTemplateArgs(Head(id.templateArgs), style))

SpellCall(function, style) ==
    SpellIdentifier(function.identifier, style) \o
    SpellArgs(function.context.args, style) \o
    SpellFunctionSpecs(function.context.specs, style)

\* msvc: `public: void __cdecl ns::fun(int)'::
SpellScopes(scopes, style) ==
    LET Quoted(words, call) ==
            <<Backtick>> \o When(words # <<>>, <<"public", ":", Space>>) \o
            <<"void", Space>> \o Cdecl \o <<Space>> \o words \o call \o <<"'">>
        Spelled(words, scope) ==
            IF scope.is = "Identifier" THEN words \o SpellIdentifier(scope, style)
            ELSE IF style.quoted THEN Quoted(words, SpellCall(scope, style))
            ELSE words \o SpellCall(scope, style)
    IN  FoldLeft(LAMBDA words, scope : Spelled(words, scope) \o <<":", ":">>,
                 <<>>, scopes)

SpellRegular(type, style) ==
    LET cv == Head(type.specs.layers)
    IN  When(style.west, WestCv(cv)) \o
        When(style.contexts /\ ~type.identifier.isBuiltinType, <<"class", Space>>) \o
        SpellScopes(type.scopes, style) \o
        SpellIdentifier(type.identifier, style) \o
        When(~style.west, SpellCv(cv)) \o
        SpellPtrs(type.specs, style) \o SpellRef(type.specs, style)

\* What a function (pointer) returns is spelled around it.
SpellDeclarator(type, declarator, style) ==
    CASE type.state = "regular" ->
             SpellRegular(type, style) \o
             When(declarator # <<>>, <<Space>> \o declarator)
      [] type.state = "function" ->
             SpellDeclarator(type.returnType,
                 declarator \o When(style.conventions, Cdecl) \o
                 SpellArgs(type.context.args, style) \o
                 SpellFunctionSpecs(type.context.specs, style), style)
      [] type.state = "function_ptr" ->
             SpellDeclarator(type.returnType,
                 <<"(">> \o When(style.conventions, Cdecl) \o
                 When(style.conventions /\ type.scopes # <<>>, <<Space>>) \o
                 SpellScopes(type.scopes, style) \o
                 SpellPtrs(type.specs, [Near(style) EXCEPT !.gap = FALSE]) \o
                 SpellRef(type.specs, [Near(style) EXCEPT !.gap = FALSE]) \o
                 When(IsPrefix(Cdecl, declarator), <<Space>>) \o
                 declarator \o <<")">> \o
                 SpellArgs(type.context.args, style) \o
                 SpellFunctionSpecs(type.context.specs, style), style)

SpellType(type, style) == SpellDeclarator(type, <<>>, style)

\* gcc appends " [with T = int]"; a call convention stands behind a return
\* type only.
SpellFunction(function, style) ==
    When(function.returnType # <<>>,
         SpellType(Head(function.returnType), style) \o <<Space>> \o
         When(style.conventions, Cdecl \o <<Space>>)) \o
    SpellScopes(function.scopes, style) \o
    SpellCall(function.identifier, style) \o
    When(style.deduced, <<Space, "[", "with", Space, "T", Space, "=", Space,
                          "int", "]">>)

\* A frame of a stacktrace on windows: module!ns::fun+0x12
SpellFrame(function, style) ==
    <<"module", "!">> \o SpellScopes(function.scopes, style) \o
    SpellIdentifier(function.identifier.identifier, style) \o
    <<"+", "0x", "12">>

-----------------------------------------------------------------------------
\* What is to be printed: everything but the arguments of arguments, and of
\* scopes only the names.

OutlineCv(layer) ==
    When(layer.isConst, <<" const">>) \o When(layer.isVolatile, <<" volatile">>)

OutlineSpecs(specs) ==
    FoldLeft(LAMBDA words, layer : words \o <<"*">> \o OutlineCv(layer),
             OutlineCv(Head(specs.layers)), Tail(specs.layers)) \o
    (CASE specs.refness = "none" -> <<>>
       [] specs.refness = "lvalue" -> <<"&">>
       [] specs.refness = "rvalue" -> <<"&", "&">>) \o
    When(specs.isNoexcept, <<" noexcept">>)

\* Names that stand for something unnamed have a text of their own, the
\* inline namespaces of standard libraries and msvc's numbers have none.
PrintedName(name) == AddIdentifier(Visitor, name).out

RECURSIVE Outline(_, _), OutlineIdentifier(_, _)

\* A bracketed list of arguments; inner lists are left out altogether.
OutlineList(types, isInner, opening, closing) ==
    When(~isInner,
         FoldLeft(LAMBDA words, type :
                      words \o When(Len(words) > 1, <<", ">>) \o Outline(type, TRUE),
                  <<opening>>, types) \o <<closing>>)

OutlineIdentifier(id, isInner) ==
    (CASE id.form = "text" -> PrintedName(id.text)
       [] id.form = "operator" -> <<"operator ">> \o id.text
       [] id.form = "conversion" -> <<"operator ">> \o Outline(id.type, isInner)) \o
    When(id.templateArgs # <<>>,
         OutlineList(Head(id.templateArgs), isInner, "<", ">"))

OutlineScopes(scopes) ==
    FoldLeft(LAMBDA words, scope :
                 LET id == IF scope.is = "Identifier" THEN scope
                           ELSE scope.identifier
                     shown == OutlineIdentifier(id, TRUE)
                 IN  words \o When(shown # <<>>, shown \o <<"::">>),
             <<>>, scopes)

OutlineContext(context, isInner) ==
    OutlineList(context.args, isInner, "(", ")") \o OutlineSpecs(context.specs)

Outline(type, isInner) ==
    CASE type.state = "regular" ->
             OutlineScopes(type.scopes) \o
             OutlineIdentifier(type.identifier, isInner) \o
             OutlineSpecs(type.specs)
      [] type.state = "function" ->
             Outline(type.returnType, isInner) \o <<Space>> \o
             OutlineContext(type.context, isInner)
      [] type.state = "function_ptr" ->
             Outline(type.returnType, isInner) \o <<Space, "(">> \o
             OutlineScopes(type.scopes) \o OutlineSpecs(type.specs) \o <<")">> \o
             OutlineContext(type.context, isInner)

OutlineFunction(function) ==
    (IF function.returnType = <<>> THEN <<>>
     ELSE Outline(Head(function.returnType), FALSE) \o <<Space>>) \o
    OutlineScopes(function.scopes) \o
    OutlineIdentifier(function.identifier.identifier, FALSE) \o
    OutlineContext(function.identifier.context, FALSE)

=============================================================================

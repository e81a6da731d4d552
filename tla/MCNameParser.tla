---------------------------- MODULE MCNameParser ----------------------------
(***************************************************************************)
(* Types, functions and styles for the run of NameParser.                  *)
(***************************************************************************)
EXTENDS NameParser

Style(flags) ==
    [west |-> "west" \in flags, gap |-> "gap" \in flags,
     contexts |-> "contexts" \in flags, conventions |-> "conventions" \in flags,
     apart |-> "apart" \in flags, quoted |-> "quoted" \in flags,
     deduced |-> "deduced" \in flags]

\* gcc's demangler, llvm's, clang's source locations, msvc
AllStyles ==
    {Style({"apart"}), Style({}), Style({"west", "gap", "deduced"}),
     Style({"gap", "contexts", "conventions", "apart", "quoted"})}

Const == [Layer EXCEPT !.isConst = TRUE]

Volatile == [Layer EXCEPT !.isVolatile = TRUE]

Spec_(layers, refness) ==
    [NoSpecs EXCEPT !.layers = layers, !.refness = refness]

Pointer == Spec_(<<Layer, Layer>>, "none")

ManySpecs ==
    {NoSpecs, Pointer, Spec_(<<Const>>, "none"), Spec_(<<Const>>, "lvalue"),
     Spec_(<<Volatile>>, "rvalue"), Spec_(<<Const, Layer>>, "none"),
     Spec_(<<Layer, Const>>, "lvalue"),
     Spec_(<<Const, Layer, [Const EXCEPT !.isVolatile = TRUE]>>, "none")}

PtrSpecs ==
    {Pointer, Spec_(<<Layer, Const>>, "none"), Spec_(<<Layer, Layer>>, "lvalue"),
     Spec_(<<Layer, Layer, Layer>>, "none")}

FunctionSpecs ==
    {NoSpecs, Spec_(<<Const>>, "lvalue"),
     [Spec_(<<Layer>>, "rvalue") EXCEPT !.isNoexcept = TRUE]}

Foo == Identifier(<<"foo">>)

WithArgs(id, args) == [id EXCEPT !.templateArgs = <<args>>]

IntType == RegularType(<<>>, Builtin(<<"int">>), NoSpecs)

UnsignedLongLong ==
    RegularType(<<>>, Builtin(<<"unsigned", Space, "long", Space, "long">>), NoSpecs)

Void == RegularType(<<>>, Builtin(<<"void">>), NoSpecs)

Plain_(id) == RegularType(<<>>, id, NoSpecs)

FooPtr == RegularType(<<Identifier(<<"ns">>)>>, Foo, Spec_(<<Const, Layer>>, "none"))

FooOfInt == Plain_(WithArgs(Foo, <<IntType>>))

Fun(args, specs) == FunctionIdentifier(Identifier(<<"fun">>), FunctionContext(args, specs))

Anonymous == Identifier(<<"(", "anonymous", Space, "namespace", ")">>)

MsvcAnonymous == Identifier(<<Backtick, "anonymous", Space, "namespace", "'">>)

Lambda == Identifier(<<"{", "lambda", "(", "int", ")", "#", "1", "}">>)

LlvmLambda == Identifier(<<"'", "lambda", "1", "'">>)

GccLambda == Identifier(<<"<", "lambda", "(", ")", ">">>)

MsvcLambda == Identifier(<<"<", "lambda_", "1", ">">>)

ScopeChoices ==
    {<<>>, <<Identifier(<<"ns">>)>>, <<Anonymous, WithArgs(Foo, <<FooPtr>>)>>,
     <<MsvcAnonymous>>,
     <<Identifier(<<"std">>), Identifier(<<"__", "cxx11">>)>>,
     <<Fun(<<>>, NoSpecs)>>,
     <<Identifier(<<"ns">>), Fun(<<FooOfInt, IntType>>, Spec_(<<Const>>, "none")), Lambda>>,
     <<Fun(<<>>, NoSpecs), Identifier(<<Backtick, "2", "'">>)>>}

Functions_(returnTypes, argLists, specs) ==
    {FunctionType(r, FunctionContext(a, s)) :
        r \in returnTypes, a \in argLists, s \in specs}

Pointers_(returnTypes, scopes, specs, argLists, fspecs) ==
    {FunctionPtrType(r, c, p, FunctionContext(a, s)) :
        r \in returnTypes, c \in scopes, p \in specs, a \in argLists, s \in fspecs}

NoScope == {<<>>}

ArgLists == {<<>>, <<IntType>>, <<FooPtr, UnsignedLongLong>>}

FunctionTypes == Functions_({Void, FooPtr, FooOfInt}, ArgLists, FunctionSpecs)

FunctionPointers ==
    Pointers_({Void, FooPtr}, NoScope, PtrSpecs, ArgLists, {NoSpecs})

MemberPointers ==
    Pointers_({Void}, {<<Identifier(<<"ns">>), Foo>>}, {Pointer}, ArgLists, FunctionSpecs)

Regulars ==
    {RegularType(c, id, s) :
        c \in ScopeChoices, id \in {Foo, WithArgs(Foo, <<IntType>>)}, s \in ManySpecs}
    \cup {RegularType(<<>>, Builtin(<<"char">>), s) : s \in ManySpecs}
    \cup {RegularType(c, id, NoSpecs) :
             c \in ScopeChoices, id \in {Lambda, LlvmLambda, GccLambda, MsvcLambda}}

Nested ==
    Pointers_(FunctionPointers, NoScope, {Pointer}, {<<IntType>>}, {NoSpecs})
    \cup Functions_(FunctionPointers \cup MemberPointers, {<<IntType>>}, {NoSpecs})

Inner_ ==
    {UnsignedLongLong, FooPtr, FooOfInt, Plain_(GccLambda)}
    \cup Functions_({Void}, ArgLists, {NoSpecs})
    \cup Pointers_({Void}, NoScope, {Pointer}, ArgLists, {NoSpecs})
    \cup MemberPointers
    \cup {RegularType(c, Foo, NoSpecs) : c \in ScopeChoices}

Templates ==
    {Plain_(WithArgs(Foo, args)) :
        args \in {<<>>} \cup {<<t>> : t \in Inner_} \cup {<<t, FooOfInt>> : t \in Inner_}}

AllTypes ==
    Regulars \cup FunctionTypes \cup FunctionPointers \cup MemberPointers
        \cup Nested \cup Templates
        \cup {Plain_(WithArgs(Foo, <<t>>)) : t \in Templates}

Op(symbol) == OperatorIdentifier(symbol)

FunctionNames ==
    {Foo, WithArgs(Foo, <<FooOfInt>>), Identifier(<<"~", "foo">>),
     Op(<<"(", ")">>), Op(<<"[", "]">>), Op(<<"<">>), Op(<<"<", "<">>),
     WithArgs(Op(<<"<">>), <<IntType>>), WithArgs(Op(<<"<", "<">>), <<IntType>>),
     Op(<<">", ">">>), Op(<<"-", ">">>), Op(<<"new">>), Op(<<"delete", "[", "]">>),
     Op(<<"co_await">>), Op(<<"<", "=", ">">>), Op(<<",">>)}

Conversions ==
    {ConversionIdentifier(t) :
        t \in {IntType, FooPtr, FooOfInt, RegularType(<<>>, Foo, Spec_(<<Const>>, "lvalue"))}}

AllFunctions ==
    {Function(r, c, FunctionIdentifier(id, FunctionContext(a, s))) :
        r \in {<<Void>>, <<FooPtr>>}, c \in {<<>>, <<Identifier(<<"ns">>), Foo>>},
        id \in FunctionNames, a \in ArgLists, s \in {NoSpecs, Spec_(<<Const>>, "none")}}
    \cup
    {Function(<<>>, c, FunctionIdentifier(id, FunctionContext(a, s))) :
        c \in ScopeChoices \ NoScope,
        id \in {Foo, Op(<<"(", ")">>)} \cup Conversions, a \in {<<>>, <<FooPtr>>},
        s \in {NoSpecs, Spec_(<<Const>>, "none")}}

=============================================================================

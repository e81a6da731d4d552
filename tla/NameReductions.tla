--------------------------- MODULE NameReductions ---------------------------
(***************************************************************************)
(* The tokens of the name parser and the reductions of its token stack     *)
(* (NameParserTokens.hpp, NameParserReductions.hpp).                       *)
(*                                                                         *)
(* A token is a record whose "is" names the alternative of the variant.    *)
(* Optional values are sequences of length zero or one, an optional        *)
(* ScopeSequence is the sequence of its scopes.  A reduction maps a stack  *)
(* to a stack; it succeeded if it changed the stack.                       *)
(***************************************************************************)
EXTENDS NameLexer

Layer == [isConst |-> FALSE, isVolatile |-> FALSE]

NoSpecs == [layers |-> <<Layer>>, refness |-> "none", isNoexcept |-> FALSE]

HasPtr(specs) == Len(specs.layers) > 1

Plain(kind) == [is |-> kind]

\* Brackets and quotes keep their place in the name for placeholders.
Bracket(kind, at) == [is |-> kind, at |-> at]

Identifier(text) ==
    [is |-> "Identifier", isBuiltinType |-> FALSE, form |-> "text",
     text |-> text, templateArgs |-> <<>>]

Builtin(text) == [Identifier(text) EXCEPT !.isBuiltinType = TRUE]

OperatorIdentifier(symbol) == [Identifier(symbol) EXCEPT !.form = "operator"]

ConversionIdentifier(type) ==
    [is |-> "Identifier", isBuiltinType |-> FALSE, form |-> "conversion",
     type |-> type, templateArgs |-> <<>>]

IsVoid(id) == id.form = "text" /\ id.text = <<"void">>

IsReserved(id) == id.form = "text" /\ Head(id.text) = "__"

ArgSequence(types) == [is |-> "ArgSequence", types |-> types]

FunctionContext(args, specs) ==
    [is |-> "FunctionContext", args |-> args, specs |-> specs]

FunctionIdentifier(id, context) ==
    [is |-> "FunctionIdentifier", identifier |-> id, context |-> context]

RegularType(scopes, id, specs) ==
    [is |-> "Type", state |-> "regular", scopes |-> scopes, identifier |-> id,
     specs |-> specs]

FunctionType(returnType, context) ==
    [is |-> "Type", state |-> "function", returnType |-> returnType,
     context |-> context]

FunctionPtrType(returnType, scopes, specs, context) ==
    [is |-> "Type", state |-> "function_ptr", returnType |-> returnType,
     scopes |-> scopes, specs |-> specs, context |-> context]

FunctionPtr(scopes, specs, nested) ==
    [is |-> "FunctionPtr", scopes |-> scopes, specs |-> specs, nested |-> nested]

Function(returnType, scopes, id) ==
    [is |-> "Function", returnType |-> returnType, scopes |-> scopes,
     identifier |-> id]

\* A type whose name begins with two underscores, e.g. a call convention that
\* was taken for a type.
IsReservedType(token) ==
    token.is = "Type" /\ token.state = "regular" /\ IsReserved(token.identifier)

IsVoidType(type) == type.state = "regular" /\ IsVoid(type.identifier)

-----------------------------------------------------------------------------
\* Suffixes of the stack.

IsSuffixOf(kinds, st) ==
    LET below == Len(st) - Len(kinds)
    IN  below >= 0 /\ \A i \in DOMAIN kinds : st[below + i].is = kinds[i]

Ends(st, kind) == IsSuffixOf(<<kind>>, st)

RemoveSuffix(st, count) == SubSeq(st, 1, Len(st) - count)

Without(st, kind) == IF Ends(st, kind) THEN Front(st) ELSE st

IgnoreSpace(st) == Without(st, "Space")

EndsReserved(st) == Ends(st, "Identifier") /\ IsReserved(Last(st))

IgnoreReservedIdentifier(st) == IF EndsReserved(st) THEN Front(st) ELSE st

Scopes(st) == IF Ends(st, "ScopeSequence") THEN Last(st).scopes ELSE <<>>

Args(st) == IF Ends(st, "ArgSequence") THEN Last(st).types ELSE <<>>

\* a || b for reductions of st.
OrElse(a, b, st) == IF a # st THEN a ELSE b

-----------------------------------------------------------------------------
TryReduceAsScopeSequence(st) ==
    LET rest == RemoveSuffix(st, 2)
    IN  IF \/ IsSuffixOf(<<"Identifier", "ScopeResolution">>, st)
           \/ IsSuffixOf(<<"FunctionIdentifier", "ScopeResolution">>, st)
        THEN Append(Without(rest, "ScopeSequence"),
                    [is |-> "ScopeSequence",
                     scopes |-> Append(Scopes(rest), st[Len(st) - 1])])
        ELSE st

TryReduceAsArgSequence(st) ==
    IF IsSuffixOf(<<"ArgSequence", "ArgSeparator", "Type">>, st)
    THEN LET rest == RemoveSuffix(st, 2)
         IN  Append(Front(rest), ArgSequence(Append(Args(rest), Last(st))))
    ELSE IF Ends(st, "Type") THEN Append(Front(st), ArgSequence(<<Last(st)>>))
    ELSE st

TryReduceAsTemplateIdentifier(st) ==
    LET inner == Front(st)
        opening == Without(inner, "ArgSequence")
        rest == Front(opening)
    IN  IF /\ Ends(st, "ClosingAngle") /\ Ends(opening, "OpeningAngle")
           /\ Ends(rest, "Identifier") /\ Last(rest).templateArgs = <<>>
        THEN [rest EXCEPT ![Len(rest)].templateArgs = <<Args(inner)>>]
        ELSE st

\* Bug: a lone void is kept as an argument.
TryReduceKeepingVoid(st) ==
    LET inner == Front(st)
        opening == Without(inner, "ArgSequence")
        rest == Front(opening)
    IN  IF /\ Ends(st, "ClosingParens") /\ Ends(opening, "OpeningParens")
           /\ ~Ends(rest, "ScopeResolution") /\ ~Ends(rest, "ScopeSequence")
        THEN Append(rest, FunctionContext(Args(inner), NoSpecs))
        ELSE st

\* There is nothing like `::()`, and (void) means ().
TryReduceAsFunctionContext(st) ==
    LET inner == Front(st)
        opening == Without(inner, "ArgSequence")
        rest == Front(opening)
        args == Args(inner)
        onlyVoid == Len(args) = 1 /\ IsVoidType(args[1])
    IN  IF /\ Ends(st, "ClosingParens") /\ Ends(opening, "OpeningParens")
           /\ ~Ends(rest, "ScopeResolution") /\ ~Ends(rest, "ScopeSequence")
        THEN Append(rest, FunctionContext(IF onlyVoid THEN <<>> ELSE args, NoSpecs))
        ELSE st

TryReduceAsFunctionIdentifier(st) ==
    LET pending == IgnoreReservedIdentifier(IgnoreSpace(st))
    IN  IF IsSuffixOf(<<"Identifier", "FunctionContext">>, pending)
        THEN Append(RemoveSuffix(pending, 2),
                    FunctionIdentifier(pending[Len(pending) - 1], Last(pending)))
        ELSE st

IsIdentifierPrefix(st) ==
    st = <<>> \/ Last(st).is \in {"Space", "ScopeSequence", "Specs", "Type",
                                  "TypeContext", "OpeningAngle",
                                  "OpeningParens", "OpeningBacktick"}

\* Everything between the brackets becomes the text of an identifier.
TryReduceAsPlaceholder(name, opening, st) ==
    LET at == {i \in 1 .. Len(st) - 1 : st[i].is = opening}
        first == Max(at)
        rest == SubSeq(st, 1, first - 1)
    IN  IF at # {} /\ IsIdentifierPrefix(rest)
        THEN Append(IgnoreSpace(rest),
                    Identifier(SubSeq(name, st[first].at, Last(st).at)))
        ELSE st

-----------------------------------------------------------------------------
\* Types.

\* The return type is delimited by a space, or by a call convention.
TryReduceAsFunctionType(st) ==
    LET rest == Front(st)
        pending == IgnoreReservedIdentifier(Front(rest))
    IN  IF /\ Ends(st, "FunctionContext")
           /\ Ends(rest, "Space") \/ EndsReserved(rest)
           /\ Ends(pending, "Type")
        THEN Append(Front(pending), FunctionType(Last(pending), Last(st)))
        ELSE st

\* What stands in the parentheses of a function pointer, read from its end:
\* the arguments of a function (pointer) whose return type it is, a call
\* convention, the pointer, and the class of a member pointer.
TryReduceAsFunctionPtr(st) ==
    LET inner == Front(st)
        hasCtx == Ends(inner, "FunctionContext")
        hasPtr == hasCtx /\ Ends(Front(inner), "FunctionPtr")
        nested == IF ~hasCtx THEN <<>>
                  ELSE <<[ptr |-> IF hasPtr THEN <<inner[Len(inner) - 1]>>
                                            ELSE <<>>,
                          ctx |-> Last(inner)]>>
        pending == IgnoreReservedIdentifier(IgnoreSpace(
                      RemoveSuffix(inner, IF hasPtr THEN 2
                                          ELSE IF hasCtx THEN 1 ELSE 0)))
        isPlain == Ends(pending, "Specs") /\ HasPtr(Last(pending).specs)
        unscoped == Without(Front(pending), "ScopeSequence")
        \* msvc's (__cdecl*), where the convention looks like the type
        isReservedPtr == /\ Ends(pending, "Type") /\ IsReservedType(Last(pending))
                         /\ HasPtr(Last(pending).specs)
        opening ==
            IF isPlain /\ Ends(unscoped, "Type") /\ IsReservedType(Last(unscoped))
            THEN Front(unscoped)
            ELSE IF isPlain THEN unscoped ELSE Front(pending)
    IN  IF /\ Ends(st, "ClosingParens")
           /\ isPlain \/ isReservedPtr
           /\ Ends(opening, "OpeningParens")
        THEN Append(Front(opening),
                    FunctionPtr(IF isPlain THEN Scopes(Front(pending)) ELSE <<>>,
                                Last(pending).specs, nested))
        ELSE st

\* If the pointer was itself followed by arguments, the type found so far is
\* the return type of an inner function or function pointer, at any depth
\* (handled_nested_function_ptr).
RECURSIVE TryReduceAsFunctionPtrType(_)
TryReduceAsFunctionPtrType(st) ==
    LET pending == IgnoreReservedIdentifier(st)
        n == Len(pending)
        ptr == pending[n - 1]
        type == FunctionPtrType(pending[n - 3], ptr.scopes, ptr.specs, Last(pending))
        outer == Append(RemoveSuffix(pending, 4), type)
        inner == Head(ptr.nested)
        withNested == outer \o <<Plain("Space")>> \o inner.ptr \o <<inner.ctx>>
    IN  IF ~IsSuffixOf(<<"Type", "Space", "FunctionPtr", "FunctionContext">>, pending)
        THEN st
        ELSE IF ptr.nested = <<>> THEN outer
        ELSE IF inner.ptr # <<>> THEN TryReduceAsFunctionPtrType(withNested)
        ELSE TryReduceAsFunctionType(withNested)

\* Specs in front of a type are const and volatile only.
AreCvOnly(specs) ==
    specs.refness = "none" /\ ~specs.isNoexcept /\ Len(specs.layers) = 1

TryReduceAsRegularType(st) ==
    LET id == Last(st)
        scoped == Front(st)
        unscoped == Without(scoped, "ScopeSequence")
        hasSpecs == Ends(unscoped, "Specs")
        specs == IF hasSpecs THEN Last(unscoped).specs ELSE NoSpecs
        pending == IF hasSpecs THEN Front(unscoped) ELSE unscoped
    IN  IF ~Ends(st, "Identifier") THEN st
        ELSE IF IsReserved(id) /\ Ends(scoped, "Type") THEN scoped
        ELSE IF \/ ~AreCvOnly(specs)
                \/ Ends(pending, "Type") \/ Ends(pending, "FunctionContext")
        THEN st
        ELSE Append(Without(pending, "TypeContext"),
                    RegularType(Scopes(scoped), id, specs))

TryReduceAsType(st) ==
    OrElse(TryReduceAsFunctionPtrType(st),
           OrElse(TryReduceAsFunctionType(st), TryReduceAsRegularType(st), st),
           st)

-----------------------------------------------------------------------------
\* Functions.

TryReduceAsFunction(st) ==
    LET scoped == Front(st)
        pending == IgnoreReservedIdentifier(Without(scoped, "ScopeSequence"))
        returnType == IF Ends(pending, "Type") THEN <<Last(pending)>> ELSE <<>>
    IN  IF Ends(st, "FunctionIdentifier")
        THEN Append(Without(pending, "Type"),
                    Function(returnType, Scopes(scoped), Last(st)))
        ELSE st

\* Without a target type below the arguments the code is lost.
ConversionTarget(st) == TryReduceAsType(Without(st, "FunctionContext"))

ConversionAsserts(st) == IsSuffixOf(<<"OperatorKeyword", "Type">>, ConversionTarget(st))

ReduceAsConversionOperator(st) ==
    LET target == ConversionTarget(st)
        id == Append(RemoveSuffix(target, 2), ConversionIdentifier(Last(target)))
    IN  IF Ends(st, "FunctionContext")
        THEN TryReduceAsFunctionIdentifier(Append(id, Last(st)))
        ELSE id

-----------------------------------------------------------------------------
\* get_or_emplace_specs: the specs that a const, a reference or a pointer
\* belongs to are those of the token on top of the stack this yields.

HasSpecs(st) == st # <<>> /\ Last(st).is \in {"Type", "FunctionContext", "Specs"}

\* The identifier on top is a type, or it is reserved.
SpecsAsserts(st) ==
    Ends(st, "Identifier") /\ TryReduceAsType(st) = st => IsReserved(Last(st))

WithSpecsOnTop(st) ==
    LET reduced == IF ~Ends(st, "Identifier") THEN st
                   ELSE OrElse(TryReduceAsType(st), Front(st), st)
    IN  IF HasSpecs(reduced) THEN reduced
        ELSE Append(reduced, [is |-> "Specs", specs |-> NoSpecs])

IsFunctionType(token) == token.is = "Type" /\ token.state = "function"

SpecsOf(token) ==
    IF IsFunctionType(token) THEN token.context.specs ELSE token.specs

WithSpecs(st, specs) ==
    IF IsFunctionType(Last(st))
    THEN [st EXCEPT ![Len(st)].context.specs = specs]
    ELSE [st EXCEPT ![Len(st)].specs = specs]

=============================================================================

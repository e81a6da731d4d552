----------------------------- MODULE NamePrinter -----------------------------
(***************************************************************************)
(* What is printed of a parsed name: the tokens visit the PrintVisitor     *)
(* (NameParserTokens.hpp, NamePrintVisitor.hpp).                           *)
(*                                                                         *)
(* A visitor is the text printed so far, the stack of scopes and argument  *)
(* sequences that are being visited, and m_IgnoreNextScopeResolution.  A   *)
(* visit maps a visitor to a visitor.                                      *)
(***************************************************************************)
EXTENDS NameReductions

Visitor == [out |-> <<>>, context |-> <<>>, ignore |-> FALSE]

\* Bug: the arguments of scopes are printed.
PrintsInScopes(v) == Len(v.context) <= 2

\* Context::is_printable: at top level, in the first argument sequence, and
\* in the scopes in there.
IsPrintable(v) ==
    Len(v.context) <= 1 \/ v.context = <<"argSequence", "scope">>

IsSpecPrintable(v) == ~Contains(v.context, "scope")

Emit(v, words) == IF IsPrintable(v) THEN [v EXCEPT !.out = @ \o words] ELSE v

PrintSpec(v, isSet, words) ==
    IF isSet /\ IsSpecPrintable(v) THEN Emit(v, words) ELSE v

Push(v, kind) == [v EXCEPT !.context = Append(@, kind)]

Pop(v) == [v EXCEPT !.context = Front(@)]

-----------------------------------------------------------------------------
\* add_identifier

AnonymousNamespaces ==
    {<<"(", "anonymous", Space, "namespace", ")">>, <<"{", "anonymous", "}">>,
     <<"anonymous", Space, "namespace">>, <<"anonymous-namespace">>}

Alias(id) ==
    IF id \in AnonymousNamespaces THEN <<"{anon-ns}">>
    ELSE IF id = <<"<", "lambda", "(", ")", ">">> THEN <<"lambda">>
    ELSE id

IgnoredIdentifiers == {<<"__", "cxx11">>, <<"__", "1">>}

Digits == {"0", "1", "2", "3", "4", "5", "6", "7", "8", "9"}

Inner(id) == SubSeq(id, 2, Len(id) - 1)

IsWrapped(id, first, last) == IsPrefix(first, id) /\ Last(id) = last

AddIdentifier(v, id) ==
    LET unquoted == IF IsWrapped(id, <<Backtick>>, "'") THEN Inner(id) ELSE id
        isAuxiliary == unquoted # id /\ Range(unquoted) \subseteq Digits
        closing == Max({i \in DOMAIN id : id[i] = ")"})
        number == SelectSeq(Inner(id), LAMBDA p : p \in Digits)
    IN  IF IsWrapped(id, <<"{", "lambda", "(">>, "}")
        THEN Emit(v, <<"lambda">> \o SubSeq(id, closing + 1, Len(id) - 1))
        ELSE IF IsWrapped(id, <<"'", "lambda">>, "'") THEN Emit(v, Inner(id))
        ELSE IF IsWrapped(id, <<"<", "lambda_">>, ">")
        THEN Emit(v, <<"lambda">> \o
                      (IF number = <<>> THEN <<>> ELSE <<"#">> \o number))
        ELSE IF isAuxiliary \/ unquoted \in IgnoredIdentifiers
        THEN [v EXCEPT !.ignore = TRUE]
        ELSE Emit(v, Alias(unquoted))

-----------------------------------------------------------------------------
\* The visits of the tokens.

VisitLayer(v, layer) ==
    PrintSpec(PrintSpec(v, layer.isConst, <<" const">>),
              layer.isVolatile, <<" volatile">>)

VisitSpecs(v, specs) ==
    LET Layered(w, layer) == VisitLayer(PrintSpec(w, TRUE, <<"*">>), layer)
        layered == FoldLeft(Layered, VisitLayer(v, Head(specs.layers)),
                            Tail(specs.layers))
        lvalue == PrintSpec(layered, specs.refness = "lvalue", <<"&">>)
        rvalue == PrintSpec(lvalue, specs.refness = "rvalue", <<"&", "&">>)
    IN  PrintSpec(rvalue, specs.isNoexcept, <<" noexcept">>)

\* Tokens contain each other.
RECURSIVE VisitType(_, _), VisitArgs(_, _, _, _), VisitIdentifier(_, _),
          VisitContext(_, _), VisitScope(_, _)

VisitArgs(v, types, opening, closing) ==
    LET VisitArg(w, i) ==
            VisitType(IF i = 1 THEN w ELSE Emit(w, <<", ">>), types[i])
        begun == Emit(Push(v, "argSequence"), <<opening>>)
    IN  Pop(Emit(FoldLeft(VisitArg, begun, [i \in DOMAIN types |-> i]), <<closing>>))

VisitIdentifier(v, id) ==
    LET begun == IF id.form = "text" THEN v ELSE Emit(v, <<"operator ">>)
        named == IF id.form = "conversion" THEN VisitType(begun, id.type)
                 ELSE AddIdentifier(begun, id.text)
    IN  FoldLeft(LAMBDA w, args : VisitArgs(w, args, "<", ">"), named, id.templateArgs)

VisitContext(v, context) ==
    VisitSpecs(VisitArgs(v, context.args, "(", ")"), context.specs)

VisitFunctionIdentifier(v, function) ==
    VisitContext(VisitIdentifier(v, function.identifier), function.context)

\* An ignored identifier hides the next `::`.
AddScopeResolution(v) ==
    [(IF v.ignore THEN v ELSE Emit(v, <<"::">>)) EXCEPT !.ignore = FALSE]

VisitScope(v, scope) ==
    LET begun == Push(v, "scope")
    IN  Pop(AddScopeResolution(
            IF scope.is = "Identifier" THEN VisitIdentifier(begun, scope)
            ELSE VisitFunctionIdentifier(begun, scope)))

VisitScopes(v, scopes) == FoldLeft(VisitScope, v, scopes)

VisitReturnType(v, type) == Emit(VisitType(v, type), <<Space>>)

VisitType(v, type) ==
    CASE type.state = "regular" ->
             VisitSpecs(VisitIdentifier(VisitScopes(v, type.scopes),
                                        type.identifier),
                        type.specs)
      [] type.state = "function" ->
             VisitContext(VisitReturnType(v, type.returnType), type.context)
      [] type.state = "function_ptr" ->
             LET begun == Emit(VisitReturnType(v, type.returnType), <<"(">>)
                 ptr == VisitSpecs(VisitScopes(begun, type.scopes), type.specs)
             IN  VisitContext(Emit(ptr, <<")">>), type.context)

VisitFunction(v, function) ==
    LET begun == IF function.returnType = <<>> THEN v
                 ELSE VisitReturnType(v, Head(function.returnType))
    IN  VisitFunctionIdentifier(VisitScopes(begun, function.scopes),
                                function.identifier)

\* finalize, or emit_unrecognized: then the name is printed as it came.
Printed(name, result) ==
    IF result = <<>> THEN name
    ELSE IF Head(result).is = "Type" THEN VisitType(Visitor, Head(result)).out
    ELSE VisitFunction(Visitor, Head(result)).out

=============================================================================

------------------------------- MODULE Facades -------------------------------
(***************************************************************************)
(* How a call finds its overload: the functions a macro generates around a *)
(* mock (Facade.hpp, macros/Facade.hpp), and what C++ makes of the object  *)
(* expression they call the mock with.                                     *)
(*                                                                         *)
(* A method is what the macro is given: the return type, the parameter     *)
(* types, the convention and the text of the specifiers, as tokens.        *)
(***************************************************************************)
EXTENDS Signatures, SequencesExt, FiniteSets

Specifiers == {"&", "&&", "const", "noexcept", "override", "final"}

\* What is a method for C++: "_" is no type, and there is at most one ref-qualifier.
IsMethod(m) ==
    /\ DOMAIN m = {"conv", "ret", "params", "specs"}
    /\ m.params \in Seq(ToSet(m.params) \ {"_"})
    /\ m.specs \in Seq(Specifiers)
    /\ ~({"&", "&&"} \subseteq ToSet(m.specs))

\* parse_ref_specifier, parse_keyword_specifier
ParseSpecifier(info, token) ==
    CASE token = "&" -> [info EXCEPT !.ref = "lvalue"]
      [] token = "&&" -> [info EXCEPT !.ref = "rvalue"]
      [] token = "const" -> [info EXCEPT !.const = TRUE]
      [] token = "noexcept" -> [info EXCEPT !.noexcept = TRUE]
      [] token \in {"override", "final"} -> info

\* apply_normalized_specs
ApplyNormalizedSpecs(signature, specs) ==
    LET info == FoldLeft(ParseSpecifier,
                         [const |-> FALSE, ref |-> "any", noexcept |-> FALSE], specs)
        maybeRef == CASE info.ref = "lvalue" -> AddLvalueRefQualifier(signature)
                      [] info.ref = "rvalue" -> AddRvalueRefQualifier(signature)
                      [] OTHER -> signature
        maybeConst == IF info.const THEN AddConstQualifier(maybeRef) ELSE maybeRef
    IN  IF info.noexcept THEN AddNoexcept(maybeConst) ELSE maybeConst

\* MIMICPP_DETAIL_MAKE_SIGNATURE
MakeSignature(method) ==
    ApplyNormalizedSpecs(
        Signature(method.conv, method.ret, method.params, FALSE, "any", FALSE),
        method.specs)

\* basic_as_member_with_this::prepend_this
PrependThis(signature) ==
    PrependParam(signature, IF signature.const THEN "Self const*" ELSE "Self*")

\* The mock is on its own, or the target of a facade.
Styles == {"direct", "member", "with_this"}

\* The signatures of the mock.
TargetOverloads(methods, style) ==
    [i \in DOMAIN methods |->
        IF style = "with_this" THEN PrependThis(MakeSignature(methods[i]))
        ELSE MakeSignature(methods[i])]

-----------------------------------------------------------------------------
\* Object expressions, and the overloads C++ finds for them.

Object(isConst, category) == [const |-> isConst, category |-> category]

\* Bug: an lvalue, whatever the signature.
ForwardAsLvalue(signature, isConst) == Object(isConst, "lvalue")

\* forward_for
ForwardFor(signature, isConst) ==
    Object(isConst, IF signature.ref = "rvalue" THEN "rvalue" ELSE "lvalue")

\* The target is a member, as const as the generated function is.  The function
\* makes its signature without the convention.
TargetObject(method) ==
    ForwardFor(MakeSignature([method EXCEPT !.conv = DefaultConvention]),
               "const" \in ToSet(method.specs))

\* "_" is the matcher that accepts anything.
IsConvertible(from, to) ==
    from = to \/ from = "_" \/ (from = "Self*" /\ to = "Self const*")

IsViable(signature, object, types) ==
    /\ Len(signature.params) = Len(types)
    /\ \A i \in DOMAIN types : IsConvertible(types[i], signature.params[i])
    /\ object.const => signature.const
    /\ CASE signature.ref = "any" -> TRUE
         [] signature.ref = "lvalue" -> object.category = "lvalue" \/ signature.const
         [] signature.ref = "rvalue" -> object.category = "rvalue"

\* The implicit object parameter: an rvalue prefers &&, then less const is
\* better.
ObjectRank(signature, object) ==
    (IF object.category = "rvalue" /\ signature.ref = "lvalue" THEN 2 ELSE 0)
        + (IF signature.const /\ ~object.const THEN 1 ELSE 0)

\* How many arguments are converted.
ArgsRank(signature, types) ==
    Cardinality({i \in DOMAIN types : types[i] \notin {"_", signature.params[i]}})

IsBetter(a, b, object, types) ==
    /\ ObjectRank(a, object) <= ObjectRank(b, object)
    /\ ArgsRank(a, types) <= ArgsRank(b, types)
    /\ \/ ObjectRank(a, object) < ObjectRank(b, object)
       \/ ArgsRank(a, types) < ArgsRank(b, types)

\* The best viable overload, if there is one.
Resolve(overloads, object, types) ==
    LET viable == {s \in ToSet(overloads) : IsViable(s, object, types)}
    IN  {s \in viable : \A t \in viable \ {s} : IsBetter(s, t, object, types)}

-----------------------------------------------------------------------------
\* The frames between the user and BasicMock::handle_call, and how many of them
\* the settings of the mock skip.

FacadeFrames ==
    <<"apply's lambda", "apply", "invoke", "facade's lambda", "facade function">>

MockFrames == <<"BasicMock::handle_call", "operator()">>

CallFrames(style) ==
    MockFrames \o (IF style = "direct" THEN <<>> ELSE FacadeFrames) \o <<"user">>

FacadeBaseCallDepth == 2

ApplyCallDepth == 2

\* Bug: the frame of T::invoke is not counted.
SettingsWithoutInvoke(style) ==
    IF style = "direct" THEN 0 ELSE FacadeBaseCallDepth + ApplyCallDepth

MakeSettings(style) ==
    IF style = "direct" THEN 0 ELSE 1 + FacadeBaseCallDepth + ApplyCallDepth

\* The constructor of BasicMock adds its own two frames.
StacktraceSkip(style) == MakeSettings(style) + 2

=============================================================================

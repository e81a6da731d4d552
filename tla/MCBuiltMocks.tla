----------------------------- MODULE MCBuiltMocks -----------------------------
(***************************************************************************)
(* The programs for the run of BuiltMocks.                                 *)
(***************************************************************************)
EXTENDS ReportTexts, MatcherHooks, MatcherTexts

Method(ret, params, conv, specs) ==
    [ret |-> ret, params |-> params, conv |-> conv, specs |-> specs]

Program(methods, style, objects, expectations, passed, reportSuccess, reporters) ==
    [methods |-> methods, style |-> style, objects |-> objects,
     expectations |-> expectations, calls |-> passed,
     reportSuccess |-> reportSuccess, reporters |-> reporters]

Stated(types, args, clauses) == [types |-> types, args |-> args, clauses |-> clauses]

Passed(types, args) == [types |-> types, args |-> args]

AllObjects == {Object(c, r) : c \in BOOLEAN, r \in {"lvalue", "rvalue"}}

Lvalue == {Object(FALSE, "lvalue")}

-----------------------------------------------------------------------------
\* Overloads.

ConstSpecs == {<<>>, <<"const">>}

RefSpecs == {<<>>, <<"&">>, <<"&&">>}

AllSpecs == {c \o r : c \in ConstSpecs, r \in RefSpecs}

VoidMethod(params, specs) == Method(Void, params, DefaultConvention, specs)

Plain == {VoidMethod(<<>>, specs) : specs \in AllSpecs}

OfInt == {VoidMethod(<<"int">>, specs) : specs \in {<<>>, <<"const">>, <<"&&">>}}

Noexcept ==
    {VoidMethod(<<>>, <<"noexcept">>), VoidMethod(<<>>, <<"const", "&", "noexcept", "override">>)}

Conventional == {Method(Void, <<>>, "stdcall", specs) : specs \in {<<>>, <<"const">>}}

Pairs ==
    {<<a, b>> : a \in Plain, b \in Plain \cup OfInt \cup Noexcept \cup Conventional}

OnNothing == {Stated(<<>>, <<>>, <<>>)}

Throwing == {Stated(<<>>, <<>>, <<Throws>>)}

OnInt == {Stated(<<"int">>, <<Wildcard>>, <<>>)}

OverloadPrograms ==
    {Program(methods, style, AllObjects, OnNothing \cup OnInt,
             {Passed(<<>>, <<>>), Passed(<<"int">>, <<0>>)}, FALSE, 0) :
        methods \in Pairs, style \in Styles}
    \cup
    {Program(methods, style, Lvalue, OnNothing \cup Throwing, {Passed(<<>>, <<>>)}, TRUE, 2) :
        methods \in {<<a>> : a \in Noexcept \cup Conventional}, style \in Styles}

-----------------------------------------------------------------------------
\* Matchers: each and its inverse.

\* A call of one argument, and an expectation that accepts all
OnOne(matchers, values) ==
    {Program(<<VoidMethod(<<"value">>, <<>>)>>, "direct", Lvalue,
             {Stated(<<"value">>, <<arg>>, <<>>) : arg \in {m, Inverted(m)}},
             {Passed(<<"value">>, <<x>>) : x \in values}, FALSE, 0) : m \in matchers}

IntMatchers == {Eq(1), Ne(1), Lt(1), Le(1), Gt(1), Ge(1)}

FpValues == {Fp(n) : n \in {-5, 2, 3, 4, 6}} \cup {Infinity, NotANumber}

FpMatchers ==
    {IsNaN} \cup
    UNION {{ApproxAbs(v, e), ApproxRel(v, e)} :
              <<v, e>> \in {pair \in {Fp(4), NotANumber} \X {Fp(1), Fp(25), Fp(0), Infinity} :
                              ApproxIsConstructible(pair[1], pair[2])}}

RangeValues == {<<>>, <<1>>, <<1, 2>>, <<2, 1>>, <<1, 1>>, <<1, 1, 2>>, <<2, 1, 2>>}

RangeMatchers ==
    {RangeEq(<<1, 2>>), RangeUnorderedEq(<<1, 2>>), RangeUnorderedEq(<<1, 2, 1>>),
     RangeIsSorted, RangeIsEmpty}

NestedMatchers == {EachElement(m) : m \in {Eq(1), Gt(1)}} \cup {AnyElement(Inverted(Eq(1)))}

StrValues == {<<>>, <<"a">>, <<"A", "b">>, <<"a", "b">>, <<"b", "a">>, <<"b", "a", "B">>}

StrMatchers ==
    UNION {{StrEq(p), StrEqFolded(p), StrStartsWith(p), StrStartsWithFolded(p),
            StrEndsWith(p), StrEndsWithFolded(p), StrContains(p), StrContainsFolded(p)} :
              p \in {<<>>, <<"a", "b">>, <<"A">>}}

\* Values and strings as the user may write them for matchers
OfValues ==
    {Program(<<VoidMethod(<<"value">>, <<>>)>>, "direct", Lvalue,
             {Stated(<<"value">>, <<[is |-> "value", value |-> 1]>>, <<>>),
              Stated(<<"value">>, <<Wildcard>>, <<>>)},
             {Passed(<<"value">>, <<x>>) : x \in {0, 1}}, FALSE, 0)}

OfStrings ==
    {Program(<<VoidMethod(<<"value">>, <<>>)>>, "direct", Lvalue,
             {Stated(<<"value">>, <<[is |-> "string", value |-> <<"a">>]>>, <<>>)},
             {Passed(<<"value">>, <<x>>) : x \in StrValues}, FALSE, 0)}

OfObjects == OnOne({Instance("x")}, {"x", "y"})

-----------------------------------------------------------------------------
\* Clauses.

Less == Predicate("less", "are ascending", "are not ascending")

TwoInts == <<"int", "int">>

Requirements_ ==
    {<<ExpectArgs(<<1, 0>>, Less, <<>>)>>,
     <<ExpectArgs(<<0, 1>>, Inverted(Less), <<"negate">>)>>,
     <<ExpectAllArgs(Less), ExpectArg(1, Ge(1), "negate")>>,
     <<ExpectArg(1, Predicate("throw", "", ""), "identity")>>}

Effects ==
    {<<>>,
     <<ApplyAll("reverse"), ApplyArg(0, "increment")>>,
     <<ApplyArg(1, "increment"), ApplyArgs(<<1, 0>>, "reverse"), ApplyAll("increment")>>,
     <<InvokeAction("nothing"), InvokeAction("throw")>>}

Finalizers ==
    {<<>>, <<Returns(7)>>, <<ReturnsArg(1)>>, <<ReturnsApplyResultOf(<<0>>, "sum")>>,
     <<ReturnsApplyAllResultOf("sum")>>, <<Throws>>}

Times_ == {<<Times(0, 0)>>, <<Times(0, 1)>>, <<Times(2, 2)>>, <<Times(1, Unlimited)>>}

OnTwo(args, clauses) == Stated(TwoInts, args, clauses)

ClausePrograms ==
    {Program(<<Method("int", TwoInts, DefaultConvention, specs)>>, "direct", Lvalue,
             {OnTwo(<<Wildcard, Wildcard>>, r \o f),
              OnTwo(<<[is |-> "value", value |-> 1], Wildcard>>, e \o <<ReturnsArg(0)>>)},
             {Passed(TwoInts, <<0, 1>>), Passed(TwoInts, <<1, 0>>)}, TRUE, 0) :
        specs \in {<<>>, <<"noexcept">>}, r \in Requirements_, e \in Effects,
        f \in {<<Returns(7)>>, <<Throws>>}}
    \cup
    {Program(<<Method("int", TwoInts, DefaultConvention, <<>>)>>, "direct", Lvalue,
             {OnTwo(<<Wildcard, Wildcard>>, e \o f)},
             {Passed(TwoInts, <<0, 1>>), Passed(TwoInts, <<1, 0>>)}, FALSE, 0) :
        e \in Effects, f \in Finalizers}
    \cup
    {Program(<<VoidMethod(TwoInts, <<>>)>>, "direct", Lvalue,
             {OnTwo(<<[is |-> "value", value |-> 1], Inverted(Eq(1))>>, t),
              OnTwo(<<Wildcard, Wildcard>>, u),
              OnTwo(<<Wildcard, Wildcard>>, u \o t)},
             {Passed(TwoInts, <<0, 1>>), Passed(TwoInts, <<1, 0>>)}, TRUE, 1) :
        t \in Times_, u \in Times_}
    \cup
    {Program(<<Method("int", <<"int">>, DefaultConvention, <<"const", "&">>)>>, "with_this",
             AllObjects, {Stated(<<"int">>, <<Eq(1)>>, <<ApplyArg(1, "increment"), ReturnsArg(1)>>)},
             {Passed(<<"int">>, <<0>>), Passed(<<"int">>, <<1>>)}, TRUE, 0)}

-----------------------------------------------------------------------------

AllPrograms ==
    <<OverloadPrograms, OnOne(IntMatchers, {0, 1, 2}), OnOne(FpMatchers, FpValues),
      OnOne(RangeMatchers, RangeValues), OnOne({RangeHasSize(2)}, RangeValues),
      OnOne(NestedMatchers, RangeValues), OnOne(StrMatchers, StrValues),
      OfValues, OfStrings, OfObjects, ClausePrograms>>

=============================================================================

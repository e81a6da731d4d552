------------------------------ MODULE NameParser ------------------------------
(***************************************************************************)
(* The shift-reduce parser that reads what demanglers print                *)
(* (NameParser.hpp).  One action handles one token of the lexer, with all  *)
(* the reductions it triggers.  A failed MIMICPP_ASSERT ends the model's   *)
(* parse; the code would go on with whatever is on the stack.              *)
(***************************************************************************)
EXTENDS NameSpellings, Algorithm

CONSTANTS
    Types, Functions,   \* what is to be printed
    Styles              \* how it may be spelled

\* A name is printed as that of a type or of a function; "of" is the meaning
\* that it has.
Names ==
    {[name |-> SpellType(t, style), as |-> "type", of |-> t] :
        t \in Types, style \in Styles}
    \cup
    {[name |-> SpellFunction(f, style), as |-> "function", of |-> f] :
        f \in Functions, style \in Styles}
    \cup
    \* a frame without arguments is read as a type
    {[name |-> SpellFrame(f, style), as |-> "function",
      of |-> RegularType(f.scopes, f.identifier.identifier, NoSpecs)] :
        f \in {f \in Functions : f.identifier.identifier.form = "text"},
        style \in {style \in Styles : style.quoted}}

VARIABLES
    content,    \* the name, and as what it is printed
    tokens,     \* what m_Lexer yields one by one
    cursor,     \* the number of the next token
    stack,      \* m_TokenStack
    hasConversionOperator,
    asserted,   \* every MIMICPP_ASSERT so far held
    result      \* the token handed to the visitor, <<>> if unrecognized

vars == <<content, tokens, cursor, stack, hasConversionOperator, asserted, result>>

Pending == <<Plain("Pending")>>

\* remove_template_details: gcc appends "[with T = ...]" to functions.
RemoveTemplateDetails(name) ==
    LET rest == Reverse(Front(name))
        at == FindClosingToken(rest, "]", "[")
        kept == {i \in at + 1 .. Len(rest) : rest[i] # Space}
    IN  IF name = <<>> \/ Last(name) # "]" \/ at > Len(rest) THEN name
        ELSE IF kept = {} THEN <<>>
        ELSE SubSeq(name, 1, Len(rest) - Min(kept) + 1)

\* m_Content, as prettify_type and prettify_function hand it to the parser.
text == IF content.as = "type" THEN content.name
        ELSE RemoveTemplateDetails(content.name)

\* Sequences hold what their name says, and a specs has a layer.
IsToken(token) ==
    CASE token.is = "ScopeSequence" ->
             \A i \in DOMAIN token.scopes :
                 token.scopes[i].is \in {"Identifier", "FunctionIdentifier"}
      [] token.is = "ArgSequence" ->
             token.types # <<>> /\ \A i \in DOMAIN token.types : token.types[i].is = "Type"
      [] token.is = "Specs" -> token.specs.layers # <<>>
      [] OTHER -> TRUE

\* The tokens are those the code's variants allow, and the brackets among them
\* stand on the stack as they stand in the name.
TypeOK ==
    /\ content.as \in {"type", "function"}
    /\ cursor \in 1 .. Len(tokens) + 1
    /\ \A i \in DOMAIN stack : IsToken(stack[i])
    /\ \A i, j \in {i \in DOMAIN stack : "at" \in DOMAIN stack[i]} :
           i < j => stack[i].at < stack[j].at
    /\ {hasConversionOperator, asserted} \subseteq BOOLEAN
    /\ Len(result) <= 1

Init ==
    /\ content \in Names
    /\ tokens = Lex(text)
    /\ cursor = 1
    /\ stack = <<>>
    /\ hasConversionOperator = FALSE
    /\ asserted = TRUE
    /\ result = Pending

-----------------------------------------------------------------------------
\* What the lexer yields.

Parsing == result = Pending /\ asserted

Reads(class) ==
    Parsing /\ cursor <= Len(tokens) /\ tokens[cursor].class = class

ReadsAny(class, texts) == Reads(class) /\ tokens[cursor].text \in texts

This == tokens[cursor]

\* The token n places ahead is of a class, and one of the texts.
Ahead(n, class) == cursor + n <= Len(tokens) /\ tokens[cursor + n].class = class

AheadIs(n, class, texts) == Ahead(n, class) /\ tokens[cursor + n].text \in texts

Chars(cs) == {<<c>> : c \in cs}

\* The number of spaces (none or one) n places ahead.
Spaces(n) == IF Ahead(n, "space") THEN 1 ELSE 0

Go(n, st) ==
    /\ cursor' = cursor + n
    /\ stack' = st
    /\ UNCHANGED <<content, tokens, hasConversionOperator, result>>

Shift(st) == Go(1, st) /\ UNCHANGED asserted

-----------------------------------------------------------------------------
\* Spaces, identifiers and keywords.

MergesBuiltin ==
    /\ Ends(stack, "Identifier") /\ Last(stack).isBuiltinType
    /\ AheadIs(1, "keyword", TypeKeywords)

\* `long long`, `unsigned int`: one identifier.
MergeBuiltins ==
    LET merged == Last(stack).text \o <<Space>> \o tokens[cursor + 1].text
    IN  /\ Reads("space") /\ MergesBuiltin
        /\ Go(2, [stack EXCEPT ![Len(stack)].text = merged])
        /\ asserted' = (SubSeq(text, This.from - Len(Last(stack).text),
                               This.from - 1) = Last(stack).text)

\* `void ()` is a function type and `foo()` a function: a space is kept if a
\* bracket follows.
HandleSpace ==
    LET reduced == IF Ends(stack, "Identifier") THEN TryReduceAsType(stack) ELSE stack
    IN  /\ Reads("space") /\ ~MergesBuiltin
        /\ Shift(IF AheadIs(1, "operator", Chars({"<", "(", "{", "'", Backtick}))
                 THEN Append(reduced, Plain("Space")) ELSE reduced)

HandleIdentifier ==
    Reads("identifier") /\ Shift(Append(stack, Identifier(This.text)))

HandleTypeKeyword ==
    ReadsAny("keyword", TypeKeywords) /\ Shift(Append(stack, Builtin(This.text)))

HandleTypeContext ==
    /\ ReadsAny("keyword", Chars({"class", "struct", "enum"}))
    /\ Shift(Append(stack, Plain("TypeContext")))

\* A spec goes to the token on top, which may have to be reduced to have specs.
ChangeSpecs(Allowed(_), Changed(_)) ==
    LET st == WithSpecsOnTop(stack)
        specs == SpecsOf(Last(st))
    IN  /\ Go(1, WithSpecs(st, Changed(specs)))
        /\ asserted' = (SpecsAsserts(stack) /\ Allowed(specs))

HandleConst ==
    /\ ReadsAny("keyword", Chars({"const"}))
    /\ ChangeSpecs(LAMBDA s : ~Last(s.layers).isConst,
                   LAMBDA s : [s EXCEPT !.layers[Len(s.layers)].isConst = TRUE])

HandleVolatile ==
    /\ ReadsAny("keyword", Chars({"volatile"}))
    /\ ChangeSpecs(LAMBDA s : ~Last(s.layers).isVolatile,
                   LAMBDA s : [s EXCEPT !.layers[Len(s.layers)].isVolatile = TRUE])

HandleNoexcept ==
    /\ ReadsAny("keyword", Chars({"noexcept"}))
    /\ ChangeSpecs(LAMBDA s : ~s.isNoexcept,
                   LAMBDA s : [s EXCEPT !.isNoexcept = TRUE])

HandleReference ==
    /\ ReadsAny("operator", {<<"&">>, <<"&", "&">>})
    /\ ChangeSpecs(LAMBDA s : s.refness = "none",
                   LAMBDA s : [s EXCEPT !.refness =
                       IF This.text = <<"&">> THEN "lvalue" ELSE "rvalue"])

HandlePointer ==
    /\ ReadsAny("operator", Chars({"*"}))
    /\ ChangeSpecs(LAMBDA s : TRUE,
                   LAMBDA s : [s EXCEPT !.layers = Append(@, Layer)])

-----------------------------------------------------------------------------
\* operator (process_simple_operator).  "at" is the distance of the symbol,
\* which a space may precede, and another one follow what is consumed.

ReadsOperator == ReadsAny("keyword", Chars({"operator"}))

SymbolAt == 1 + Spaces(1)

ShiftOperator(last, symbol, more) ==
    Go(last + 1 + Spaces(last + 1), Append(stack, OperatorIdentifier(symbol)) \o more)

\* operator() and operator[]
HandleBracketOperator ==
    LET at == SymbolAt
        closing == IF AheadIs(at, "operator", Chars({"("})) THEN ")" ELSE "]"
        from == tokens[cursor + at].from
    IN  /\ ReadsOperator /\ AheadIs(at, "operator", Chars({"(", "["}))
        /\ ShiftOperator(at + 1, SubSeq(text, from, from + 1), <<>>)
        /\ asserted' = AheadIs(at + 1, "operator", Chars({closing}))

\* operator<< is operator< with template arguments, unless arguments follow.
HandleLeftShiftOperator ==
    LET at == SymbolAt
        next == at + 1 + Spaces(at + 1)
        second == tokens[cursor + at].to
    IN  /\ ReadsOperator /\ AheadIs(at, "operator", {<<"<", "<">>})
        /\ IF AheadIs(next, "operator", Chars({"(", "<"}))
           THEN ShiftOperator(next - 1, <<"<", "<">>, <<>>)
           ELSE ShiftOperator(next - 1, <<"<">>, <<Bracket("OpeningAngle", second)>>)
        /\ UNCHANGED asserted

HandleSymbolOperator ==
    LET at == SymbolAt
    IN  /\ ReadsOperator /\ Ahead(at, "operator")
        /\ ~AheadIs(at, "operator", Chars({"(", "["}) \cup {<<"<", "<">>})
        /\ ShiftOperator(at, tokens[cursor + at].text, <<>>)
        /\ UNCHANGED asserted

\* operator new, operator delete[], operator co_await
HandleKeywordOperator ==
    LET at == SymbolAt
        opening == at + 1 + Spaces(at + 1)
        closing == opening + 1 + Spaces(opening + 1)
        isArray == /\ AheadIs(at, "keyword", Chars({"new", "delete"}))
                   /\ AheadIs(opening, "operator", Chars({"["}))
        \* the space before what is not a bracket is dropped once
        last == IF isArray THEN closing ELSE at
    IN  /\ ReadsOperator
        /\ AheadIs(at, "keyword", Chars({"new", "delete", "co_await"}))
        /\ ShiftOperator(last, SubSeq(text, tokens[cursor + at].from,
                                            tokens[cursor + last].to), <<>>)
        /\ asserted' = (isArray => AheadIs(closing, "operator", Chars({"]"})))

HandleConversionOperator ==
    LET at == SymbolAt
    IN  /\ ReadsOperator
        /\ ~Ahead(at, "operator")
        /\ ~AheadIs(at, "keyword", Chars({"new", "delete", "co_await"}))
        /\ cursor' = cursor + at
        /\ stack' = Append(stack, Plain("OperatorKeyword"))
        /\ hasConversionOperator' = TRUE
        /\ asserted' = ~hasConversionOperator
        /\ UNCHANGED <<content, tokens, result>>

-----------------------------------------------------------------------------
\* Punctuators.

HandleScopeResolution ==
    /\ ReadsAny("operator", {<<":", ":">>})
    /\ Shift(TryReduceAsScopeSequence(
                 Append(TryReduceAsFunctionIdentifier(stack),
                        Plain("ScopeResolution"))))

\* A type in front of a comma or a closing bracket ends an argument.
WithLastArg(st) ==
    LET typed == IF Ends(st, "Type") THEN st ELSE TryReduceAsType(st)
    IN  IF Ends(st, "Type") \/ typed # st THEN TryReduceAsArgSequence(typed) ELSE st

HandleComma ==
    /\ ReadsAny("operator", Chars({","}))
    /\ Shift(Append(WithLastArg(stack), Plain("ArgSeparator")))

OpeningKind(c) ==
    CASE c = "<" -> "OpeningAngle"
      [] c = "(" -> "OpeningParens"
      [] c = "{" -> "OpeningCurly"
      [] c = Backtick -> "OpeningBacktick"

HandleOpening ==
    /\ ReadsAny("operator", Chars({"<", "(", "{", Backtick}))
    /\ Shift(Append(stack, Bracket(OpeningKind(This.text[1]), This.from)))

\* Bug: both brackets get the place of the first.
OpenTwiceAtOnce ==
    /\ ReadsAny("operator", {<<"<", "<">>})
    /\ Shift(stack \o <<Bracket("OpeningAngle", This.from),
                        Bracket("OpeningAngle", This.from)>>)

\* `<<` that no operator consumed
HandleOpeningTwice ==
    /\ ReadsAny("operator", {<<"<", "<">>})
    /\ Shift(stack \o <<Bracket("OpeningAngle", This.from),
                        Bracket("OpeningAngle", This.to)>>)

CloseAngle(st, at) ==
    LET closed == Append(WithLastArg(st), Bracket("ClosingAngle", at))
    IN  OrElse(TryReduceAsTemplateIdentifier(closed),
               TryReduceAsPlaceholder(text, "OpeningAngle", closed), closed)

HandleClosingAngle ==
    ReadsAny("operator", Chars({">"})) /\ Shift(CloseAngle(stack, This.from))

HandleClosingAngleTwice ==
    /\ ReadsAny("operator", {<<">", ">">>})
    /\ Shift(CloseAngle(CloseAngle(stack, This.from), This.to))

\* `(` directly behind `)` means that this was the part of a function pointer
\* in front of its arguments.
HandleClosingParens ==
    LET isPtr == AheadIs(1, "operator", Chars({"("}))
        closed == Append(IF isPtr THEN stack ELSE WithLastArg(stack),
                         Bracket("ClosingParens", This.from))
    IN  /\ ReadsAny("operator", Chars({")"}))
        /\ Shift(OrElse(IF isPtr THEN TryReduceAsFunctionPtr(closed)
                                 ELSE TryReduceAsFunctionContext(closed),
                        TryReduceAsPlaceholder(text, "OpeningParens", closed),
                        closed))

HandleClosingCurly ==
    /\ ReadsAny("operator", Chars({"}"}))
    /\ Shift(TryReduceAsPlaceholder(text, "OpeningCurly",
                 Append(stack, Bracket("ClosingCurly", This.from))))

\* unwrap_msvc_like_function: of `ret ns::fun(args)' the scopes and the
\* function stay, in front of them a space may be left.
Unwrapped(st) ==
    LET scoped == Front(st)
        typed == Without(scoped, "ScopeSequence")
        quoted == Without(typed, "Type")
        rest == IgnoreSpace(Front(quoted))
    IN  [stack |-> rest \o SubSeq(st, Len(typed) + 1, Len(st)),
         asserts |-> Ends(quoted, "OpeningBacktick") /\ ~Ends(rest, "ScopeSequence")]

HandleSingleQuote ==
    LET function == TryReduceAsFunctionIdentifier(stack)
        isFunction == function # stack
        quoted == <<"OpeningBacktick", "ScopeSequence", "Identifier">>
        closed == Append(stack, Bracket("ClosingSingleQuote", This.from))
    IN  /\ ReadsAny("operator", Chars({"'"}))
        /\ Go(1, IF isFunction THEN Unwrapped(function).stack
                 ELSE IF IsSuffixOf(quoted, stack)
                 THEN RemoveSuffix(stack, 3) \o
                          SubSeq(stack, Len(stack) - 1, Len(stack))
                 ELSE OrElse(TryReduceAsPlaceholder(text, "OpeningBacktick", closed),
                             TryReduceAsPlaceholder(text, "ClosingSingleQuote", closed),
                             closed))
        /\ asserted' = (isFunction => Unwrapped(function).asserts)

\* A destructor.
HandleTilde ==
    /\ ReadsAny("operator", Chars({"~"}))
    /\ IF Ahead(1, "identifier")
       THEN Go(2, Append(stack, Identifier(SubSeq(text, This.from,
                                                  tokens[cursor + 1].to))))
       ELSE Go(1, stack)
    /\ UNCHANGED asserted

\* +0x12 behind, and module! in front of, the functions of msvc's stacktrace.
HandlePlus ==
    /\ ReadsAny("operator", Chars({"+"}))
    /\ Go(IF Ahead(1, "identifier") /\ Head(tokens[cursor + 1].text) = "0x"
          THEN 2 ELSE 1, stack)
    /\ UNCHANGED asserted

HandleExclamationMark ==
    ReadsAny("operator", Chars({"!"})) /\ Shift(Without(stack, "Identifier"))

HandledKeywords ==
    TypeKeywords \cup Chars({"class", "struct", "enum", "const", "volatile",
                             "noexcept", "operator"})

HandledOperators ==
    Chars({"&", "*", ",", "<", ">", "(", ")", "{", "}", Backtick, "'", "~", "+", "!"})
        \cup {<<"&", "&">>, <<":", ":">>, <<"<", "<">>, <<">", ">">>}

\* Any other keyword or operator is passed over.
Ignore ==
    /\ \/ Reads("keyword") /\ This.text \notin HandledKeywords
       \/ Reads("operator") /\ This.text \notin HandledOperators
    /\ Shift(stack)

-----------------------------------------------------------------------------
\* The end of the name: parse_type and parse_function.

AtEnd == Parsing /\ cursor > Len(tokens)

Finalizes(st, kind) == Len(st) = 1 /\ st[1].is = kind

\* The last token of kind, or unrecognized.
Finalized(st, kind) == IF Finalizes(st, kind) THEN st ELSE <<>>

FinishType ==
    /\ AtEnd /\ content.as = "type"
    /\ result' = Finalized(TryReduceAsType(stack), "Type")
    /\ stack' = TryReduceAsType(stack)
    /\ UNCHANGED <<content, tokens, cursor, hasConversionOperator, asserted>>

\* gcc prints `<lambda()>`, which is no function, hence the second attempt.
FinishFunction ==
    LET converts == hasConversionOperator /\ ConversionAsserts(stack)
        identified ==
            IF converts THEN ReduceAsConversionOperator(stack)
            ELSE IF Ends(stack, "FunctionIdentifier") THEN stack
            ELSE TryReduceAsFunctionIdentifier(stack)
        function == TryReduceAsFunction(identified)
        parsed == IF Finalizes(function, "Function") THEN function
                  ELSE TryReduceAsType(function)
    IN  /\ AtEnd /\ content.as = "function"
        /\ stack' = parsed
        /\ result' = IF Finalizes(parsed, "Function") THEN parsed
                     ELSE Finalized(parsed, "Type")
        /\ asserted' = (hasConversionOperator => converts)
        /\ UNCHANGED <<content, tokens, cursor, hasConversionOperator>>

Next ==
    \/ MergeBuiltins \/ HandleSpace \/ HandleIdentifier \/ HandleTypeKeyword
    \/ HandleTypeContext \/ HandleConst \/ HandleVolatile \/ HandleNoexcept
    \/ HandleReference \/ HandlePointer
    \/ HandleBracketOperator \/ HandleLeftShiftOperator \/ HandleSymbolOperator
    \/ HandleKeywordOperator \/ HandleConversionOperator
    \/ HandleScopeResolution \/ HandleComma \/ HandleOpening
    \/ HandleOpeningTwice \/ HandleClosingAngle \/ HandleClosingAngleTwice
    \/ HandleClosingParens \/ HandleClosingCurly \/ HandleSingleQuote
    \/ HandleTilde \/ HandlePlus \/ HandleExclamationMark \/ Ignore
    \/ FinishType \/ FinishFunction

Spec == Init /\ [][Next]_vars

-----------------------------------------------------------------------------
\* The assertions of the parser hold for every name a compiler spells: no
\* spec is given twice, no unexpected token is dropped.
ParserAssertionsHold == asserted

\* However a type or a function is spelled, the parser finds its structure.
NamesAreUnderstood == result # Pending => result = <<content.of>>

\* What is printed is the outline of what was spelled.
PrintsOutline ==
    result # Pending =>
        Printed(text, result) =
            IF content.of.is = "Type" THEN Outline(content.of, FALSE)
            ELSE OutlineFunction(content.of)

=============================================================================

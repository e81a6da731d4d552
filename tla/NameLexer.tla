------------------------------ MODULE NameLexer ------------------------------
(***************************************************************************)
(* The lexer of type and function names.  A name is a sequence of pieces:  *)
(* a character that can begin an operator or punctuator is a piece of its  *)
(* own, and so is a space; what lies between is split where the parser or  *)
(* the printer looks into it ("__", "0x", digits).                         *)
(***************************************************************************)
EXTENDS Integers, Sequences, SequencesExt

Space == " "

\* The character itself is not allowed in the strings of TLA+.
Backtick == "backtick"

\* The arrays of lexing::texts.
SpecKeywords == {"const", "constexpr", "volatile", "noexcept", "static"}

ContextKeywords == {"operator", "struct", "class", "enum"}

TypeKeywords ==
    {<<w>> : w \in {"auto", "void", "bool", "char", "char8_t", "char16_t",
                    "char32_t", "wchar_t", "double", "float", "int", "long",
                    "short", "signed", "unsigned"}}
        \cup {<<"__", "int64">>}

OtherKeywords ==
    {"public", "protected", "private", "new", "delete", "co_await",
     "and", "or", "xor", "not", "bitand", "bitor", "compl", "and_eq", "or_eq",
     "xor_eq", "not_eq"}

Keywords ==
    TypeKeywords
        \cup {<<w>> : w \in SpecKeywords \cup ContextKeywords \cup OtherKeywords}

OneCharOperators ==
    {"{", "}", "[", "]", "(", ")", Backtick, "'", "<", ">", "=", "+", "-", "*", "/",
     "%", "~", "&", "|", "^", "!", ".", ";", ",", ":", "?"}

Operators ==
    {<<c>> : c \in OneCharOperators}
        \cup {<<c, "=">> : c \in {"=", "!", "<", ">", "+", "-", "*", "/", "%",
                                  "&", "|", "^"}}
        \cup {<<c, c>> : c \in {"+", "-", "<", ">", "&", "|", ":"}}
        \cup {<<"<", "<", "=">>, <<">", ">", "=">>, <<"<", "=", ">">>,
              <<".", "*">>, <<"-", ">">>, <<"-", ">", "*">>, <<".", ".", ".">>,
              <<"<", ":">>, <<":", ">">>, <<"<", "%">>, <<"%", ">">>}

\* The end of the longest run from pos on that stays in a set of positions.
RunEnd(pos, positions) == Max({n \in positions : pos .. n \subseteq positions})

\* Bug: the first operator that fits is taken.
ShortestOperatorEnd(name, pos) == pos

\* next_as_op_or_punctuator: longest-prefix matching.
OperatorEnd(name, pos) ==
    Max({n \in pos .. Min({pos + 2, Len(name)}) :
            SubSeq(name, pos, n) \in Operators})

InIdentifier(piece) == piece # Space /\ piece \notin OneCharOperators

Token(class, name, from, to) ==
    [class |-> class, text |-> SubSeq(name, from, to), from |-> from, to |-> to]

\* find_next
FindNext(name, pos) ==
    IF name[pos] = Space
    THEN Token("space", name, pos, RunEnd(pos, {i \in DOMAIN name : name[i] = Space}))
    ELSE IF name[pos] \in OneCharOperators
    THEN Token("operator", name, pos, OperatorEnd(name, pos))
    ELSE LET end == RunEnd(pos, {i \in DOMAIN name : InIdentifier(name[i])})
             class == IF SubSeq(name, pos, end) \in Keywords
                      THEN "keyword" ELSE "identifier"
         IN  Token(class, name, pos, end)

\* The tokens that calls of next() return.  Runs of several spaces are
\* filtered out.
Lex(name) ==
    LET from[pos \in 1 .. Len(name) + 1] ==
            IF pos > Len(name) THEN <<>>
            ELSE LET token == FindNext(name, pos)
                     rest == from[token.to + 1]
                 IN  IF token.class = "space" /\ token.from < token.to
                     THEN rest ELSE <<token>> \o rest
    IN  from[1]

=============================================================================

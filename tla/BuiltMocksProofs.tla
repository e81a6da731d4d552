--------------------------- MODULE BuiltMocksProofs ---------------------------
(***************************************************************************)
(* What holds of a mock with any overloads: which overload a call reaches, *)
(* whose expectations serve it, and to whom reports go.  Matchers and      *)
(* actions are those of any program.                                       *)
(***************************************************************************)
EXTENDS BuiltMocks, FoldProofs, SequenceTheorems, FunctionTheorems

-----------------------------------------------------------------------------
\* Signatures.

IsSignature(s) == s = Signature(s.conv, s.ret, s.params, s.const, s.ref, s.noexcept)

\* The traits of the library are such: they replace a field of the signature
\* without its convention.
LEMMA TraitReplaces ==
    ASSUME NEW s, NEW v, NEW bare,
           bare = Signature(DefaultConvention, s.ret, s.params, s.const, s.ref, s.noexcept)
    PROVE  /\ ApplyTrait(s, [bare EXCEPT !.noexcept = v]) =
                 Signature(s.conv, s.ret, s.params, s.const, s.ref, v)
           /\ ApplyTrait(s, [bare EXCEPT !.ref = v]) =
                 Signature(s.conv, s.ret, s.params, s.const, v, s.noexcept)
           /\ ApplyTrait(s, [bare EXCEPT !.const = v]) =
                 Signature(s.conv, s.ret, s.params, v, s.ref, s.noexcept)
           /\ ApplyTrait(s, [bare EXCEPT !.params = <<v>> \o @]) =
                 Signature(s.conv, s.ret, <<v>> \o s.params, s.const, s.ref, s.noexcept)
  BY DEF Signature, ApplyTrait, AddCallConvention, HasDefaultCallConvention

\* What the traits make of a signature, field by field.
LEMMA TraitsOf ==
    ASSUME NEW s, IsSignature(s)
    PROVE  /\ RemoveCallConvention(s) =
                 Signature(DefaultConvention, s.ret, s.params, s.const, s.ref, s.noexcept)
           /\ RemoveNoexcept(s) =
                 Signature(s.conv, s.ret, s.params, s.const, s.ref, FALSE)
           /\ AddNoexcept(s) = Signature(s.conv, s.ret, s.params, s.const, s.ref, TRUE)
           /\ RemoveRefQualifier(s) =
                 Signature(s.conv, s.ret, s.params, s.const, "any", s.noexcept)
           /\ RemoveConstQualifier(s) =
                 Signature(s.conv, s.ret, s.params, FALSE, s.ref, s.noexcept)
           /\ AddConstQualifier(s) =
                 Signature(s.conv, s.ret, s.params, TRUE, s.ref, s.noexcept)
           /\ AddLvalueRefQualifier(s) =
                 Signature(s.conv, s.ret, s.params, s.const, "lvalue", s.noexcept)
           /\ AddRvalueRefQualifier(s) =
                 Signature(s.conv, s.ret, s.params, s.const, "rvalue", s.noexcept)
           /\ \A type : PrependParam(s, type) =
                 Signature(s.conv, s.ret, <<type>> \o s.params, s.const, s.ref, s.noexcept)
<1>1. RemoveCallConvention(s) =
          Signature(DefaultConvention, s.ret, s.params, s.const, s.ref, s.noexcept)
  <2>1. s = [conv |-> s.conv, ret |-> s.ret, params |-> s.params, const |-> s.const,
             ref |-> s.ref, noexcept |-> s.noexcept]
    BY DEF IsSignature, Signature
  <2> QED BY <2>1 DEF RemoveCallConvention, Signature
<1>2. RemoveNoexcept(s) =
          Signature(s.conv, s.ret, s.params, s.const, s.ref, FALSE)
  BY <1>1, TraitReplaces, Zenon DEF RemoveNoexcept
<1>3. AddNoexcept(s) =
          Signature(s.conv, s.ret, s.params, s.const, s.ref, TRUE)
  BY <1>1, TraitReplaces, Zenon DEF AddNoexcept
<1>4. RemoveRefQualifier(s) =
          Signature(s.conv, s.ret, s.params, s.const, "any", s.noexcept)
  BY <1>1, TraitReplaces, Zenon DEF RemoveRefQualifier
<1>5. RemoveConstQualifier(s) =
          Signature(s.conv, s.ret, s.params, FALSE, s.ref, s.noexcept)
  BY <1>1, TraitReplaces, Zenon DEF RemoveConstQualifier
<1>6. AddConstQualifier(s) =
          Signature(s.conv, s.ret, s.params, TRUE, s.ref, s.noexcept)
  BY <1>1, TraitReplaces, Zenon DEF AddConstQualifier
<1>7. AddLvalueRefQualifier(s) =
          Signature(s.conv, s.ret, s.params, s.const, "lvalue", s.noexcept)
  BY <1>1, TraitReplaces, Zenon DEF AddLvalueRefQualifier
<1>8. AddRvalueRefQualifier(s) =
          Signature(s.conv, s.ret, s.params, s.const, "rvalue", s.noexcept)
  BY <1>1, TraitReplaces, Zenon DEF AddRvalueRefQualifier
<1>9. ASSUME NEW type
      PROVE  PrependParam(s, type) =
                 Signature(s.conv, s.ret, <<type>> \o s.params, s.const, s.ref, s.noexcept)
  BY <1>1, TraitReplaces, Zenon DEF PrependParam
<1> QED BY <1>1, <1>2, <1>3, <1>4, <1>5, <1>6, <1>7, <1>8, <1>9

\* What is made of fields is a signature with these fields.
LEMMA SignatureFields ==
    ASSUME NEW conv, NEW ret, NEW params, NEW const, NEW ref, NEW noexcept
    PROVE  LET s == Signature(conv, ret, params, const, ref, noexcept)
           IN  /\ IsSignature(s)
               /\ s.conv = conv /\ s.ret = ret /\ s.params = params
               /\ s.const = const /\ s.ref = ref /\ s.noexcept = noexcept
  BY DEF Signature, IsSignature

\* Without their qualifiers, signatures are told apart by what is left.
LEMMA DecayOf ==
    ASSUME NEW s, IsSignature(s)
    PROVE  /\ Decay(s) =
                 Signature(DefaultConvention, s.ret, s.params, FALSE, "any", FALSE)
           /\ Decay(RemoveCallConvention(s)) = Decay(s)
           /\ ParamList(s) = s.params
<1> DEFINE a == RemoveCallConvention(s)
           b == RemoveNoexcept(a)
           c == RemoveConstQualifier(b)
           d == RemoveRefQualifier(c)
<1> USE DEF Signature, IsSignature
<1>1. a = Signature(DefaultConvention, s.ret, s.params, s.const, s.ref, s.noexcept)
  BY TraitsOf
<1> HIDE DEF a
<1>2. IsSignature(a)
  BY <1>1
<1>3. b = Signature(DefaultConvention, s.ret, s.params, s.const, s.ref, FALSE)
  BY <1>1, <1>2, TraitsOf
<1> HIDE DEF b
<1>4. IsSignature(b)
  BY <1>3
<1>5. c = Signature(DefaultConvention, s.ret, s.params, FALSE, s.ref, FALSE)
  BY <1>3, <1>4, TraitsOf
<1> HIDE DEF c
<1>6. IsSignature(c)
  BY <1>5
<1>7. d = Signature(DefaultConvention, s.ret, s.params, FALSE, "any", FALSE)
  BY <1>5, <1>6, TraitsOf
<1> HIDE DEF d
<1>8. Decay(s) = d
  BY Zenon DEF Decay, a, b, c, d
<1>9. RemoveCallConvention(a) = a
  BY <1>1, <1>2, TraitsOf
<1>10. Decay(a) = d
  BY <1>9, Zenon DEF Decay, a, b, c, d
<1>11. ParamList(s) = d.params
  BY <1>8, Zenon DEF ParamList
<1> QED BY <1>7, <1>8, <1>10, <1>11 DEF a

-----------------------------------------------------------------------------
\* Specifiers.

NoSpecifiers == [const |-> FALSE, ref |-> "any", noexcept |-> FALSE]

SpecifierInfos == [const : BOOLEAN, ref : Categories, noexcept : BOOLEAN]

InfoWith(const, lvalue, rvalue, noexcept) ==
    [const |-> const,
     ref |-> IF lvalue THEN "lvalue" ELSE IF rvalue THEN "rvalue" ELSE "any",
     noexcept |-> noexcept]

\* What the specifiers at some positions amount to.
InfoOf(specs, positions) ==
    LET Has(token) == \E k \in positions : specs[k] = token
    IN  InfoWith(Has("const"), Has("&"), Has("&&"), Has("noexcept"))

\* One specifier sets its flag.
LEMMA ParseOne ==
    ASSUME NEW const \in BOOLEAN, NEW lvalue \in BOOLEAN, NEW rvalue \in BOOLEAN,
           NEW noexcept \in BOOLEAN, NEW token \in Specifiers,
           ~((lvalue \/ token = "&") /\ (rvalue \/ token = "&&"))
    PROVE  ParseSpecifier(InfoWith(const, lvalue, rvalue, noexcept), token) =
               InfoWith(const \/ token = "const", lvalue \/ token = "&",
                        rvalue \/ token = "&&", noexcept \/ token = "noexcept")
<1> USE DEF ParseSpecifier, InfoWith
<1>1. CASE token = "&"
  BY <1>1
<1>2. CASE token = "&&"
  BY <1>2
<1>3. CASE token = "const"
  <2>1. (const \/ token = "const") = TRUE /\ (noexcept \/ token = "noexcept") = noexcept
    BY <1>3
  <2>2. (lvalue \/ token = "&") = lvalue /\ (rvalue \/ token = "&&") = rvalue
    BY <1>3
  <2> QED BY <1>3, <2>1, <2>2
<1>4. CASE token = "noexcept"
  <2>1. (const \/ token = "const") = const /\ (noexcept \/ token = "noexcept") = TRUE
    BY <1>4
  <2>2. (lvalue \/ token = "&") = lvalue /\ (rvalue \/ token = "&&") = rvalue
    BY <1>4
  <2> QED BY <1>4, <2>1, <2>2
<1>5. CASE token \in {"override", "final"}
  BY <1>5
<1> QED BY <1>1, <1>2, <1>3, <1>4, <1>5 DEF Specifiers

ParsesTo(g, specs) ==
    g = [s \in SUBSET DOMAIN specs |->
            IF s = {} THEN NoSpecifiers
            ELSE ParseSpecifier(g[s \ {Max(s)}], specs[Max(s)])]

\* The fold over the specifiers is a function of the prefix already read.
LEMMA ParseIsDefined ==
    ASSUME NEW specs \in Seq(Specifiers)
    PROVE  \E g : /\ ParsesTo(g, specs)
                  /\ FoldLeft(ParseSpecifier, NoSpecifiers, specs) = g[DOMAIN specs]
<1> DEFINE n == Len(specs)
           step == [vk \in SpecifierInfos \X (1 .. n) |-> ParseSpecifier(vk[1], specs[vk[2]])]
<1>1. n \in Nat /\ DOMAIN specs = 1 .. n
  OBVIOUS
<1>2. ASSUME NEW v \in SpecifierInfos, NEW k \in 1 .. n
      PROVE  /\ step[<<v, k>>] = ParseSpecifier(v, specs[k])
             /\ step[<<v, k>>] \in SpecifierInfos
  <2>1. step[<<v, k>>] = ParseSpecifier(v, specs[k])
    OBVIOUS
  <2>2. ParseSpecifier(v, specs[k]) \in SpecifierInfos
    <3>1. specs[k] \in Specifiers
      OBVIOUS
    <3> QED BY <3>1 DEF ParseSpecifier, SpecifierInfos, Specifiers, Categories
  <2> QED BY <2>1, <2>2
<1> HIDE DEF step, n
<1>3. PICK h : Folds(h, n, NoSpecifiers, step)
  BY <1>1, FoldExists
<1>4. ASSUME NEW s \in SUBSET (1 .. n)
      PROVE  h[s] = IF s = {} THEN NoSpecifiers
                    ELSE step[<<h[s \ {Max(s)}], Max(s)>>]
  BY <1>3, Zenon DEF Folds
<1>5. ASSUME NEW s \in SUBSET (1 .. n), s # {}
      PROVE  Max(s) \in 1 .. n /\ s \ {Max(s)} \in SUBSET (1 .. n)
  <2>1. s \in SUBSET (0 .. n)
    OBVIOUS
  <2> QED BY <1>1, <1>5, <2>1, MaxProperties
<1> DEFINE I == (SUBSET (1 .. n)) \X SpecifierInfos
<1>6. \A s \in SUBSET (1 .. n) : h[s] \in SpecifierInfos
  <2>1. <<{}, h[{}]>> \in I
    <3>1. h[{}] = NoSpecifiers
      BY <1>4
    <3>2. {} \in SUBSET (1 .. n)
      OBVIOUS
    <3>3. NoSpecifiers \in SpecifierInfos
      BY DEF NoSpecifiers, SpecifierInfos, Categories
    <3> QED BY <3>1, <3>2, <3>3
  <2>2. ASSUME NEW s \in SUBSET (1 .. n), s # {},
               <<s \ {Max(s)}, h[s \ {Max(s)}]>> \in I
        PROVE  <<s, h[s]>> \in I
    <3>1. h[s] = step[<<h[s \ {Max(s)}], Max(s)>>]
      BY <1>4, <2>2
    <3> QED BY <1>2, <1>5, <2>2, <3>1
  <2>3. \A s \in SUBSET (1 .. n) : <<s, h[s]>> \in I
    <3> HIDE DEF I
    <3> QED BY <1>1, <2>1, <2>2, FoldInduction
  <2> QED BY <2>3
<1>7. ParsesTo(h, specs)
  <2>1. ASSUME NEW s \in SUBSET (1 .. n)
        PROVE  h[s] = IF s = {} THEN NoSpecifiers
                      ELSE ParseSpecifier(h[s \ {Max(s)}], specs[Max(s)])
    BY <1>2, <1>4, <1>5, <1>6
  <2>2. h = [s \in SUBSET (1 .. n) |-> h[s]]
    BY <1>3, Zenon DEF Folds
  <2> QED BY <1>1, <2>1, <2>2, Zenon DEF ParsesTo
<1> DEFINE g == CHOOSE iter :
                    iter = [s \in SUBSET DOMAIN specs |->
                               IF s = {} THEN NoSpecifiers
                               ELSE ParseSpecifier(iter[s \ {Max(s)}], specs[Max(s)])]
<1>8. FoldLeft(ParseSpecifier, NoSpecifiers, specs) = g[DOMAIN specs]
  BY Zenon DEF FoldLeft, MapThenFoldSet
<1>9. ParsesTo(g, specs)
  BY <1>7, Zenon DEF ParsesTo
<1> HIDE DEF g
<1> QED BY <1>8, <1>9

\* Whatever their order, the specifiers are all parsed.
LEMMA SpecifiersParsed ==
    ASSUME NEW specs \in Seq(Specifiers), ~({"&", "&&"} \subseteq ToSet(specs))
    PROVE  FoldLeft(ParseSpecifier, NoSpecifiers, specs) = InfoOf(specs, DOMAIN specs)
<1> DEFINE n == Len(specs)
<1>1. n \in Nat /\ DOMAIN specs = 1 .. n
  OBVIOUS
<1>2. PICK g : /\ ParsesTo(g, specs)
               /\ FoldLeft(ParseSpecifier, NoSpecifiers, specs) = g[DOMAIN specs]
  BY ParseIsDefined
<1> DEFINE I == {<<s, InfoOf(specs, s)>> : s \in SUBSET (1 .. n)}
<1>3. ASSUME NEW s \in SUBSET (1 .. n)
      PROVE  g[s] = IF s = {} THEN NoSpecifiers
                    ELSE ParseSpecifier(g[s \ {Max(s)}], specs[Max(s)])
  BY <1>1, <1>2, Zenon DEF ParsesTo
<1>4. <<{}, g[{}]>> \in I
  <2>1. g[{}] = NoSpecifiers
    BY <1>3
  <2>2. InfoOf(specs, {}) = NoSpecifiers
    BY DEF InfoOf, InfoWith, NoSpecifiers
  <2> QED BY <2>1, <2>2
<1>5. ASSUME NEW s \in SUBSET (1 .. n), s # {},
             <<s \ {Max(s)}, g[s \ {Max(s)}]>> \in I
      PROVE  <<s, g[s]>> \in I
  <2> DEFINE k == Max(s)
             r == s \ {k}
  <2>1. k \in s
    <3>1. s \in SUBSET (0 .. n)
      OBVIOUS
    <3> HIDE DEF I
    <3> QED BY <1>1, <1>5, <3>1, MaxProperties
  <2>2. g[r] = InfoOf(specs, r)
    BY <1>5
  <2>3. g[s] = ParseSpecifier(InfoOf(specs, r), specs[k])
    BY <1>3, <1>5, <2>2
  <2> HIDE DEF k
  <2>4. specs[k] \in Specifiers /\ k \in DOMAIN specs
    BY <2>1
  <2>5. \A token : (\E j \in s : specs[j] = token)
                      <=> specs[k] = token \/ \E j \in r : specs[j] = token
    BY <2>1
  <2>6. ~((\E j \in s : specs[j] = "&") /\ (\E j \in s : specs[j] = "&&"))
    BY <1>1 DEF ToSet
  <2> HIDE DEF r, I
  <2>7. ParseSpecifier(InfoOf(specs, r), specs[k]) = InfoOf(specs, s)
    <3> DEFINE Const == \E j \in r : specs[j] = "const"
               Lvalue == \E j \in r : specs[j] = "&"
               Rvalue == \E j \in r : specs[j] = "&&"
               Throwless == \E j \in r : specs[j] = "noexcept"
    <3>1. InfoOf(specs, r) = InfoWith(Const, Lvalue, Rvalue, Throwless)
      BY Zenon DEF InfoOf
    <3>2. InfoOf(specs, s) =
              InfoWith(\E j \in s : specs[j] = "const", \E j \in s : specs[j] = "&",
                       \E j \in s : specs[j] = "&&", \E j \in s : specs[j] = "noexcept")
      BY Zenon DEF InfoOf
    <3>3. /\ (\E j \in s : specs[j] = "const") = (Const \/ specs[k] = "const")
          /\ (\E j \in s : specs[j] = "&") = (Lvalue \/ specs[k] = "&")
          /\ (\E j \in s : specs[j] = "&&") = (Rvalue \/ specs[k] = "&&")
          /\ (\E j \in s : specs[j] = "noexcept") = (Throwless \/ specs[k] = "noexcept")
      BY <2>5
    <3>4. ~((Lvalue \/ specs[k] = "&") /\ (Rvalue \/ specs[k] = "&&"))
      BY <2>5, <2>6
    <3>5. /\ Const \in BOOLEAN /\ Lvalue \in BOOLEAN
          /\ Rvalue \in BOOLEAN /\ Throwless \in BOOLEAN
      OBVIOUS
    <3>6. InfoOf(specs, s) =
              InfoWith(Const \/ specs[k] = "const", Lvalue \/ specs[k] = "&",
                       Rvalue \/ specs[k] = "&&", Throwless \/ specs[k] = "noexcept")
      BY <3>2, <3>3, Zenon
    <3> HIDE DEF Const, Lvalue, Rvalue, Throwless
    <3> QED BY <2>4, <3>1, <3>4, <3>5, <3>6, ParseOne
  <2> QED BY <2>3, <2>7 DEF I
<1>6. \A s \in SUBSET (1 .. n) : <<s, g[s]>> \in I
  <2> HIDE DEF I, n
  <2> QED BY <1>1, <1>4, <1>5, FoldInduction
<1>7. <<1 .. n, g[1 .. n]>> \in I
  BY <1>6
<1>8. g[1 .. n] = InfoOf(specs, 1 .. n)
  BY <1>7
<1> QED BY <1>1, <1>2, <1>8

-----------------------------------------------------------------------------
\* Methods and the overloads that are made of them.

Has(m, token) == \E k \in DOMAIN m.specs : m.specs[k] = token

RefOf(m) == IF Has(m, "&") THEN "lvalue" ELSE IF Has(m, "&&") THEN "rvalue" ELSE "any"

\* The signature of a method is what its specifiers say.
LEMMA SignatureOfMethod ==
    ASSUME NEW m, IsMethod(m)
    PROVE  MakeSignature(m) =
               Signature(m.conv, m.ret, m.params, Has(m, "const"), RefOf(m), Has(m, "noexcept"))
<1> DEFINE info == FoldLeft(ParseSpecifier, NoSpecifiers, m.specs)
           plain == Signature(m.conv, m.ret, m.params, FALSE, "any", FALSE)
           maybeRef == CASE info.ref = "lvalue" -> AddLvalueRefQualifier(plain)
                         [] info.ref = "rvalue" -> AddRvalueRefQualifier(plain)
                         [] OTHER -> plain
           maybeConst == IF info.const THEN AddConstQualifier(maybeRef) ELSE maybeRef
           made == IF info.noexcept THEN AddNoexcept(maybeConst) ELSE maybeConst
           Is(s, const, ref, noexcept) ==
               /\ IsSignature(s)
               /\ s.conv = m.conv /\ s.ret = m.ret /\ s.params = m.params
               /\ s.const = const /\ s.ref = ref /\ s.noexcept = noexcept
<1>1. info = InfoOf(m.specs, DOMAIN m.specs)
  BY SpecifiersParsed DEF IsMethod
<1>2. /\ info.const = Has(m, "const") /\ info.ref = RefOf(m)
      /\ info.noexcept = Has(m, "noexcept")
      /\ info.const \in BOOLEAN /\ info.noexcept \in BOOLEAN
  <2>1. info = InfoWith(Has(m, "const"), Has(m, "&"), Has(m, "&&"), Has(m, "noexcept"))
    BY <1>1, Zenon DEF InfoOf, Has
  <2>2. Has(m, "const") \in BOOLEAN /\ Has(m, "noexcept") \in BOOLEAN
    BY DEF Has
  <2> HIDE DEF info
  <2> QED BY <2>1, <2>2 DEF InfoWith, RefOf
<1>3. MakeSignature(m) = made
  BY Zenon DEF MakeSignature, ApplyNormalizedSpecs, NoSpecifiers
<1> HIDE DEF info
<1>4. Is(plain, FALSE, "any", FALSE)
  BY DEF IsSignature, Signature
<1> HIDE DEF plain
<1>5. Is(maybeRef, FALSE, info.ref, FALSE)
  <2>1. CASE info.ref = "lvalue"
    <3>1. maybeRef = Signature(m.conv, m.ret, m.params, FALSE, "lvalue", FALSE)
      BY <1>4, <2>1, TraitsOf
    <3> QED BY <2>1, <3>1 DEF Signature, IsSignature
  <2>2. CASE info.ref = "rvalue"
    <3>1. maybeRef = Signature(m.conv, m.ret, m.params, FALSE, "rvalue", FALSE)
      BY <1>4, <2>2, TraitsOf
    <3> QED BY <2>2, <3>1 DEF Signature, IsSignature
  <2>3. CASE info.ref = "any"
    BY <1>4, <2>3
  <2> QED BY <1>2, <2>1, <2>2, <2>3 DEF RefOf
<1> HIDE DEF maybeRef
<1>6. Is(maybeConst, info.const, info.ref, FALSE)
  <2>1. CASE info.const
    <3>1. maybeConst = AddConstQualifier(maybeRef) /\ info.const = TRUE
      BY <1>2, <2>1, Zenon
    <3>2. AddConstQualifier(maybeRef) =
              Signature(m.conv, m.ret, m.params, TRUE, info.ref, FALSE)
      BY <1>5, TraitsOf
    <3> HIDE DEF maybeConst
    <3>3. Is(maybeConst, TRUE, info.ref, FALSE)
      BY <3>1, <3>2 DEF Signature, IsSignature
    <3> QED BY <3>1, <3>3
  <2>2. CASE ~info.const
    BY <1>2, <1>5, <2>2
  <2> QED BY <2>1, <2>2
<1> HIDE DEF maybeConst
<1>7. Is(made, info.const, info.ref, info.noexcept)
  <2>1. CASE info.noexcept
    <3>1. made = AddNoexcept(maybeConst) /\ info.noexcept = TRUE
      BY <1>2, <2>1, Zenon
    <3>2. AddNoexcept(maybeConst) =
              Signature(m.conv, m.ret, m.params, info.const, info.ref, TRUE)
      BY <1>6, TraitsOf
    <3> HIDE DEF made
    <3>3. Is(made, info.const, info.ref, TRUE)
      BY <3>1, <3>2 DEF Signature, IsSignature
    <3> QED BY <3>1, <3>3
  <2>2. CASE ~info.noexcept
    BY <1>2, <1>6, <2>2
  <2> QED BY <2>1, <2>2
<1> HIDE DEF made
<1> QED BY <1>2, <1>3, <1>7 DEF IsSignature

\* "this", as the overload of a facade with this sees it.
This(m) == IF Has(m, "const") THEN "Self const*" ELSE "Self*"

TargetParams(m, style) ==
    IF style = "with_this" THEN <<This(m)>> \o m.params ELSE m.params

\* Every method has its overload, and that has the qualifiers of the method.
LEMMA OverloadOfMethod ==
    ASSUME NEW methods, NEW style, NEW i \in DOMAIN methods, IsMethod(methods[i])
    PROVE  LET m == methods[i]
           IN  TargetOverloads(methods, style)[i] =
                   Signature(m.conv, m.ret, TargetParams(m, style), Has(m, "const"),
                             RefOf(m), Has(m, "noexcept"))
<1> DEFINE m == methods[i]
           s == MakeSignature(m)
<1>1. s = Signature(m.conv, m.ret, m.params, Has(m, "const"), RefOf(m), Has(m, "noexcept"))
  BY SignatureOfMethod
<1>2. TargetOverloads(methods, style)[i] = IF style = "with_this" THEN PrependThis(s) ELSE s
  BY DEF TargetOverloads
<1> HIDE DEF s, m
<1>3. IsSignature(s) /\ s.const = Has(m, "const") /\ s.params = m.params
  BY <1>1 DEF IsSignature, Signature
<1>4. PrependThis(s) =
          Signature(s.conv, s.ret, <<This(m)>> \o s.params, s.const, s.ref, s.noexcept)
  <2>1. PrependThis(s) = PrependParam(s, This(m))
    BY <1>3 DEF PrependThis, This
  <2> QED BY <1>3, <2>1, TraitsOf
<1>5. PrependThis(s) =
          Signature(m.conv, m.ret, <<This(m)>> \o m.params, Has(m, "const"), RefOf(m),
                    Has(m, "noexcept"))
  BY <1>1, <1>4 DEF Signature
<1> QED BY <1>1, <1>2, <1>5 DEF TargetParams, m

IsParams(params) ==
    /\ IsSequence(params)
    /\ DOMAIN params = 1 .. Len(params)
    /\ \A i \in DOMAIN params : params[i] # "_"

IsOverload(s) ==
    /\ IsSignature(s)
    /\ IsParams(s.params)
    /\ s.const \in BOOLEAN /\ s.noexcept \in BOOLEAN
    /\ s.ref \in Categories

\* Every method declares an overload, in each style.
LEMMA MethodsHaveOverloads ==
    ASSUME NEW methods, NEW style, NEW i \in DOMAIN methods, IsMethod(methods[i])
    PROVE  IsOverload(TargetOverloads(methods, style)[i])
<1> DEFINE m == methods[i]
           s == TargetOverloads(methods, style)[i]
           p == TargetParams(m, style)
<1>1. s = Signature(m.conv, m.ret, p, Has(m, "const"), RefOf(m), Has(m, "noexcept"))
  BY OverloadOfMethod
<1>2. IsParams(p)
  <2> DEFINE S == ToSet(m.params) \ {"_"}
             T == S \cup {This(m)}
  <2>1. m.params \in Seq(S)
    BY DEF IsMethod
  <2>2. This(m) \in T /\ "_" \notin T /\ S \subseteq T
    BY DEF This
  <2> HIDE DEF S, T, m
  <2>3. m.params \in Seq(T)
    BY <2>1, <2>2, SeqMonotonic
  <2>4. <<This(m)>> \in Seq(T)
    <3>1. \A x \in T : <<x>> \in Seq(T)
      OBVIOUS
    <3> QED BY <2>2, <3>1, Zenon
  <2>5. p \in Seq(T)
    BY <2>3, <2>4 DEF TargetParams
  <2> HIDE DEF p
  <2>6. /\ Len(p) \in Nat /\ DOMAIN p = 1 .. Len(p) /\ p = [j \in 1 .. Len(p) |-> p[j]]
        /\ \A j \in DOMAIN p : p[j] \in T
    BY <2>5
  <2> QED BY <2>2, <2>6, Zenon DEF IsParams, IsSequence
<1>3. Has(m, "const") \in BOOLEAN /\ Has(m, "noexcept") \in BOOLEAN /\ RefOf(m) \in Categories
  BY DEF Has, RefOf, Categories
<1> HIDE DEF s, p, m
<1>4. IsSignature(s) /\ s.params = p /\ s.const = Has(m, "const")
      /\ s.ref = RefOf(m) /\ s.noexcept = Has(m, "noexcept")
  BY <1>1 DEF Signature, IsSignature
<1> QED BY <1>2, <1>3, <1>4 DEF IsOverload, s

-----------------------------------------------------------------------------
\* Overload resolution.

\* What the specializations of is_overloadable_with compare.
LEMMA OverloadableMeans ==
    ASSUME NEW a, NEW b, IsSignature(a), IsSignature(b)
    PROVE  IsOverloadableWith(a, b) <=>
               \/ a.params # b.params
               \/ /\ a.const # b.const \/ a.ref # b.ref
                  /\ (a.ref = "any") = (b.ref = "any")
<1>1. ASSUME NEW s, IsSignature(s)
      PROVE  LET n == NormalizeOverload(s)
             IN  /\ ParamList(n) = s.params
                 /\ n.const = s.const /\ n.ref = s.ref
  <2> DEFINE r == RemoveCallConvention(s)
             n == RemoveNoexcept(r)
  <2>1. r = Signature(DefaultConvention, s.ret, s.params, s.const, s.ref, s.noexcept)
    BY <1>1, TraitsOf
  <2> HIDE DEF r
  <2>2. IsSignature(r) /\ r.params = s.params /\ r.const = s.const /\ r.ref = s.ref
    BY <2>1 DEF Signature, IsSignature
  <2>3. n = Signature(r.conv, r.ret, r.params, r.const, r.ref, FALSE)
    BY <2>2, TraitsOf
  <2> HIDE DEF n
  <2>4. IsSignature(n) /\ n.params = s.params /\ n.const = s.const /\ n.ref = s.ref
    BY <2>2, <2>3 DEF Signature, IsSignature
  <2>5. ParamList(n) = n.params
    BY <2>4, DecayOf
  <2>6. NormalizeOverload(s) = n
    BY Zenon DEF NormalizeOverload, n, r
  <2> QED BY <2>4, <2>5, <2>6
<1> DEFINE x == NormalizeOverload(a)
           y == NormalizeOverload(b)
<1>2. /\ ParamList(x) = a.params /\ x.const = a.const /\ x.ref = a.ref
      /\ ParamList(y) = b.params /\ y.const = b.const /\ y.ref = b.ref
  BY <1>1
<1>3. IsOverloadableWith(a, b) <=> ParamList(x) # ParamList(y) \/ QualifiedApart(x, y)
  BY Zenon DEF IsOverloadableWith
<1> HIDE DEF x, y
<1>4. QualifiedApart(x, y) <=> /\ x.const # y.const \/ x.ref # y.ref
                               /\ (x.ref = "any") = (y.ref = "any")
  BY DEF QualifiedApart, Qualification
<1> QED BY <1>2, <1>3, <1>4, Zenon

\* A rank counts conversions: it is zero if nothing is converted.
LEMMA RanksAreNatural ==
    ASSUME NEW s, NEW object, NEW types, NEW n \in Nat, DOMAIN types = 1 .. n
    PROVE  /\ ObjectRank(s, object) \in Nat
           /\ ArgsRank(s, types) \in Nat
           /\ ArgsRank(s, types) = 0
                  <=> \A i \in DOMAIN types : types[i] \in {"_", s.params[i]}
<1> DEFINE converted == {i \in DOMAIN types : types[i] \notin {"_", s.params[i]}}
<1>1. ObjectRank(s, object) \in Nat
  BY DEF ObjectRank
<1>2. IsFiniteSet(converted)
  <2>1. IsFiniteSet(1 .. n)
    BY FS_Interval
  <2>2. converted \subseteq 1 .. n
    OBVIOUS
  <2> HIDE DEF converted
  <2> QED BY <2>1, <2>2, FS_Subset
<1>3. converted = {} <=> \A i \in DOMAIN types : types[i] \in {"_", s.params[i]}
  OBVIOUS
<1>4. ArgsRank(s, types) = Cardinality(converted)
  BY Zenon DEF ArgsRank
<1> HIDE DEF converted
<1>5. Cardinality(converted) \in Nat /\ (Cardinality(converted) = 0 <=> converted = {})
  BY <1>2, FS_CardinalityType, FS_EmptySet
<1> QED BY <1>1, <1>3, <1>4, <1>5

\* The object expression through which overload s is called by its own function.
Suits(object, s) ==
    /\ object.const = s.const
    /\ object.category = IF s.ref = "rvalue" THEN "rvalue" ELSE "lvalue"

\* An overload can be called, without conversions, on an object that suits it.
LEMMA SuitedIsViable ==
    ASSUME NEW s, IsOverload(s), NEW object, Suits(object, s)
    PROVE  /\ IsViable(s, object, s.params)
           /\ ObjectRank(s, object) = 0
           /\ ArgsRank(s, s.params) = 0
<1>1. IsViable(s, object, s.params)
  BY DEF IsOverload, Suits, IsViable, IsConvertible, Categories
<1>2. ObjectRank(s, object) = 0
  BY DEF IsOverload, Suits, ObjectRank, Categories
<1>3. ArgsRank(s, s.params) = 0
  BY RanksAreNatural DEF IsOverload, IsParams, IsSequence
<1> QED BY <1>1, <1>2, <1>3

\* No overload is better for a call than the one the call is made for.
LEMMA NoneIsBetter ==
    ASSUME NEW overloads, NEW s \in ToSet(overloads), IsOverload(s),
           NEW object, Suits(object, s)
    PROVE  Resolve(overloads, object, s.params) \subseteq {s}
<1> SUFFICES ASSUME NEW t \in Resolve(overloads, object, s.params), t # s
             PROVE  FALSE
  OBVIOUS
<1>1. IsBetter(t, s, object, s.params)
  BY SuitedIsViable DEF Resolve
<1>2. /\ ObjectRank(t, object) \in Nat /\ ArgsRank(t, s.params) \in Nat
  BY RanksAreNatural DEF IsOverload, IsParams, IsSequence
<1> QED BY <1>1, <1>2, SuitedIsViable DEF IsBetter

\* It is better than any that can be told apart from it.
LEMMA OwnIsBetter ==
    ASSUME NEW s, IsOverload(s), NEW t, IsOverload(t),
           IsOverloadableWith(s, t) \/ IsOverloadableWith(t, s),
           NEW object, Suits(object, s), IsViable(t, object, s.params)
    PROVE  IsBetter(s, t, object, s.params)
<1>1. /\ ObjectRank(s, object) = 0 /\ ArgsRank(s, s.params) = 0
      /\ ObjectRank(t, object) \in Nat /\ ArgsRank(t, s.params) \in Nat
  BY SuitedIsViable, RanksAreNatural DEF IsOverload, IsParams, IsSequence
<1>2. \/ s.params # t.params
      \/ /\ s.const # t.const \/ s.ref # t.ref
         /\ (s.ref = "any") = (t.ref = "any")
  BY OverloadableMeans DEF IsOverload
<1>3. ArgsRank(t, s.params) # 0 \/ ObjectRank(t, object) # 0
  <2>1. CASE s.params # t.params
    <3>1. PICK i \in DOMAIN s.params : s.params[i] # t.params[i]
      <4>1. Len(t.params) = Len(s.params)
        BY DEF IsViable
      <4> QED BY <2>1, <4>1 DEF IsOverload, IsParams, IsSequence
    <3>2. s.params[i] \notin {"_", t.params[i]}
      BY <3>1 DEF IsOverload, IsParams
    <3>3. Len(s.params) \in Nat /\ DOMAIN s.params = 1 .. Len(s.params)
      BY DEF IsOverload, IsParams, IsSequence
    <3> QED BY <3>2, <3>3, RanksAreNatural
  <2>2. CASE s.const # t.const
    <3>1. object.const = FALSE /\ t.const = TRUE
      BY <2>2 DEF IsOverload, Suits, IsViable
    <3> QED BY <3>1 DEF ObjectRank
  <2>3. CASE s.ref # t.ref /\ (s.ref = "any") = (t.ref = "any")
    <3>1. s.ref \in {"lvalue", "rvalue"} /\ t.ref \in {"lvalue", "rvalue"}
      BY <2>3 DEF IsOverload, Categories
    <3>2. s.ref = "rvalue" /\ t.ref = "lvalue" /\ object.category = "rvalue"
      BY <2>3, <3>1 DEF Suits, IsViable
    <3> QED BY <3>2 DEF ObjectRank
  <2> QED BY <1>2, <2>1, <2>2, <2>3
<1> QED BY <1>1, <1>3 DEF IsBetter

-----------------------------------------------------------------------------
\* The builder.

\* Limits that TimesConfig accepts.
HasLimits(clause) ==
    clause.is = "times" =>
        clause.min \in Nat /\ clause.max \in Nat /\ clause.min <= clause.max

\* What a builder may be, after some of the clauses.
Builders(overload, args, clauses) ==
    LET made == MakeExpectationBuilder(overload, args)
        m == Len(args)
    IN  {b \in [target : {made.target}, policies : Seq(ToSet(made.policies) \cup ToSet(clauses)),
                timesConfigured : BOOLEAN, min : Nat, max : Nat,
                finalizer : {InitFinalize} \cup ToSet(clauses)] :
            /\ b.min <= b.max
            /\ Len(b.policies) >= m + 2
            /\ b.policies[m + 1] = Category(overload.ref)
            /\ b.policies[m + 2] = Constness(overload.const)}

\* The policies of the overload come after those of the arguments.
LEMMA BuilderStarts ==
    ASSUME NEW overload, NEW args, IsSequence(args), NEW clauses
    PROVE  MakeExpectationBuilder(overload, args) \in Builders(overload, args, clauses)
<1> DEFINE made == MakeExpectationBuilder(overload, args)
           m == Len(args)
           own == <<Category(overload.ref), Constness(overload.const)>>
           ofArgs == [i \in DOMAIN args |->
                         ExpectArg(i - 1, MakeArgMatcher(args[i]), "identity")]
           S == ToSet(ofArgs) \cup ToSet(own)
<1>1. /\ made.target = RemoveCallConvention(overload) /\ made.policies = ofArgs \o own
      /\ made.timesConfigured = FALSE /\ made.min = 1 /\ made.max = 1
      /\ made.finalizer = InitFinalize
      /\ made = [target |-> made.target, policies |-> made.policies,
                 timesConfigured |-> FALSE, min |-> 1, max |-> 1,
                 finalizer |-> InitFinalize]
  BY DEF MakeExpectationBuilder
<1>2. m \in Nat /\ DOMAIN args = 1 .. m
  BY DEF IsSequence
<1>3. ofArgs \in Seq(S) /\ Len(ofArgs) = m
  <2>1. \A i \in 1 .. m : ofArgs[i] \in S
    BY <1>2 DEF ToSet
  <2>2. ofArgs = [i \in 1 .. m |-> ofArgs[i]]
    BY <1>2
  <2> HIDE DEF ofArgs, S, m
  <2> QED BY <1>2, <2>1, <2>2
<1>4. own \in Seq(S) /\ Len(own) = 2
      /\ own[1] = Category(overload.ref) /\ own[2] = Constness(overload.const)
  <2>1. own[1] \in S /\ own[2] \in S
    BY DEF ToSet
  <2> HIDE DEF S
  <2> QED BY <2>1
<1> HIDE DEF made, ofArgs, own, S, m
<1>5. /\ made.policies \in Seq(S) /\ Len(made.policies) = m + 2
      /\ made.policies[m + 1] = Category(overload.ref)
      /\ made.policies[m + 2] = Constness(overload.const)
  <2>1. made.policies = ofArgs \o own
    BY <1>1
  <2>2. /\ ofArgs \o own \in Seq(S) /\ Len(ofArgs \o own) = m + 2
        /\ (ofArgs \o own)[m + 1] = own[1] /\ (ofArgs \o own)[m + 2] = own[2]
    <3>1. /\ ofArgs \o own \in Seq(S) /\ Len(ofArgs \o own) = Len(ofArgs) + Len(own)
          /\ \A i \in 1 .. Len(ofArgs) + Len(own) :
                (ofArgs \o own)[i] = IF i <= Len(ofArgs) THEN ofArgs[i]
                                     ELSE own[i - Len(ofArgs)]
      BY <1>3, <1>4, ConcatProperties, Zenon
    <3>2. m + 1 \in 1 .. m + 2 /\ m + 2 \in 1 .. m + 2 /\ (m + 1) - m = 1
          /\ (m + 2) - m = 2 /\ ~(m + 1 <= m) /\ ~(m + 2 <= m)
      BY <1>2
    <3> QED BY <1>3, <1>4, <3>1, <3>2
  <2> QED BY <1>4, <2>1, <2>2, Zenon
<1>6. made.policies \in Seq(ToSet(made.policies) \cup ToSet(clauses))
  <2> DEFINE T == ToSet(made.policies) \cup ToSet(clauses)
  <2>1. \A i \in 1 .. m + 2 : made.policies[i] \in T
    BY <1>5 DEF ToSet
  <2>2. made.policies = [i \in 1 .. m + 2 |-> made.policies[i]]
    BY <1>5
  <2> HIDE DEF T
  <2>3. made.policies \in Seq(T)
    BY <1>2, <2>1, <2>2
  <2> QED BY <2>3 DEF T
<1>7. made \in [target : {made.target},
                policies : Seq(ToSet(made.policies) \cup ToSet(clauses)),
                timesConfigured : BOOLEAN, min : Nat, max : Nat,
                finalizer : {InitFinalize} \cup ToSet(clauses)]
  <2> DEFINE Ps == Seq(ToSet(made.policies) \cup ToSet(clauses))
             Fs == {InitFinalize} \cup ToSet(clauses)
  <2>1. made.policies \in Ps /\ InitFinalize \in Fs
    BY <1>6
  <2> HIDE DEF Ps, Fs
  <2>2. [target |-> made.target, policies |-> made.policies,
         timesConfigured |-> FALSE, min |-> 1, max |-> 1, finalizer |-> InitFinalize]
            \in [target : {made.target}, policies : Ps, timesConfigured : BOOLEAN,
                 min : Nat, max : Nat, finalizer : Fs]
    BY <2>1
  <2> QED BY <1>1, <2>2, Zenon DEF Ps, Fs
<1> QED BY <1>1, <1>2, <1>5, <1>7 DEF Builders, made, m

\* A clause leads from one state the builder may be in to another.
LEMMA BuilderGoesOn ==
    ASSUME NEW overload, NEW args, IsSequence(args), NEW clauses,
           NEW b \in Builders(overload, args, clauses),
           NEW c \in ToSet(clauses), HasLimits(c)
    PROVE  AddClause(b, c) \in Builders(overload, args, clauses)
<1> DEFINE made == MakeExpectationBuilder(overload, args)
           P == ToSet(made.policies) \cup ToSet(clauses)
           F == {InitFinalize} \cup ToSet(clauses)
           m == Len(args)
           Type == [target : {made.target}, policies : Seq(P), timesConfigured : BOOLEAN,
                    min : Nat, max : Nat, finalizer : F]
           Kept(x) == /\ x.min <= x.max
                      /\ Len(x.policies) >= m + 2
                      /\ x.policies[m + 1] = Category(overload.ref)
                      /\ x.policies[m + 2] = Constness(overload.const)
<1>1. \A x : x \in Builders(overload, args, clauses) <=> x \in Type /\ Kept(x)
  BY DEF Builders
<1>2. c \in P /\ c \in F /\ m \in Nat
  BY DEF IsSequence
<1>3. b \in Type /\ Kept(b)
  BY <1>1
<1> HIDE DEF made, P, F, m
<1>4. CASE c.is = "times"
  <2>1. AddClause(b, c) =
            [b EXCEPT !.timesConfigured = TRUE, !.min = c.min, !.max = c.max]
    BY <1>4 DEF AddClause
  <2>2. c.min \in Nat /\ c.max \in Nat /\ c.min <= c.max
    BY <1>4 DEF HasLimits
  <2>3. AddClause(b, c) \in Type /\ Kept(AddClause(b, c))
    BY <1>2, <1>3, <2>1, <2>2
  <2> QED BY <1>1, <2>3
<1>5. CASE c.is # "times" /\ IsFinalizer(c)
  <2>1. AddClause(b, c) = [b EXCEPT !.finalizer = c]
    BY <1>5 DEF AddClause
  <2>2. AddClause(b, c) \in Type /\ Kept(AddClause(b, c))
    BY <1>2, <1>3, <2>1
  <2> QED BY <1>1, <2>2
<1>6. CASE c.is # "times" /\ ~IsFinalizer(c)
  <2>1. AddClause(b, c) = [b EXCEPT !.policies = Append(b.policies, c)]
    BY <1>6 DEF AddClause
  <2>2. /\ Append(b.policies, c) \in Seq(P)
        /\ Len(Append(b.policies, c)) = Len(b.policies) + 1
        /\ \A i \in 1 .. Len(b.policies) : Append(b.policies, c)[i] = b.policies[i]
    BY <1>2, <1>3
  <2>3. AddClause(b, c) \in Type /\ AddClause(b, c).policies = Append(b.policies, c)
        /\ AddClause(b, c).min = b.min /\ AddClause(b, c).max = b.max
    BY <1>3, <2>1, <2>2
  <2>4. m + 1 \in 1 .. Len(b.policies) /\ m + 2 \in 1 .. Len(b.policies)
    BY <1>2, <1>3
  <2>5. Len(b.policies) + 1 >= m + 2
    BY <1>2, <1>3, <2>4
  <2>6. Kept(AddClause(b, c))
    BY <1>3, <2>2, <2>3, <2>4, <2>5
  <2> QED BY <1>1, <2>3, <2>6
<1> QED BY <1>4, <1>5, <1>6

\* Whatever the clauses, an expectation keeps the policies of its overload, and
\* its limits are in order.
LEMMA BuiltIsBuilder ==
    ASSUME NEW overload, NEW args, IsSequence(args), NEW clauses, IsSequence(clauses),
           \A i \in DOMAIN clauses : HasLimits(clauses[i])
    PROVE  Built(overload, args, clauses) \in Builders(overload, args, clauses)
<1> DEFINE n == Len(clauses)
           made == MakeExpectationBuilder(overload, args)
           B == Builders(overload, args, clauses)
           step == [bk \in B \X (1 .. n) |-> AddClause(bk[1], clauses[bk[2]])]
           I == (SUBSET (1 .. n)) \X B
<1>1. n \in Nat /\ DOMAIN clauses = 1 .. n
  BY DEF IsSequence
<1>2. made \in B
  BY BuilderStarts
<1>3. ASSUME NEW b \in B, NEW k \in 1 .. n
      PROVE  step[<<b, k>>] = AddClause(b, clauses[k]) /\ AddClause(b, clauses[k]) \in B
  <2>1. step[<<b, k>>] = AddClause(b, clauses[k])
    <3> HIDE DEF B, n
    <3> QED OBVIOUS
  <2>2. clauses[k] \in ToSet(clauses) /\ HasLimits(clauses[k])
    BY <1>1 DEF ToSet
  <2>3. AddClause(b, clauses[k]) \in B
    BY <2>2, BuilderGoesOn
  <2> QED BY <2>1, <2>3
<1> HIDE DEF B, made, step, n
<1>4. ASSUME NEW s \in SUBSET (1 .. n), s # {}
      PROVE  Max(s) \in 1 .. n /\ s \ {Max(s)} \in SUBSET (1 .. n)
  <2>1. s \in SUBSET (0 .. n)
    OBVIOUS
  <2> QED BY <1>1, <1>4, <2>1, MaxProperties
<1> DEFINE BuildsTo(g) ==
               g = [s \in SUBSET DOMAIN clauses |->
                       IF s = {} THEN made
                       ELSE AddClause(g[s \ {Max(s)}], clauses[Max(s)])]
           Builds(g, s) ==
               g[s] = IF s = {} THEN made
                      ELSE AddClause(g[s \ {Max(s)}], clauses[Max(s)])
<1>5. ASSUME NEW g, g[{}] = made,
             \A s \in SUBSET (1 .. n) :
                s # {} /\ g[s \ {Max(s)}] \in B
                    => g[s] = AddClause(g[s \ {Max(s)}], clauses[Max(s)])
      PROVE  \A s \in SUBSET (1 .. n) : g[s] \in B
  <2>1. <<{}, g[{}]>> \in I
    BY <1>2, <1>5
  <2>2. ASSUME NEW s \in SUBSET (1 .. n), s # {},
               <<s \ {Max(s)}, g[s \ {Max(s)}]>> \in I
        PROVE  <<s, g[s]>> \in I
    BY <1>3, <1>4, <1>5, <2>2
  <2>3. \A s \in SUBSET (1 .. n) : <<s, g[s]>> \in I
    <3> HIDE DEF I
    <3> QED BY <1>1, <2>1, <2>2, FoldInduction
  <2> QED BY <2>3
<1>6. \E h : BuildsTo(h)
  <2>1. PICK h : Folds(h, n, made, step)
    BY <1>1, FoldExists
  <2>2. ASSUME NEW s \in SUBSET (1 .. n)
        PROVE  h[s] = IF s = {} THEN made ELSE step[<<h[s \ {Max(s)}], Max(s)>>]
    BY <2>1, Zenon DEF Folds
  <2>3. h[{}] = made
    BY <2>2
  <2>4. ASSUME NEW s \in SUBSET (1 .. n), s # {}, h[s \ {Max(s)}] \in B
        PROVE  h[s] = AddClause(h[s \ {Max(s)}], clauses[Max(s)])
    BY <1>3, <1>4, <2>2, <2>4
  <2>5. \A s \in SUBSET (1 .. n) : h[s] \in B
    BY <1>5, <2>3, <2>4
  <2>6. ASSUME NEW s \in SUBSET (1 .. n)
        PROVE  Builds(h, s)
    BY <1>4, <2>3, <2>4, <2>5
  <2>7. h = [s \in SUBSET (1 .. n) |-> h[s]]
    BY <2>1, Zenon DEF Folds
  <2> QED BY <1>1, <2>6, <2>7, Zenon
<1> DEFINE g == CHOOSE iter : BuildsTo(iter)
<1>7. Built(overload, args, clauses) = g[DOMAIN clauses]
  BY Zenon DEF Built, FoldLeft, MapThenFoldSet, made
<1>8. BuildsTo(g)
  BY <1>6, Zenon
<1> HIDE DEF g
<1>9. ASSUME NEW s \in SUBSET (1 .. n)
      PROVE  Builds(g, s)
  BY <1>1, <1>8, Zenon
<1>10. \A s \in SUBSET (1 .. n) : g[s] \in B
  BY <1>5, <1>9
<1> QED BY <1>1, <1>7, <1>10 DEF B

-----------------------------------------------------------------------------
\* The inductive invariants.  A later one builds on the ones before.

Locals ==
    {"phase", "method", "overload", "noexcept", "given", "info", "key", "todo",
     "matches", "inapplicable", "noMatches", "report", "use", "chosen", "value"}

Phases ==
    {"idle", "evaluate", "get", "deliver", "consume", "finalize", "returned", "threw",
     "terminated"}

\* The mock stays what was declared, and handlers have their locals.
FrameInv ==
    /\ \E kind \in DOMAIN Programs : program \in Programs[kind]
    /\ mock = Declared(program)
    /\ DOMAIN running = Locals
    /\ running.phase \in Phases

\* All reporters but the last are destroyed, except one that is in use.
ReporterInv ==
    /\ DOMAIN reporter = {"installed", "destroyed"}
    /\ reporter.installed \in 1 .. program.reporters + 1
    /\ \/ running.use = NoUse
       \/ \E k \in 1 .. reporter.installed : running.use = [to |-> k, owned |-> TRUE]
    /\ running.phase = "deliver" <=> running.use # NoUse
    /\ reporter.destroyed = (1 .. reporter.installed - 1) \ {running.use.to}

\* The locals of a handler that is not running.
LEMMA IdleLocals ==
    /\ DOMAIN Idle = Locals
    /\ Idle.phase = "idle" /\ Idle.use = NoUse /\ Idle.method = 0
    /\ Idle.overload = <<>> /\ Idle.chosen = 0 /\ Idle.todo = 0
    /\ Idle.matches = <<>> /\ Idle.inapplicable = <<>> /\ Idle.noMatches = <<>>
  BY DEF Idle, Locals

\* The program and its declarations are chosen by Init and kept by every step.
LEMMA FrameStarts == Init => FrameInv
  BY IdleLocals DEF Init, FrameInv, Phases

LEMMA FramePreserved == FrameInv /\ [Next]_vars => FrameInv'
<1> SUFFICES ASSUME FrameInv, [Next]_vars
             PROVE  FrameInv'
  OBVIOUS
<1> DEFINE Ok(r) == DOMAIN r = Locals /\ r.phase \in Phases
<1>1. Ok(running) /\ Ok(Idle)
  BY IdleLocals DEF FrameInv, Phases
<1>2. program' = program /\ mock' = mock
  BY Zenon DEF Next, vars, Expect, Destroy, CallDirect, CallMethod, Begin, Evaluate, Decide,
            Consume, Finalize, GetTheReporter, Deliver, InstallReporter
<1>3. Ok(running')
  <2>1. ASSUME NEW object \in program.objects, NEW stated \in program.expectations,
               Expect(object, stated)
        PROVE  Ok(running')
    BY <1>1, <2>1, Zenon DEF Expect
  <2>2. ASSUME NEW key, NEW at, Destroy(key, at)
        PROVE  Ok(running')
    BY <2>2 DEF Destroy, Idle, Locals, Phases
  <2>3. ASSUME NEW overload, NEW method, NEW args, Begin(overload, method, args)
        PROVE  Ok(running')
    BY <2>3 DEF Begin, Idle, Locals, Phases
  <2>4. ASSUME Evaluate
        PROVE  Ok(running')
    <3> DEFINE next == [running EXCEPT !.todo = running.todo - 1]
    <3>1. Ok(next)
      BY <1>1 DEF Locals
    <3>2. \E phase \in {"evaluate", "get"} : \E report, noMatches, inapplicable, matches :
             running' \in {next, [next EXCEPT !.phase = phase, !.report = report],
                           [next EXCEPT !.noMatches = noMatches],
                           [next EXCEPT !.inapplicable = inapplicable],
                           [next EXCEPT !.matches = matches]}
      BY <2>4, Zenon DEF Evaluate
    <3> HIDE DEF next
    <3> QED BY <3>1, <3>2 DEF Locals, Phases
  <2>5. ASSUME Decide
        PROVE  Ok(running')
    <3>1. \E phase \in {"consume", "get"} : \E report, chosen :
             running' \in {[running EXCEPT !.phase = phase, !.report = report],
                           [running EXCEPT !.phase = phase, !.chosen = chosen],
                           [running EXCEPT !.phase = phase, !.chosen = chosen,
                                           !.report = report]}
      BY <2>5, Zenon DEF Decide
    <3> QED BY <1>1, <3>1 DEF Locals, Phases
  <2>6. ASSUME Consume
        PROVE  Ok(running')
    <3>1. \E phase \in {"terminated", "finalize"} : \E args :
             running' \in {[running EXCEPT !.phase = phase],
                           [running EXCEPT !.phase = phase, !.info.args = args]}
      BY <2>6, Zenon DEF Consume
    <3> QED BY <1>1, <3>1 DEF Locals, Phases
  <2>7. ASSUME Finalize
        PROVE  Ok(running')
    <3>1. \E phase \in {"terminated", "threw", "returned"} : \E value :
             running' \in {[running EXCEPT !.phase = phase],
                           [running EXCEPT !.phase = phase, !.value = value]}
      BY <2>7, Zenon DEF Finalize, Escaped
    <3> QED BY <1>1, <3>1 DEF Locals, Phases
  <2>8. ASSUME GetTheReporter
        PROVE  Ok(running')
    BY <1>1, <2>8 DEF GetTheReporter, Locals, Phases
  <2>9. ASSUME Deliver
        PROVE  Ok(running')
    <3>1. Escaped \in {"terminated", "threw"}
      BY DEF Escaped
    <3>2. \E phase \in {"evaluate", "consume", "terminated", "threw"} : \E use :
             running' = [running EXCEPT !.use = use, !.phase = phase]
      BY <2>9, <3>1 DEF Deliver
    <3> QED BY <1>1, <3>2 DEF Locals, Phases
  <2>10. ASSUME running' = running
         PROVE  Ok(running')
    BY <1>1, <2>10
  <2>11. InstallReporter => running' = running
    BY DEF InstallReporter
  <2>12. UNCHANGED vars => running' = running
    BY DEF vars
  <2>13. ASSUME NEW object, NEW passed, CallDirect(object, passed)
         PROVE  Ok(running')
    BY <2>3, <2>13, Zenon DEF CallDirect
  <2>14. ASSUME NEW i, NEW passed, CallMethod(i, passed)
         PROVE  Ok(running')
    BY <2>3, <2>14, Zenon DEF CallMethod
  <2> HIDE DEF Ok
  <2> QED BY <2>1, <2>2, <2>4, <2>5, <2>6, <2>7, <2>8, <2>9, <2>10, <2>11, <2>12, <2>13,
             <2>14, Zenon DEF Next
<1> QED BY <1>2, <1>3, Zenon DEF FrameInv

\* The program of a behaviour is one of Programs, and what the compiler made of
\* its declaration (Mock.hpp, macros/Facade.hpp) does not change while it runs.
THEOREM FrameHolds == Spec => []FrameInv
<1>1. Init => FrameInv
  BY FrameStarts
<1>2. FrameInv /\ [Next]_vars => FrameInv'
  BY FramePreserved
<1> QED BY <1>1, <1>2, PTL DEF Spec

\* What the assumptions on Programs say of the program that runs.
LEMMA ProgramAssumed ==
    ASSUME FrameInv
    PROVE  /\ program.reporters \in Nat
           /\ program.style \in Styles
           /\ \A i \in DOMAIN program.methods : IsMethod(program.methods[i])
           /\ IsSequence(program.methods)
           /\ \A stated \in program.expectations :
                 /\ IsSequence(stated.args) /\ IsSequence(stated.clauses)
                 /\ \A i \in DOMAIN stated.clauses :
                       IsClause(stated.clauses[i]) /\ HasLimits(stated.clauses[i])
           /\ \A passed \in program.calls : IsSequence(passed.args)
<1>1. PICK kind \in DOMAIN Programs : program \in Programs[kind]
  BY DEF FrameInv
<1>2. ASSUME NEW clause, IsClause(clause) PROVE HasLimits(clause)
  BY <1>2 DEF IsClause, HasLimits, IsFinalizer
<1> QED BY <1>1, <1>2, ProgramsAssumption, Zenon

\* The reporter: installed before any report, then action by action.
LEMMA ReporterStarts == Init /\ FrameInv => ReporterInv
<1> SUFFICES ASSUME Init, FrameInv
             PROVE  ReporterInv
  OBVIOUS
<1>1. reporter = [installed |-> 1, destroyed |-> {}] /\ running = Idle
  BY DEF Init, InitReporter
<1>2. program.reporters \in Nat
  BY ProgramAssumed
<1> QED BY <1>1, <1>2, IdleLocals DEF ReporterInv, NoUse

\* A report holds a shared_ptr to the reporter it goes to.
LEMMA ReporterInUse ==
    ASSUME ReporterInv, running.use # NoUse
    PROVE  running.use.to \in 1 .. reporter.installed /\ running.use.owned
<1>1. PICK k \in 1 .. reporter.installed : running.use = [to |-> k, owned |-> TRUE]
  BY Zenon DEF ReporterInv
<1>2. running.use.to = k
  BY <1>1
<1>3. running.use.owned
  BY <1>1
<1> QED BY <1>2, <1>3

LEMMA ReporterPreserved == FrameInv /\ ReporterInv /\ [Next]_vars => ReporterInv'
<1> SUFFICES ASSUME FrameInv, ReporterInv, [Next]_vars
             PROVE  ReporterInv'
  OBVIOUS
<1>1. program' = program
  BY FramePreserved, Zenon DEF Next, vars, Expect, Destroy, CallDirect, CallMethod, Begin, Evaluate,
            Decide, Consume, Finalize, GetTheReporter, Deliver, InstallReporter
<1>2. program.reporters \in Nat /\ DOMAIN running = Locals
  BY ProgramAssumed DEF FrameInv
<1> DEFINE Quiet == /\ reporter' = reporter
                    /\ running'.use = running.use
                    /\ running.phase # "deliver" /\ running'.phase # "deliver"
<1>3. ASSUME Quiet
      PROVE  ReporterInv'
  BY <1>1, <1>3 DEF ReporterInv
<1>4. ASSUME reporter' = reporter, running.phase # "deliver",
             running'.use = NoUse, running'.phase # "deliver"
      PROVE  ReporterInv'
  BY <1>1, <1>4 DEF ReporterInv
<1>5. ASSUME NEW object, NEW stated, Expect(object, stated)
      PROVE  ReporterInv'
  <2>1. reporter' = reporter /\ running' = Idle /\ IsReady
    BY <1>5 DEF Expect
  <2> QED BY <1>4, <2>1, IdleLocals DEF IsReady, IsRunning
<1>6. ASSUME NEW key, NEW at, Destroy(key, at)
      PROVE  ReporterInv'
  <2>1. /\ reporter' = reporter /\ IsReady
        /\ \E report : running' \in {Idle, [Idle EXCEPT !.phase = "get", !.report = report]}
    BY <1>6, Zenon DEF Destroy
  <2> QED BY <1>4, <2>1, IdleLocals DEF IsReady, IsRunning, Locals
<1>7. ASSUME NEW overload, NEW method, NEW args, Begin(overload, method, args), IsReady
      PROVE  ReporterInv'
  <2>1. reporter' = reporter /\ running'.phase = "evaluate" /\ running'.use = NoUse
    BY <1>7 DEF Begin, Idle
  <2> QED BY <1>4, <1>7, <2>1 DEF IsReady, IsRunning
<1>8. ASSUME Evaluate
      PROVE  ReporterInv'
  <2> DEFINE next == [running EXCEPT !.todo = running.todo - 1]
  <2>1. DOMAIN next = Locals /\ next.use = running.use /\ next.phase = "evaluate"
    BY <1>2, <1>8 DEF Locals, Evaluate
  <2>2. \E report, noMatches, inapplicable, matches :
           running' \in {[next EXCEPT !.phase = "get", !.report = report],
                         [next EXCEPT !.noMatches = noMatches],
                         [next EXCEPT !.inapplicable = inapplicable],
                         [next EXCEPT !.matches = matches]}
    BY <1>8, Zenon DEF Evaluate
  <2>3. reporter' = reporter /\ running.phase = "evaluate"
    BY <1>8 DEF Evaluate
  <2> HIDE DEF next
  <2>4. Quiet
    BY <2>1, <2>2, <2>3 DEF Locals
  <2> QED BY <1>3, <2>4
<1>9. ASSUME Decide
      PROVE  ReporterInv'
  <2>1. \E report, chosen :
           running' \in {[running EXCEPT !.phase = "get", !.report = report],
                         [running EXCEPT !.phase = "consume", !.chosen = chosen],
                         [running EXCEPT !.phase = "get", !.chosen = chosen,
                                         !.report = report]}
    BY <1>9, Zenon DEF Decide
  <2>2. reporter' = reporter /\ running.phase = "evaluate"
    BY <1>9 DEF Decide
  <2>3. Quiet
    BY <1>2, <2>1, <2>2 DEF Locals
  <2> QED BY <1>3, <2>3
<1>10. ASSUME Consume
       PROVE  ReporterInv'
  <2>1. \E args :
           running' \in {[running EXCEPT !.phase = "terminated"],
                         [running EXCEPT !.phase = "finalize", !.info.args = args]}
    BY <1>10, Zenon DEF Consume
  <2>2. reporter' = reporter /\ running.phase = "consume"
    BY <1>10 DEF Consume
  <2>3. Quiet
    BY <1>2, <2>1, <2>2 DEF Locals
  <2> QED BY <1>3, <2>3
<1>11. ASSUME Finalize
       PROVE  ReporterInv'
  <2>1. \E phase \in {"terminated", "threw", "returned"} : \E value :
           running' \in {[running EXCEPT !.phase = phase],
                         [running EXCEPT !.phase = phase, !.value = value]}
    BY <1>11, Zenon DEF Finalize, Escaped
  <2>2. reporter' = reporter /\ running.phase = "finalize"
    BY <1>11 DEF Finalize
  <2>3. Quiet
    BY <1>2, <2>1, <2>2 DEF Locals
  <2> QED BY <1>3, <2>3
<1>12. ASSUME GetTheReporter
       PROVE  ReporterInv'
  <2>1. /\ reporter' = reporter /\ running.phase = "get" /\ running'.phase = "deliver"
        /\ running'.use = [to |-> reporter.installed, owned |-> TRUE]
    BY <1>2, <1>12 DEF GetTheReporter, GetReporter, Locals
  <2>2. reporter.destroyed = (1 .. reporter.installed - 1) \ {0}
    BY <2>1 DEF ReporterInv, NoUse
  <2>3. reporter.installed \in 1 .. program.reporters + 1
    BY DEF ReporterInv
  <2>4. reporter.destroyed = (1 .. reporter.installed - 1) \ {running'.use.to}
        /\ reporter.installed \in 1 .. reporter.installed
    <3>1. running'.use.to = reporter.installed
      BY <2>1
    <3> QED BY <1>2, <2>2, <2>3, <3>1
  <2>5. running'.use # NoUse
    <3>1. running'.use.to # 0 /\ NoUse.to = 0
      BY <1>2, <2>1, <2>3 DEF NoUse
    <3> QED BY <3>1
  <2>6. \E k \in 1 .. reporter'.installed : running'.use = [to |-> k, owned |-> TRUE]
    BY <2>1, <2>4, Zenon
  <2>7. DOMAIN reporter = {"installed", "destroyed"}
    BY DEF ReporterInv
  <2> HIDE DEF Quiet
  <2> QED BY <1>1, <2>1, <2>3, <2>4, <2>5, <2>6, <2>7 DEF ReporterInv
<1>13. ASSUME Deliver
       PROVE  ReporterInv'
  <2>1. /\ running.phase = "deliver" /\ running'.use = NoUse /\ running'.phase # "deliver"
        /\ reporter' = ReleaseReporter(reporter, running.use)
    <3>1. Escaped \in {"terminated", "threw"}
      BY DEF Escaped
    <3>2. \E phase \in {"evaluate", "consume", "terminated", "threw"} :
             running' = [running EXCEPT !.use = NoUse, !.phase = phase]
      BY <1>13, <3>1 DEF Deliver
    <3>3. running.phase = "deliver" /\ reporter' = ReleaseReporter(reporter, running.use)
      BY <1>13 DEF Deliver
    <3> QED BY <1>2, <3>2, <3>3 DEF Locals
  <2>2. running.use.to \in 1 .. reporter.installed /\ running.use.owned
    <3>1. running.use # NoUse
      BY <2>1 DEF ReporterInv
    <3> QED BY <3>1, ReporterInUse
  <2>3. reporter.installed \in 1 .. program.reporters + 1
    BY DEF ReporterInv
  <2>4. reporter.destroyed = (1 .. reporter.installed - 1) \ {running.use.to}
    BY DEF ReporterInv
  <2>5. DOMAIN reporter = {"installed", "destroyed"}
    BY DEF ReporterInv
  <2>6. /\ DOMAIN reporter' = {"installed", "destroyed"}
        /\ reporter'.installed = reporter.installed
        /\ reporter'.destroyed = 1 .. reporter.installed - 1
    <3>1. CASE running.use.to # reporter.installed
      <4>1. reporter' = [reporter EXCEPT !.destroyed =
                            reporter.destroyed \cup {running.use.to}]
        BY <2>1, <2>2, <3>1 DEF ReleaseReporter
      <4>2. running.use.to \in 1 .. reporter.installed - 1
        <5>1. reporter.installed \in Nat /\ running.use.to \in 1 .. reporter.installed
          BY <1>2, <2>2, <2>3
        <5> QED BY <3>1, <5>1
      <4>3. reporter.destroyed \cup {running.use.to} = 1 .. reporter.installed - 1
        BY <2>4, <4>2
      <4> QED BY <2>5, <4>1, <4>3
    <3>2. CASE running.use.to = reporter.installed
      <4>1. reporter' = reporter
        BY <2>1, <3>2 DEF ReleaseReporter
      <4>2. running.use.to \notin 1 .. reporter.installed - 1
        BY <1>2, <2>3, <3>2
      <4> QED BY <2>4, <2>5, <4>1, <4>2
    <3> QED BY <3>1, <3>2
  <2>7. 0 \notin 1 .. reporter.installed - 1
    BY <1>2, <2>3
  <2> QED BY <1>1, <2>1, <2>3, <2>6, <2>7 DEF ReporterInv, NoUse
<1>14. ASSUME InstallReporter
       PROVE  ReporterInv'
  <2>1. /\ running' = running /\ reporter.installed <= program.reporters
        /\ reporter' = [installed |-> reporter.installed + 1,
                        destroyed |-> reporter.destroyed \cup
                            (IF running.use.owned /\ running.use.to = reporter.installed
                             THEN {} ELSE {reporter.installed})]
    BY <1>14 DEF InstallReporter, SetReporter
  <2>2. reporter.installed \in 1 .. program.reporters + 1
    BY DEF ReporterInv
  <2>3. reporter.destroyed = (1 .. reporter.installed - 1) \ {running.use.to}
    BY DEF ReporterInv
  <2>4. running.use.to # 0 => running.use.owned
    <3>1. NoUse.to = 0
      BY DEF NoUse
    <3> QED BY <3>1, ReporterInUse DEF ReporterInv
  <2>5. reporter'.destroyed = (1 .. reporter.installed) \ {running.use.to}
    <3>1. (1 .. reporter.installed - 1) \cup {reporter.installed} = 1 .. reporter.installed
          /\ reporter.installed \notin 1 .. reporter.installed - 1
      BY <1>2, <2>2
    <3>2. CASE running.use.to = reporter.installed
      <4>1. reporter'.destroyed = reporter.destroyed
        <5>1. running.use.owned
          BY <1>2, <2>2, <2>4, <3>2
        <5> QED BY <2>1, <3>2, <5>1
      <4> QED BY <2>3, <3>1, <3>2, <4>1
    <3>3. CASE running.use.to # reporter.installed
      <4>1. reporter'.destroyed = reporter.destroyed \cup {reporter.installed}
        BY <2>1, <3>3
      <4> QED BY <2>3, <3>1, <3>3, <4>1
    <3> QED BY <3>2, <3>3
  <2>6. reporter'.installed = reporter.installed + 1
        /\ DOMAIN reporter' = {"installed", "destroyed"}
    BY <2>1
  <2>7. /\ reporter'.installed \in 1 .. program.reporters + 1
        /\ reporter'.installed - 1 = reporter.installed
        /\ 1 .. reporter.installed \subseteq 1 .. reporter'.installed
    BY <1>2, <2>1, <2>2, <2>6
  <2> QED BY <1>1, <2>1, <2>5, <2>6, <2>7 DEF ReporterInv
<1>15. CASE UNCHANGED vars
  BY <1>15 DEF vars, ReporterInv
<1>16. ASSUME NEW object, NEW passed, CallDirect(object, passed)
       PROVE  ReporterInv'
  BY <1>7, <1>16, Zenon DEF CallDirect
<1>17. ASSUME NEW i, NEW passed, CallMethod(i, passed)
       PROVE  ReporterInv'
  BY <1>7, <1>17, Zenon DEF CallMethod
<1> QED BY <1>5, <1>6, <1>8, <1>9, <1>10, <1>11, <1>12, <1>13, <1>14, <1>15, <1>16, <1>17,
           Zenon DEF Next

\* Every behaviour keeps count of the reporters in this way.
THEOREM ReporterHolds == Spec => []ReporterInv
<1>1. Init /\ FrameInv => ReporterInv
  BY ReporterStarts
<1>2. FrameInv /\ ReporterInv /\ [Next]_vars => ReporterInv'
  BY ReporterPreserved
<1> QED BY <1>1, <1>2, FrameHolds, PTL DEF Spec

\* A reporter that a report is on its way to is not destroyed by a thread that
\* installs another one, and none outlives its last report: whatever the mock, the
\* expectations and the number of reporters (GlobalReporter.hpp).
THEOREM ReportersLive == Spec => []ReportersOutliveTheirReports
<1>1. FrameInv /\ ReporterInv => ReportersOutliveTheirReports
  <2> SUFFICES ASSUME FrameInv, ReporterInv
               PROVE  ReportersOutliveTheirReports
    OBVIOUS
  <2>1. program.reporters \in Nat
    BY ProgramAssumed
  <2>2. running.use # NoUse => running.use.to \notin reporter.destroyed
    BY DEF ReporterInv
  <2>3. reporter.installed \notin reporter.destroyed
    BY <2>1 DEF ReporterInv
  <2>4. ~IsRunning => reporter.destroyed = 1 .. reporter.installed - 1
    <3>1. ~IsRunning => running.use = NoUse
      BY DEF IsRunning, ReporterInv
    <3>2. 0 \notin 1 .. reporter.installed - 1
      BY <2>1 DEF ReporterInv
    <3> QED BY <3>1, <3>2 DEF ReporterInv, NoUse
  <2> QED BY <2>2, <2>3, <2>4 DEF ReportersOutliveTheirReports
<1> QED BY <1>1, FrameHolds, ReporterHolds, PTL

-----------------------------------------------------------------------------
\* The mock of a program.

\* The overloads of the mock are made of the methods, one each.
LEMMA MockDeclared ==
    ASSUME FrameInv
    PROVE  /\ mock.overloads = TargetOverloads(program.methods, program.style)
           /\ DOMAIN mock.overloads = DOMAIN program.methods
           /\ Len(program.methods) \in Nat
           /\ DOMAIN program.methods = 1 .. Len(program.methods)
           /\ \A s \in ToSet(mock.overloads) : IsOverload(s)
           /\ \A i \in DOMAIN mock.overloads :
                 mock.overloads[i] \in ToSet(mock.overloads)
<1>1. mock.overloads = TargetOverloads(program.methods, program.style)
  <2>1. mock = Declared(program)
    BY DEF FrameInv
  <2> QED BY <2>1 DEF Declared
<1>2. DOMAIN mock.overloads = DOMAIN program.methods
  BY <1>1 DEF TargetOverloads
<1>3. \A i \in DOMAIN program.methods : IsOverload(mock.overloads[i])
  BY <1>1, ProgramAssumed, MethodsHaveOverloads
<1>4. Len(program.methods) \in Nat /\ DOMAIN program.methods = 1 .. Len(program.methods)
  BY ProgramAssumed DEF IsSequence
<1>5. /\ \A s \in ToSet(mock.overloads) : \E i \in DOMAIN mock.overloads : s = mock.overloads[i]
      /\ \A i \in DOMAIN mock.overloads : mock.overloads[i] \in ToSet(mock.overloads)
  BY DEF ToSet
<1> QED BY <1>1, <1>2, <1>3, <1>4, <1>5

\* What a generated function calls, as far as it compiles.
LEMMA ForwardedTo ==
    ASSUME FrameInv, program.style # "direct"
    PROVE  mock.forwarded = [i \in DOMAIN mock.overloads |->
                                Forwarded(program, mock.overloads, i)]
<1>1. mock = Declared(program)
  BY DEF FrameInv
<1> DEFINE overloads == TargetOverloads(program.methods, program.style)
<1>2. mock.overloads = overloads
  BY MockDeclared
<1>3. mock.forwarded = [i \in DOMAIN overloads |-> Forwarded(program, overloads, i)]
  <2> HIDE DEF overloads
  <2> QED BY <1>1 DEF Declared, overloads
<1> QED BY <1>2, <1>3, Zenon

\* A mock without generated functions forwards nothing.
LEMMA NoForwarders ==
    ASSUME FrameInv, program.style = "direct"
    PROVE  DOMAIN mock.forwarded = {}
<1>1. mock = Declared(program)
  BY DEF FrameInv
<1>2. mock.forwarded = <<>>
  BY <1>1 DEF Declared
<1> QED BY <1>2

\* No signature is mistaken for the absence of one.
LEMMA SignatureIsSomething ==
    ASSUME NEW s, IsSignature(s)
    PROVE  s # <<>>
<1>1. DOMAIN s = {"conv", "ret", "params", "const", "ref", "noexcept"}
  BY DEF IsSignature, Signature
<1> QED BY <1>1

-----------------------------------------------------------------------------
\* Calls.

InfoFields == {"args", "fromCategory", "fromConst", "baseStacktraceSkip"}

\* What handle_call knows of the call it handles.  Only the report of an unfulfilled
\* expectation is made without a call.
CallInv ==
    IF running.overload = <<>>
    THEN /\ running.method = 0 /\ running.chosen = 0
         /\ running.phase \in {"idle", "get", "deliver", "threw", "terminated"}
         /\ IsReporting => running.report.is = "unfulfilled"
    ELSE /\ mock.compiles
         /\ running.overload \in ToSet(mock.overloads)
         /\ running.noexcept = running.overload.noexcept
         /\ running.key = Decay(running.overload)
         /\ DOMAIN running.info = InfoFields
         /\ running.info.fromCategory = running.overload.ref
         /\ running.info.fromConst = running.overload.const
         /\ running.info.baseStacktraceSkip = StacktraceSkip(program.style)
         /\ running.method # 0 =>
               /\ program.style # "direct"
               /\ running.method \in DOMAIN program.methods
               /\ running.overload \in mock.forwarded[running.method]

\* The variables as a call leaves them from its beginning to its end.
SameCall ==
    /\ running'.overload = running.overload
    /\ running'.method = running.method
    /\ running'.noexcept = running.noexcept
    /\ running'.key = running.key
    /\ running'.given = running.given
    /\ \/ running'.info = running.info
       \/ \E args : running'.info = [running.info EXCEPT !.args = args]

\* Declarations outlast every step.
LEMMA DeclarationKept ==
    ASSUME [Next]_vars
    PROVE  program' = program /\ mock' = mock
  BY Zenon DEF Next, vars, Expect, Destroy, CallDirect, CallMethod, Begin, Evaluate, Decide,
            Consume, Finalize, GetTheReporter, Deliver, InstallReporter

\* What the actions of a call do with the locals.
LEMMA EvaluateSteps ==
    ASSUME FrameInv, Evaluate
    PROVE  /\ SameCall
           /\ running.phase = "evaluate" /\ running'.phase \in {"evaluate", "get"}
           /\ running'.chosen = running.chosen
           /\ running'.info = running.info
           /\ running'.todo = running.todo - 1
<1> DEFINE next == [running EXCEPT !.todo = running.todo - 1]
<1>1. /\ DOMAIN next = Locals /\ next.phase = "evaluate"
      /\ next.overload = running.overload /\ next.method = running.method
      /\ next.noexcept = running.noexcept /\ next.key = running.key
      /\ next.info = running.info /\ next.chosen = running.chosen
      /\ next.given = running.given
      /\ next.todo = running.todo - 1
  BY DEF Locals, Evaluate, FrameInv
<1>2. \E report, noMatches, inapplicable, matches :
         running' \in {[next EXCEPT !.phase = "get", !.report = report],
                       [next EXCEPT !.noMatches = noMatches],
                       [next EXCEPT !.inapplicable = inapplicable],
                       [next EXCEPT !.matches = matches]}
  BY Zenon DEF Evaluate
<1> HIDE DEF next
<1>3. running.phase = "evaluate"
  BY DEF Evaluate
<1> QED BY <1>1, <1>2, <1>3 DEF Locals, SameCall

LEMMA DecideSteps ==
    ASSUME FrameInv, Decide
    PROVE  /\ SameCall
           /\ running.phase = "evaluate" /\ running'.phase \in {"consume", "get"}
           /\ running'.info = running.info
           /\ running'.todo = running.todo /\ running'.matches = running.matches
           /\ running'.inapplicable = running.inapplicable
           /\ running'.noMatches = running.noMatches
<1>1. \E report, chosen :
         running' \in {[running EXCEPT !.phase = "get", !.report = report],
                       [running EXCEPT !.phase = "consume", !.chosen = chosen],
                       [running EXCEPT !.phase = "get", !.chosen = chosen,
                                       !.report = report]}
  BY Zenon DEF Decide
<1>2. running.phase = "evaluate" /\ DOMAIN running = Locals
  BY DEF Decide, FrameInv
<1> QED BY <1>1, <1>2 DEF Locals, SameCall

LEMMA ConsumeSteps ==
    ASSUME FrameInv, Consume
    PROVE  /\ SameCall
           /\ running.phase = "consume" /\ running'.phase \in {"terminated", "finalize"}
           /\ running'.chosen = running.chosen /\ running'.todo = running.todo
           /\ running'.matches = running.matches
           /\ running'.inapplicable = running.inapplicable
<1>1. \E args :
         running' \in {[running EXCEPT !.phase = "terminated"],
                       [running EXCEPT !.phase = "finalize", !.info.args = args]}
  BY Zenon DEF Consume
<1>2. running.phase = "consume" /\ DOMAIN running = Locals
  BY DEF Consume, FrameInv
<1>3. CASE running' = [running EXCEPT !.phase = "terminated"]
  BY <1>2, <1>3 DEF Locals, SameCall
<1>4. ASSUME NEW args, running' = [running EXCEPT !.phase = "finalize", !.info.args = args]
      PROVE  /\ SameCall
             /\ running'.phase = "finalize"
             /\ running'.chosen = running.chosen /\ running'.todo = running.todo
             /\ running'.matches = running.matches
             /\ running'.inapplicable = running.inapplicable
  <2>1. running'.info = [running.info EXCEPT !.args = args]
    BY <1>2, <1>4 DEF Locals
  <2>2. /\ running'.overload = running.overload /\ running'.method = running.method
        /\ running'.noexcept = running.noexcept /\ running'.key = running.key
        /\ running'.given = running.given /\ running'.phase = "finalize"
        /\ running'.chosen = running.chosen /\ running'.todo = running.todo
        /\ running'.matches = running.matches
        /\ running'.inapplicable = running.inapplicable
    BY <1>2, <1>4 DEF Locals
  <2> QED BY <2>1, <2>2, Zenon DEF SameCall
<1> QED BY <1>1, <1>2, <1>3, <1>4, Zenon

LEMMA FinalizeSteps ==
    ASSUME FrameInv, Finalize
    PROVE  /\ SameCall
           /\ running.phase = "finalize"
           /\ running'.phase \in {"terminated", "threw", "returned"}
<1>1. \E phase \in {"terminated", "threw", "returned"} : \E value :
         running' \in {[running EXCEPT !.phase = phase],
                       [running EXCEPT !.phase = phase, !.value = value]}
  BY Zenon DEF Finalize, Escaped
<1>2. running.phase = "finalize" /\ DOMAIN running = Locals
  BY DEF Finalize, FrameInv
<1> QED BY <1>1, <1>2 DEF Locals, SameCall

LEMMA GetSteps ==
    ASSUME FrameInv, GetTheReporter
    PROVE  /\ SameCall
           /\ running.phase = "get" /\ running'.phase = "deliver"
           /\ running'.report = running.report /\ running'.chosen = running.chosen
           /\ running'.todo = running.todo /\ running'.matches = running.matches
           /\ running'.inapplicable = running.inapplicable
           /\ running'.noMatches = running.noMatches
  BY DEF GetTheReporter, FrameInv, Locals, SameCall

LEMMA DeliverSteps ==
    ASSUME FrameInv, Deliver
    PROVE  /\ SameCall
           /\ running.phase = "deliver"
           /\ running'.phase \in {"evaluate", "consume", "terminated", "threw"}
           /\ running'.phase = "evaluate" => running.report.is = "unhandled_exception"
           /\ running'.phase = "consume" => running.report.is = "full_match"
           /\ running'.chosen = running.chosen
           /\ running'.todo = running.todo /\ running'.matches = running.matches
           /\ running'.inapplicable = running.inapplicable
           /\ running'.noMatches = running.noMatches
<1> DEFINE phase == CASE running.report.is = "unhandled_exception" -> "evaluate"
                      [] running.report.is = "full_match" -> "consume"
                      [] OTHER -> Escaped
<1>1. /\ phase \in {"evaluate", "consume", "terminated", "threw"}
      /\ phase = "evaluate" => running.report.is = "unhandled_exception"
      /\ phase = "consume" => running.report.is = "full_match"
  BY DEF Escaped
<1>2. /\ running.phase = "deliver"
      /\ running' = [running EXCEPT !.use = NoUse, !.phase = phase]
  BY Zenon DEF Deliver
<1>3. DOMAIN running = Locals
  BY DEF FrameInv
<1> HIDE DEF phase
<1> QED BY <1>1, <1>2, <1>3 DEF Locals, SameCall

\* How a call begins.
LEMMA BeginSteps ==
    ASSUME NEW overload, IsOverload(overload), NEW method, NEW args,
           Begin(overload, method, args)
    PROVE  /\ running'.overload = overload /\ running'.method = method
           /\ running'.noexcept = overload.noexcept
           /\ running'.key = Decay(overload)
           /\ DOMAIN running'.info = InfoFields
           /\ running'.info.fromCategory = overload.ref
           /\ running'.info.fromConst = overload.const
           /\ running'.info.baseStacktraceSkip = StacktraceSkip(program.style)
           /\ running'.given = ForThis("self", args)
           /\ running'.info.args = running'.given
           /\ running'.phase = "evaluate"
           /\ running'.chosen = 0 /\ running'.matches = <<>> /\ running'.inapplicable = <<>>
           /\ running'.noMatches = <<>>
           /\ running'.todo = Len(collections[Decay(overload)])
<1> DEFINE bare == RemoveCallConvention(overload)
           given == ForThis("self", args)
           skip == StacktraceSkip(program.style)
           info == CallInfo(given, bare, skip)
<1>1. Decay(bare) = Decay(overload) /\ bare.ref = overload.ref /\ bare.const = overload.const
  <2>1. IsSignature(overload)
    BY DEF IsOverload
  <2>2. bare = Signature(DefaultConvention, overload.ret, overload.params, overload.const,
                         overload.ref, overload.noexcept)
    BY <2>1, TraitsOf
  <2> HIDE DEF bare
  <2>3. bare.ref = overload.ref /\ bare.const = overload.const
    BY <2>2 DEF Signature
  <2> QED BY <2>1, <2>3, DecayOf DEF bare
<1>2. running' =
          [Idle EXCEPT !.phase = "evaluate", !.method = method,
                       !.overload = overload, !.noexcept = overload.noexcept,
                       !.given = given, !.key = Decay(bare), !.info = info,
                       !.todo = Len(collections[Decay(bare)])]
  BY Zenon DEF Begin
<1> HIDE DEF bare, skip
<1>3. DOMAIN info = InfoFields /\ info.args = given /\ info.fromCategory = bare.ref
      /\ info.fromConst = bare.const /\ info.baseStacktraceSkip = skip
  BY DEF CallInfo, InfoFields
<1> HIDE DEF info
<1> QED BY <1>1, <1>2, <1>3, IdleLocals DEF Locals, skip

\* A call stays with its overload and its arguments, action by action.
LEMMA CallStarts == Init => CallInv
<1>1. Init => running = Idle
  BY DEF Init
<1> QED BY <1>1, IdleLocals DEF CallInv, IsReporting

\* A call stays what it was until it ends.
LEMMA CallGoesOn ==
    ASSUME FrameInv, CallInv, [Next]_vars, SameCall, running.overload # <<>>
    PROVE  CallInv'
<1>1. program' = program /\ mock' = mock
  BY DeclarationKept
<1>2. DOMAIN running.info = InfoFields
  BY DEF CallInv
<1>3. /\ DOMAIN running'.info = InfoFields
      /\ running'.info.fromCategory = running.info.fromCategory
      /\ running'.info.fromConst = running.info.fromConst
      /\ running'.info.baseStacktraceSkip = running.info.baseStacktraceSkip
  <2>1. CASE running'.info = running.info
    BY <1>2, <2>1
  <2>2. ASSUME NEW args, running'.info = [running.info EXCEPT !.args = args]
        PROVE  <1>3!1 /\ <1>3!2 /\ <1>3!3 /\ <1>3!4
    BY <1>2, <2>2 DEF InfoFields
  <2> QED BY <2>1, <2>2 DEF SameCall
<1>4. /\ running'.overload = running.overload /\ running'.method = running.method
      /\ running'.noexcept = running.noexcept /\ running'.key = running.key
  BY DEF SameCall
<1> QED BY <1>1, <1>3, <1>4 DEF CallInv

LEMMA CallPreserved == FrameInv /\ CallInv /\ [Next]_vars => CallInv'
<1> SUFFICES ASSUME FrameInv, CallInv, [Next]_vars
             PROVE  CallInv'
  OBVIOUS
<1>1. program' = program /\ mock' = mock
  BY DeclarationKept
<1>2. ASSUME running.phase \in {"evaluate", "consume", "finalize"}, SameCall
      PROVE  CallInv'
  <2>1. running.overload # <<>>
    BY <1>2 DEF CallInv
  <2> QED BY <1>2, <2>1, CallGoesOn
<1>3. ASSUME NEW object, NEW stated, Expect(object, stated)
      PROVE  CallInv'
  <2>1. running' = Idle
    BY <1>3 DEF Expect
  <2> QED BY <2>1, IdleLocals DEF CallInv, IsReporting
<1>4. ASSUME NEW key, NEW at, Destroy(key, at)
      PROVE  CallInv'
  <2>1. \E report : /\ report.is = "unfulfilled"
                    /\ running' \in {Idle, [Idle EXCEPT !.phase = "get", !.report = report]}
    <3> DEFINE report == [is |-> "unfulfilled",
                          expectation |-> ExpectationReport(collections[key][at])]
    <3>1. report.is = "unfulfilled"
      OBVIOUS
    <3>2. running' \in {Idle, [Idle EXCEPT !.phase = "get", !.report = report]}
      BY <1>4, Zenon DEF Destroy
    <3> HIDE DEF report
    <3> QED BY <3>1, <3>2
  <2> QED BY <2>1, IdleLocals DEF CallInv, IsReporting, Locals
<1>5. ASSUME NEW overload \in ToSet(mock.overloads), NEW method, NEW args,
             Begin(overload, method, args), mock.compiles,
             method # 0 => /\ program.style # "direct"
                           /\ method \in DOMAIN program.methods
                           /\ overload \in mock.forwarded[method]
      PROVE  CallInv'
  <2>1. IsOverload(overload)
    BY MockDeclared
  <2>2. overload # <<>>
    BY <2>1, SignatureIsSomething DEF IsOverload
  <2> QED BY <1>1, <1>5, <2>1, <2>2, BeginSteps DEF CallInv
<1>6. ASSUME NEW object, NEW passed, CallDirect(object, passed)
      PROVE  CallInv'
  <2>1. /\ mock.compiles
        /\ \E overload \in Resolve(mock.overloads, object, passed.types) :
              Begin(overload, 0, passed.args)
    BY <1>6, Zenon DEF CallDirect, IsReady
  <2>2. Resolve(mock.overloads, object, passed.types) \subseteq ToSet(mock.overloads)
    BY Zenon DEF Resolve
  <2> QED BY <1>5, <2>1, <2>2
<1>7. ASSUME NEW i \in DOMAIN program.methods, NEW passed, CallMethod(i, passed)
      PROVE  CallInv'
  <2>1. /\ mock.compiles /\ program.style # "direct"
        /\ \E overload \in mock.forwarded[i] : Begin(overload, i, passed.args)
    BY <1>7, Zenon DEF CallMethod, IsReady
  <2>2. mock.forwarded[i] = Forwarded(program, mock.overloads, i)
    BY <2>1, ForwardedTo, MockDeclared
  <2>3. Forwarded(program, mock.overloads, i) \subseteq ToSet(mock.overloads)
    BY Zenon DEF Forwarded, Resolve
  <2> QED BY <1>5, <1>7, <2>1, <2>2, <2>3
<1>8. Evaluate => CallInv'
  BY <1>2, EvaluateSteps
<1>9. Decide => CallInv'
  BY <1>2, DecideSteps
<1>10. Consume => CallInv'
  BY <1>2, ConsumeSteps
<1>11. Finalize => CallInv'
  BY <1>2, FinalizeSteps
<1>12. ASSUME GetTheReporter
       PROVE  CallInv'
  <2>1. CASE running.overload = <<>>
    BY <1>12, <2>1, GetSteps DEF CallInv, IsReporting, SameCall
  <2>2. CASE running.overload # <<>>
    BY <1>12, <2>2, GetSteps, CallGoesOn
  <2> QED BY <2>1, <2>2
<1>13. ASSUME Deliver
       PROVE  CallInv'
  <2>1. CASE running.overload = <<>>
    <3>1. running.report.is = "unfulfilled"
      BY <1>13, <2>1, DeliverSteps DEF CallInv, IsReporting
    <3>2. running'.phase \in {"threw", "terminated"}
      BY <1>13, <3>1, DeliverSteps
    <3> QED BY <1>13, <2>1, <3>2, DeliverSteps DEF CallInv, IsReporting, SameCall
  <2>2. CASE running.overload # <<>>
    BY <1>13, <2>2, DeliverSteps, CallGoesOn
  <2> QED BY <2>1, <2>2
<1>14. InstallReporter => running' = running
  BY DEF InstallReporter
<1>15. UNCHANGED vars => running' = running
  BY DEF vars
<1>16. ASSUME running' = running
       PROVE  CallInv'
  BY <1>1, <1>16 DEF CallInv, IsReporting
<1> QED BY <1>3, <1>4, <1>6, <1>7, <1>8, <1>9, <1>10, <1>11, <1>12, <1>13, <1>14, <1>15,
           <1>16, Zenon DEF Next

\* Every call is one of an overload of the mock, and found by the function the user
\* called.
THEOREM CallHolds == Spec => []CallInv
<1>1. Init => CallInv
  BY CallStarts
<1>2. FrameInv /\ CallInv /\ [Next]_vars => CallInv'
  BY CallPreserved
<1> QED BY <1>1, <1>2, FrameHolds, PTL DEF Spec

\* The model and these proofs ask for a specifier in two ways.
LEMMA SaidIsHas ==
    ASSUME NEW m, NEW token
    PROVE  (token \in ToSet(m.specs)) = Has(m, token)
<1> DEFINE Said == token \in ToSet(m.specs)
<1>1. Said <=> Has(m, token)
  BY DEF ToSet, Has
<1>2. Said \in BOOLEAN
  OBVIOUS
<1>3. Has(m, token) \in BOOLEAN
  BY DEF Has
<1> HIDE DEF Said
<1>4. Said = Has(m, token)
  BY <1>1, <1>2, <1>3
<1> QED BY <1>4 DEF Said

\* The object a generated function calls the mock with suits its own overload.
LEMMA TargetSuits ==
    ASSUME NEW methods, NEW style, NEW i \in DOMAIN methods, IsMethod(methods[i])
    PROVE  Suits(TargetObject(methods[i]), TargetOverloads(methods, style)[i])
<1> DEFINE m == methods[i]
           bare == [m EXCEPT !.conv = DefaultConvention]
           s == MakeSignature(bare)
<1>1. IsMethod(bare) /\ bare.specs = m.specs
  BY DEF IsMethod
<1>2. s.ref = RefOf(m)
  <2>1. s = Signature(bare.conv, bare.ret, bare.params, Has(bare, "const"), RefOf(bare),
                      Has(bare, "noexcept"))
    BY <1>1, SignatureOfMethod
  <2>2. RefOf(bare) = RefOf(m)
    BY <1>1, Zenon DEF RefOf, Has
  <2> HIDE DEF s
  <2> QED BY <2>1, <2>2 DEF Signature
<1>3. ("const" \in ToSet(m.specs)) = Has(m, "const")
  BY SaidIsHas
<1>4. TargetObject(m) = ForwardFor(s, Has(m, "const"))
  BY <1>3, Zenon DEF TargetObject
<1>5. /\ TargetOverloads(methods, style)[i].const = Has(m, "const")
      /\ TargetOverloads(methods, style)[i].ref = RefOf(m)
  <2>1. TargetOverloads(methods, style)[i] =
            Signature(m.conv, m.ret, TargetParams(m, style), Has(m, "const"), RefOf(m),
                      Has(m, "noexcept"))
    BY OverloadOfMethod
  <2> HIDE DEF m
  <2> QED BY <2>1, SignatureFields
<1> HIDE DEF s, bare, m
<1>6. TargetObject(m).const = Has(m, "const")
  <2>1. \A isConst, category : Object(isConst, category).const = isConst
    BY DEF Object
  <2> QED BY <1>4, <2>1, Zenon DEF ForwardFor
<1>7. TargetObject(m).category = IF RefOf(m) = "rvalue" THEN "rvalue" ELSE "lvalue"
  BY <1>2, <1>4 DEF ForwardFor, Object
<1> QED BY <1>5, <1>6, <1>7 DEF Suits, m

\* A generated function forwards to its own overload or to none.
LEMMA ForwardedToOwn ==
    ASSUME FrameInv, NEW i \in DOMAIN program.methods
    PROVE  Forwarded(program, mock.overloads, i) \subseteq {mock.overloads[i]}
<1>1. Suits(TargetObject(program.methods[i]), mock.overloads[i])
  BY TargetSuits, ProgramAssumed, MockDeclared
<1>2. mock.overloads[i] \in ToSet(mock.overloads) /\ IsOverload(mock.overloads[i])
  BY MockDeclared
<1> QED BY <1>1, <1>2, NoneIsBetter DEF Forwarded

\* For any methods, specifiers and style: a call of a generated function arrives
\* at the overload of that function, with the same qualifiers and parameters and
\* "this" in front if it was asked for (macros/Facade.hpp, forward_for).
THEOREM CallsReach == Spec => []CallsReachTheirOverload
<1>1. FrameInv /\ CallInv => CallsReachTheirOverload
  <2> SUFFICES ASSUME FrameInv, CallInv, running.method # 0
               PROVE  CallsReachTheirOverload
    BY DEF CallsReachTheirOverload
  <2> DEFINE i == running.method
             m == program.methods[i]
             s == running.overload
  <2>1. /\ program.style # "direct" /\ i \in DOMAIN program.methods
        /\ s \in mock.forwarded[i] /\ running.noexcept = s.noexcept
    BY DEF CallInv
  <2>2. s = mock.overloads[i]
    <3>1. mock.forwarded[i] = Forwarded(program, mock.overloads, i)
      BY <2>1, ForwardedTo, MockDeclared
    <3> QED BY <2>1, <3>1, ForwardedToOwn
  <2>3. s = Signature(m.conv, m.ret, TargetParams(m, program.style), Has(m, "const"),
                      RefOf(m), Has(m, "noexcept"))
    <3>1. IsMethod(m)
      BY <2>1, ProgramAssumed
    <3>2. mock.overloads = TargetOverloads(program.methods, program.style)
      BY MockDeclared
    <3> QED BY <2>1, <2>2, <3>1, <3>2, OverloadOfMethod
  <2> DEFINE Said(token) == token \in ToSet(m.specs)
             this == IF Said("const") THEN "Self const*" ELSE "Self*"
  <2>4. \A token : Said(token) = Has(m, token)
    BY SaidIsHas
  <2>5. ~(Has(m, "&") /\ Has(m, "&&"))
    <3>1. IsMethod(m)
      BY <2>1, ProgramAssumed
    <3> QED BY <2>4, <3>1 DEF IsMethod
  <2>6. this = This(m)
    BY <2>4 DEF This
  <2> HIDE DEF s, m, Said, this
  <2>7. s.params = TargetParams(m, program.style) /\ s.ref = RefOf(m) /\ s.conv = m.conv
    BY <2>3 DEF Signature
  <2>8. s.const = Has(m, "const") /\ s.noexcept = Has(m, "noexcept")
    BY <2>3, Zenon DEF Signature
  <2>9. (s.ref = "lvalue") = Said("&") /\ (s.ref = "rvalue") = Said("&&")
    <3> DEFINE lvalue == s.ref = "lvalue"
               rvalue == s.ref = "rvalue"
    <3>1. (lvalue <=> Has(m, "&")) /\ (rvalue <=> Has(m, "&&"))
      BY <2>5, <2>7 DEF RefOf
    <3>2. lvalue \in BOOLEAN /\ rvalue \in BOOLEAN
          /\ Has(m, "&") \in BOOLEAN /\ Has(m, "&&") \in BOOLEAN
      BY DEF Has
    <3> HIDE DEF lvalue, rvalue
    <3>3. lvalue = Has(m, "&") /\ rvalue = Has(m, "&&")
      BY <3>1, <3>2
    <3> QED BY <2>4, <3>3, Zenon DEF lvalue, rvalue
  <2>10. s.params = ForThis(this, m.params)
    BY <2>6, <2>7 DEF ForThis, TargetParams
  <2>11. s.const = Said("const") /\ running.noexcept = Said("noexcept")
    BY <2>1, <2>4, <2>8, Zenon
  <2> QED BY <2>7, <2>9, <2>10, <2>11, Zenon DEF CallsReachTheirOverload, s, m, Said, this
<1> QED BY <1>1, FrameHolds, CallHolds, PTL

-----------------------------------------------------------------------------
\* Overloads can be called.

\* In an overload set, each overload is the only best one for its own object.
LEMMA OwnIsBest ==
    ASSUME FrameInv, IsOverloadSet(mock.overloads), NEW i \in DOMAIN mock.overloads,
           NEW object, Suits(object, mock.overloads[i])
    PROVE  Resolve(mock.overloads, object, mock.overloads[i].params) = {mock.overloads[i]}
<1> DEFINE s == mock.overloads[i]
           viable == {t \in ToSet(mock.overloads) : IsViable(t, object, s.params)}
<1>1. s \in ToSet(mock.overloads) /\ IsOverload(s)
  BY MockDeclared
<1>2. Resolve(mock.overloads, object, s.params) \subseteq {s}
  BY <1>1, NoneIsBetter
<1>3. s \in viable
  BY <1>1, SuitedIsViable
<1>4. ASSUME NEW t \in viable \ {s}
      PROVE  IsBetter(s, t, object, s.params)
  <2>1. PICK j \in DOMAIN mock.overloads : t = mock.overloads[j]
    BY DEF ToSet
  <2>2. j # i /\ i \in Nat /\ j \in Nat
    BY <1>4, <2>1, MockDeclared
  <2>3. IsOverloadableWith(s, t) \/ IsOverloadableWith(t, s)
    <3>1. CASE j < i
      <4>1. j \in 1 .. i - 1
        BY <2>1, <2>2, <3>1, MockDeclared
      <4> QED BY <2>1, <4>1, Zenon DEF IsOverloadSet
    <3>2. CASE i < j
      <4>1. i \in 1 .. j - 1
        BY <2>1, <2>2, <3>2, MockDeclared
      <4> QED BY <2>1, <4>1, Zenon DEF IsOverloadSet
    <3> QED BY <2>2, <3>1, <3>2
  <2>4. IsOverload(t) /\ IsViable(t, object, s.params)
    BY <1>4, MockDeclared
  <2> HIDE DEF s
  <2> QED BY <1>1, <2>3, <2>4, OwnIsBetter DEF s
<1>5. Resolve(mock.overloads, object, s.params)
          = {t \in viable : \A u \in viable \ {t} : IsBetter(t, u, object, s.params)}
  BY Zenon DEF Resolve
<1> HIDE DEF viable, s
<1> QED BY <1>2, <1>3, <1>4, <1>5 DEF s

\* With "this" in front or not, parameters differ as the methods' do.
LEMMA SameParams ==
    ASSUME NEW m, NEW n, IsMethod(m), IsMethod(n), NEW style,
           TargetParams(m, style) = TargetParams(n, style)
    PROVE  m.params = n.params
<1>1. CASE style # "with_this"
  BY <1>1 DEF TargetParams
<1>2. CASE style = "with_this"
  <2> DEFINE S == ToSet(m.params) \cup ToSet(n.params) \cup {This(m), This(n)}
             p == m.params
             q == n.params
  <2>1. p \in Seq(S) /\ q \in Seq(S)
    <3>1. /\ m.params \in Seq(ToSet(m.params) \ {"_"})
          /\ n.params \in Seq(ToSet(n.params) \ {"_"})
      BY DEF IsMethod
    <3>2. ToSet(m.params) \ {"_"} \subseteq S /\ ToSet(n.params) \ {"_"} \subseteq S
      OBVIOUS
    <3> HIDE DEF S
    <3> QED BY <3>1, <3>2, SeqMonotonic, Zenon
  <2>2. <<This(m)>> \o p = <<This(n)>> \o q
    BY <1>2 DEF TargetParams
  <2>3. This(m) \in S /\ This(n) \in S
    OBVIOUS
  <2> HIDE DEF S, p, q
  <2>4. \A x \in S, u \in Seq(S) :
           /\ Tail(<<x>> \o u) = u
    OBVIOUS
  <2>5. p = q
    BY <2>1, <2>2, <2>3, <2>4, Zenon
  <2> QED BY <2>5 DEF p, q
<1> QED BY <1>1, <1>2

\* The methods that a class may have make an overload set.
LEMMA LegalIsOverloadSet ==
    ASSUME FrameInv, LegalClass
    PROVE  IsOverloadSet(mock.overloads)
<1> SUFFICES ASSUME NEW j \in DOMAIN mock.overloads, NEW i \in 1 .. j - 1
             PROVE  IsOverloadableWith(mock.overloads[i], mock.overloads[j])
  BY Zenon DEF IsOverloadSet
<1> DEFINE m == program.methods[i]
           n == program.methods[j]
           s == mock.overloads[i]
           t == mock.overloads[j]
<1>1. i \in DOMAIN program.methods /\ j \in DOMAIN program.methods /\ i # j
  BY MockDeclared
<1>2. IsMethod(m) /\ IsMethod(n) /\ IsOverload(s) /\ IsOverload(t)
  BY <1>1, MockDeclared, ProgramAssumed
<1>3. /\ s.params = TargetParams(m, program.style) /\ t.params = TargetParams(n, program.style)
      /\ s.const = Has(m, "const") /\ t.const = Has(n, "const")
      /\ s.ref = RefOf(m) /\ t.ref = RefOf(n)
  <2>1. mock.overloads = TargetOverloads(program.methods, program.style)
    BY MockDeclared
  <2>2. /\ s = Signature(m.conv, m.ret, TargetParams(m, program.style), Has(m, "const"),
                         RefOf(m), Has(m, "noexcept"))
        /\ t = Signature(n.conv, n.ret, TargetParams(n, program.style), Has(n, "const"),
                         RefOf(n), Has(n, "noexcept"))
    BY <1>1, <1>2, <2>1, OverloadOfMethod
  <2> HIDE DEF s, t, m, n
  <2>3. /\ s.params = TargetParams(m, program.style) /\ s.ref = RefOf(m)
        /\ t.params = TargetParams(n, program.style) /\ t.ref = RefOf(n)
    BY <2>2 DEF Signature
  <2>4. s.const = Has(m, "const") /\ t.const = Has(n, "const")
    BY <2>2, Zenon DEF Signature
  <2> QED BY <2>3, <2>4
<1>4. ASSUME s.params = t.params
      PROVE  /\ s.const # t.const \/ s.ref # t.ref
             /\ (s.ref = "any") = (t.ref = "any")
  <2>1. m.params = n.params
    <3> HIDE DEF s, t, m, n
    <3>1. TargetParams(m, program.style) = TargetParams(n, program.style)
      BY <1>3, <1>4
    <3> QED BY <1>2, <3>1, SameParams
  <2> DEFINE Of == {k \in DOMAIN program.methods : program.methods[k].params = m.params}
             Said(k, token) == token \in ToSet(program.methods[k].specs)
             SaidRef(k) == Said(k, "&") \/ Said(k, "&&")
  <2>2. i \in Of /\ j \in Of
    BY <1>1, <2>1
  <2>3. /\ (\A k \in Of : SaidRef(k)) \/ (\A k \in Of : ~SaidRef(k))
        /\ \A k, l \in Of :
              (\A token \in {"const", "&", "&&"} : Said(k, token) = Said(l, token)) => k = l
    <3>1. m.params \in {program.methods[k].params : k \in DOMAIN program.methods}
      BY <1>1
    <3> QED BY <3>1, Zenon DEF LegalClass
  <2>4. \A token : Said(i, token) = Has(m, token) /\ Said(j, token) = Has(n, token)
    BY SaidIsHas
  <2> HIDE DEF Of, Said, m, n, s, t
  <2>5. /\ ~(/\ Has(m, "const") = Has(n, "const")
             /\ Has(m, "&") = Has(n, "&") /\ Has(m, "&&") = Has(n, "&&"))
        /\ (Has(m, "&") \/ Has(m, "&&")) <=> (Has(n, "&") \/ Has(n, "&&"))
    BY <1>1, <2>2, <2>3, <2>4
  <2>6. /\ Has(m, "&") \in BOOLEAN /\ Has(m, "&&") \in BOOLEAN
        /\ Has(n, "&") \in BOOLEAN /\ Has(n, "&&") \in BOOLEAN
    BY DEF Has
  <2>7. ~(Has(m, "&") /\ Has(m, "&&")) /\ ~(Has(n, "&") /\ Has(n, "&&"))
    <3>1. \A token : (token \in ToSet(m.specs)) = Has(m, token)
                     /\ (token \in ToSet(n.specs)) = Has(n, token)
      BY SaidIsHas
    <3> QED BY <1>2, <3>1 DEF IsMethod
  <2>8. s.const # t.const \/ RefOf(m) # RefOf(n)
    <3>1. CASE Has(m, "const") # Has(n, "const")
      BY <1>3, <3>1
    <3>2. CASE ~(Has(m, "&") = Has(n, "&") /\ Has(m, "&&") = Has(n, "&&"))
      BY <2>5, <2>6, <2>7, <3>2 DEF RefOf
    <3> QED BY <2>5, <3>1, <3>2
  <2>9. (RefOf(m) = "any") <=> (RefOf(n) = "any")
    BY <2>5 DEF RefOf
  <2>10. (RefOf(m) = "any") = (RefOf(n) = "any")
    BY <2>9
  <2> QED BY <1>3, <2>8, <2>10, Zenon
<1> HIDE DEF s, t, m, n
<1> QED BY <1>2, <1>4, OverloadableMeans DEF IsOverload, s, t

\* What the declaration of a mock that compiles has passed.
LEMMA CompilesMeans ==
    ASSUME FrameInv
    PROVE  mock.compiles <=>
               /\ IsOverloadSet(mock.overloads)
               /\ \A i \in DOMAIN mock.forwarded : Cardinality(mock.forwarded[i]) = 1
<1> DEFINE overloads == TargetOverloads(program.methods, program.style)
           forwarded == IF program.style = "direct" THEN <<>>
                        ELSE [i \in DOMAIN overloads |-> Forwarded(program, overloads, i)]
<1>1. mock = [overloads |-> overloads, forwarded |-> forwarded,
              compiles |-> /\ IsOverloadSet(overloads)
                           /\ \A i \in DOMAIN forwarded : Cardinality(forwarded[i]) = 1]
  BY Zenon DEF FrameInv, Declared
<1> HIDE DEF overloads, forwarded
<1> QED BY <1>1

\* For any methods: a class that C++ accepts can be mocked, and each overload of a
\* mock is reached by some object and some arguments.
THEOREM OverloadsCallable == Spec => []OverloadsAreCallable
<1>1. FrameInv => OverloadsAreCallable
  <2> SUFFICES ASSUME FrameInv
               PROVE  /\ LegalClass => mock.compiles
                      /\ mock.compiles =>
                            \A i \in DOMAIN mock.overloads :
                                \E isConst \in BOOLEAN, category \in {"lvalue", "rvalue"} :
                                    Resolve(mock.overloads, Object(isConst, category),
                                            mock.overloads[i].params)
                                        = {mock.overloads[i]}
    BY Zenon DEF OverloadsAreCallable
  <2>2. ASSUME LegalClass
        PROVE  mock.compiles
    <3>1. IsOverloadSet(mock.overloads)
      BY <2>2, LegalIsOverloadSet
    <3>2. ASSUME NEW i \in DOMAIN mock.forwarded
          PROVE  Cardinality(mock.forwarded[i]) = 1
      <4>1. program.style # "direct"
        BY <3>2, NoForwarders
      <4>2. /\ i \in DOMAIN program.methods
            /\ mock.forwarded[i] = Forwarded(program, mock.overloads, i)
        BY <3>2, <4>1, ForwardedTo, MockDeclared
      <4>3. Suits(TargetObject(program.methods[i]), mock.overloads[i])
        BY <4>2, TargetSuits, ProgramAssumed, MockDeclared
      <4>4. mock.forwarded[i] = {mock.overloads[i]}
        BY <3>1, <4>2, <4>3, OwnIsBest, MockDeclared DEF Forwarded
      <4> QED BY <4>4, FS_Singleton
    <3> QED BY <3>1, <3>2, CompilesMeans
  <2>3. ASSUME mock.compiles, NEW i \in DOMAIN mock.overloads
        PROVE  \E isConst \in BOOLEAN, category \in {"lvalue", "rvalue"} :
                   Resolve(mock.overloads, Object(isConst, category), mock.overloads[i].params)
                       = {mock.overloads[i]}
    <3> DEFINE s == mock.overloads[i]
               category == IF s.ref = "rvalue" THEN "rvalue" ELSE "lvalue"
    <3>1. IsOverloadSet(mock.overloads)
      BY <2>3, CompilesMeans
    <3>2. s.const \in BOOLEAN /\ category \in {"lvalue", "rvalue"}
      BY MockDeclared DEF IsOverload
    <3>3. Suits(Object(s.const, category), s)
      BY <3>2 DEF Suits, Object
    <3>4. Resolve(mock.overloads, Object(s.const, category), s.params) = {s}
      BY <3>1, <3>3, OwnIsBest
    <3> HIDE DEF s, category
    <3> QED BY <3>2, <3>4, Zenon DEF s
  <2> QED BY <2>2, <2>3, Zenon
<1> QED BY <1>1, FrameHolds, PTL

-----------------------------------------------------------------------------
\* Stack traces.

Frames ==
    {"stacktrace::current", "determine_requirement_outcomes", "evaluate_expectations",
     "handle_call", "BasicMock::handle_call", "operator()", "apply's lambda", "apply",
     "invoke", "facade's lambda", "facade function", "user"}

\* Short sequences.
LEMMA Tuples ==
    ASSUME NEW T
    PROVE  /\ \A a \in T : <<a>> \in Seq(T) /\ Len(<<a>>) = 1 /\ <<a>>[1] = a
           /\ \A a, b \in T : <<a, b>> \in Seq(T) /\ Len(<<a, b>>) = 2
           /\ \A a, b, c \in T : <<a, b, c>> \in Seq(T) /\ Len(<<a, b, c>>) = 3
           /\ \A a, b, c, d, e \in T :
                 <<a, b, c, d, e>> \in Seq(T) /\ Len(<<a, b, c, d, e>>) = 5
           /\ \A s \in Seq(T) : s \o <<>> = s
  OBVIOUS

\* The frames the model lets the library push.
LEMMA FramesAre ==
    /\ MockFrames \in Seq(Frames) /\ Len(MockFrames) = 2
    /\ FacadeFrames \in Seq(Frames) /\ Len(FacadeFrames) = 5
    /\ <<"user">> \in Seq(Frames) /\ Len(<<"user">>) = 1 /\ <<"user">>[1] = "user"
    /\ <<"stacktrace::current">> \in Seq(Frames) /\ Len(<<"stacktrace::current">>) = 1
    /\ <<"handle_call">> \in Seq(Frames) /\ Len(<<"handle_call">>) = 1
    /\ <<"determine_requirement_outcomes", "evaluate_expectations", "handle_call">>
           \in Seq(Frames)
    /\ Len(<<"determine_requirement_outcomes", "evaluate_expectations", "handle_call">>) = 3
<1>1. /\ "user" \in Frames /\ "stacktrace::current" \in Frames /\ "handle_call" \in Frames
      /\ "determine_requirement_outcomes" \in Frames /\ "evaluate_expectations" \in Frames
      /\ "BasicMock::handle_call" \in Frames /\ "operator()" \in Frames
      /\ "apply's lambda" \in Frames /\ "apply" \in Frames /\ "invoke" \in Frames
      /\ "facade's lambda" \in Frames /\ "facade function" \in Frames
  BY DEF Frames
<1>2. /\ MockFrames = <<"BasicMock::handle_call", "operator()">>
      /\ FacadeFrames = <<"apply's lambda", "apply", "invoke", "facade's lambda",
                          "facade function">>
  BY Zenon DEF MockFrames, FacadeFrames
<1> QED BY <1>1, <1>2, Tuples, Zenon

\* The last of two sequences one after the other.
LEMMA LastOfConcat ==
    ASSUME NEW T, NEW s \in Seq(T), NEW t \in Seq(T), Len(t) > 0
    PROVE  /\ s \o t \in Seq(T) /\ Len(s \o t) = Len(s) + Len(t)
           /\ (s \o t)[Len(s \o t)] = t[Len(t)]
<1>1. /\ s \o t \in Seq(T) /\ Len(s \o t) = Len(s) + Len(t)
      /\ \A i \in 1 .. Len(s) + Len(t) :
            (s \o t)[i] = IF i <= Len(s) THEN s[i] ELSE t[i - Len(s)]
  BY ConcatProperties, Zenon
<1>2. /\ Len(s) + Len(t) \in 1 .. Len(s) + Len(t) /\ ~(Len(s) + Len(t) <= Len(s))
      /\ (Len(s) + Len(t)) - Len(s) = Len(t)
  OBVIOUS
<1> QED BY <1>1, <1>2, Zenon

\* The user's frame is right behind those of the library.
LEMMA FramesEndAtUser ==
    ASSUME NEW style \in Styles
    PROVE  /\ CallFrames(style) \in Seq(Frames)
           /\ StacktraceSkip(style) \in Nat
           /\ Len(CallFrames(style)) = StacktraceSkip(style) + 1
           /\ CallFrames(style)[Len(CallFrames(style))] = "user"
<1> DEFINE facade == IF style = "direct" THEN <<>> ELSE FacadeFrames
           inner == MockFrames \o facade
<1>1. inner \in Seq(Frames) /\ Len(inner) = IF style = "direct" THEN 2 ELSE 7
  <2>1. CASE style = "direct"
    <3>1. inner = MockFrames \o <<>>
      BY <2>1, Zenon
    <3>2. inner = MockFrames
      BY <3>1, FramesAre, Tuples, Zenon
    <3> QED BY <2>1, <3>2, FramesAre
  <2>2. CASE style # "direct"
    <3>1. inner = MockFrames \o FacadeFrames
      BY <2>2, Zenon
    <3>2. /\ MockFrames \in Seq(Frames) /\ Len(MockFrames) = 2
          /\ FacadeFrames \in Seq(Frames) /\ Len(FacadeFrames) = 5
      BY FramesAre, Zenon
    <3> HIDE DEF inner
    <3>3. /\ MockFrames \o FacadeFrames \in Seq(Frames)
          /\ Len(MockFrames \o FacadeFrames) = Len(MockFrames) + Len(FacadeFrames)
      BY <3>2, ConcatProperties, Zenon
    <3>4. Len(MockFrames \o FacadeFrames) = 7
      BY <3>2, <3>3
    <3> QED BY <2>2, <3>1, <3>3, <3>4, Zenon
  <2> QED BY <2>1, <2>2
<1>2. CallFrames(style) = inner \o <<"user">>
  BY Zenon DEF CallFrames
<1>3. StacktraceSkip(style) = IF style = "direct" THEN 2 ELSE 7
  BY DEF StacktraceSkip, MakeSettings, FacadeBaseCallDepth, ApplyCallDepth
<1> DEFINE user == <<"user">>
           all == inner \o user
<1>4. user \in Seq(Frames) /\ Len(user) = 1 /\ user[1] = "user"
  BY FramesAre, Zenon
<1> HIDE DEF inner, user
<1>5. all \in Seq(Frames) /\ Len(all) = Len(inner) + Len(user) /\ all[Len(all)] = user[Len(user)]
  <2>1. Len(user) > 0
    BY <1>4
  <2> QED BY <1>1, <1>4, <2>1, LastOfConcat, Zenon
<1>6. CallFrames(style) = all
  BY <1>2 DEF user
<1> HIDE DEF all
<1>7. Len(all) = StacktraceSkip(style) + 1 /\ StacktraceSkip(style) \in Nat
  BY <1>1, <1>3, <1>4, <1>5
<1>8. all[Len(all)] = "user"
  BY <1>4, <1>5
<1> QED BY <1>5, <1>6, <1>7, <1>8, Zenon

\* Skipping the frames of the library leaves the caller on top.
LEMMA TraceBeginsAtUser ==
    ASSUME NEW style \in Styles, NEW frames \in Seq(Frames)
    PROVE  Head(CurrentTrace(frames \o CallFrames(style),
                             Len(frames) + StacktraceSkip(style))) = "user"
<1> DEFINE n == Len(frames)
           skip == StacktraceSkip(style)
           stack == frames \o CallFrames(style)
           all == <<"stacktrace::current">> \o stack
<1>1. /\ stack \in Seq(Frames) /\ Len(stack) = n + skip + 1 /\ stack[Len(stack)] = "user"
      /\ skip \in Nat /\ n \in Nat
  BY FramesEndAtUser, LastOfConcat
<1>2. CurrentTrace(stack, n + skip) = SubSeq(all, CalcSkip(n + skip) + 1, Len(all))
  BY Zenon DEF CurrentTrace
<1>3. CalcSkip(n + skip) + 1 = n + skip + 2
  <2> HIDE DEF n, skip
  <2> QED BY <1>1 DEF CalcSkip
<1> HIDE DEF stack, n, skip
<1>4. all \in Seq(Frames) /\ Len(all) = n + skip + 2 /\ all[Len(all)] = "user"
  <2>1. /\ all \in Seq(Frames) /\ Len(all) = Len(<<"stacktrace::current">>) + Len(stack)
        /\ all[Len(all)] = stack[Len(stack)]
    BY <1>1, FramesAre, LastOfConcat
  <2>2. Len(<<"stacktrace::current">>) = 1
    BY FramesAre
  <2> HIDE DEF all
  <2> QED BY <1>1, <2>1, <2>2
<1> HIDE DEF all
<1>5. Head(SubSeq(all, Len(all), Len(all))) = all[Len(all)]
  BY <1>1, <1>4
<1> QED BY <1>2, <1>3, <1>4, <1>5, Zenon DEF stack, n, skip

\* What is reported of a call came from the user, once it is to be reported.
TraceInv ==
    running.phase \in {"get", "deliver"} /\ running.overload # <<>> =>
        running.report.call.from = "user"

LEMMA TracePreserved == FrameInv /\ CallInv /\ TraceInv /\ [Next]_vars => TraceInv'
<1> SUFFICES ASSUME FrameInv, CallInv, TraceInv, [Next]_vars
             PROVE  TraceInv'
  OBVIOUS
<1>1. ASSUME NEW frames \in Seq(Frames), running.overload # <<>>
      PROVE  MakeCallReport(frames, Len(frames)).from = "user"
  <2>1. running.info.baseStacktraceSkip = StacktraceSkip(program.style)
    BY <1>1 DEF CallInv
  <2>2. Head(CurrentTrace(frames \o CallFrames(program.style),
                          Len(frames) + StacktraceSkip(program.style))) = "user"
    BY ProgramAssumed, TraceBeginsAtUser
  <2>3. \A target, info, trace : CallReport(target, info, trace).from = Head(trace)
    BY DEF CallReport
  <2> QED BY <2>1, <2>2, <2>3, Zenon DEF MakeCallReport
<1>2. ASSUME running'.phase \notin {"get", "deliver"}
      PROVE  TraceInv'
  BY <1>2 DEF TraceInv
<1>3. ASSUME NEW object, NEW stated, Expect(object, stated)
      PROVE  TraceInv'
  <2>1. running' = Idle
    BY <1>3 DEF Expect
  <2> QED BY <1>2, <2>1, IdleLocals
<1>4. ASSUME NEW key, NEW at, Destroy(key, at)
      PROVE  TraceInv'
  <2>1. \E report : running' \in {Idle, [Idle EXCEPT !.phase = "get", !.report = report]}
    BY <1>4, Zenon DEF Destroy
  <2>2. running'.overload = <<>>
    BY <2>1, IdleLocals DEF Locals
  <2> QED BY <2>2 DEF TraceInv
<1>5. ASSUME NEW overload, NEW method, NEW args, Begin(overload, method, args)
      PROVE  TraceInv'
  <2>1. running'.phase = "evaluate"
    BY <1>5 DEF Begin, Idle
  <2> QED BY <1>2, <2>1
<1>6. ASSUME Evaluate
      PROVE  TraceInv'
  <2> DEFINE next == [running EXCEPT !.todo = running.todo - 1]
             frames == <<"determine_requirement_outcomes", "evaluate_expectations",
                         "handle_call">>
             call == MakeCallReport(frames, 3)
  <2>1. DOMAIN next = Locals /\ next.phase = "evaluate" /\ running.overload # <<>>
    BY <1>6 DEF Locals, Evaluate, FrameInv, CallInv
  <2>2. \E expectation, noMatches, inapplicable, matches :
           running' \in {[next EXCEPT !.phase = "get",
                                      !.report = [is |-> "unhandled_exception", call |-> call,
                                                  expectation |-> expectation]],
                         [next EXCEPT !.noMatches = noMatches],
                         [next EXCEPT !.inapplicable = inapplicable],
                         [next EXCEPT !.matches = matches]}
    BY <1>6, Zenon DEF Evaluate
  <2>3. call.from = "user"
    <3>1. frames \in Seq(Frames) /\ Len(frames) = 3
      BY FramesAre
    <3> HIDE DEF frames
    <3> QED BY <1>1, <2>1, <3>1
  <2> HIDE DEF next, call
  <2>4. PICK expectation, noMatches, inapplicable, matches :
           running' \in {[next EXCEPT !.phase = "get",
                                      !.report = [is |-> "unhandled_exception", call |-> call,
                                                  expectation |-> expectation]],
                         [next EXCEPT !.noMatches = noMatches],
                         [next EXCEPT !.inapplicable = inapplicable],
                         [next EXCEPT !.matches = matches]}
    BY <2>2, Zenon
  <2>5. CASE running' = [next EXCEPT !.phase = "get",
                                     !.report = [is |-> "unhandled_exception", call |-> call,
                                                 expectation |-> expectation]]
    <3>1. running'.report.call = call
      BY <2>1, <2>5 DEF Locals
    <3> QED BY <2>3, <3>1, Zenon DEF TraceInv
  <2>6. CASE running'.phase = "evaluate"
    BY <1>2, <2>6
  <2> QED BY <2>1, <2>4, <2>5, <2>6 DEF Locals
<1>7. ASSUME Decide
      PROVE  TraceInv'
  <2> DEFINE frames == <<"handle_call">>
             call == MakeCallReport(frames, 1)
  <2>1. /\ DOMAIN running = Locals /\ running.phase = "evaluate" /\ running.overload # <<>>
    BY <1>7 DEF Decide, FrameInv, CallInv
  <2>2. call.from = "user"
    <3>1. frames \in Seq(Frames) /\ Len(frames) = 1
      BY FramesAre
    <3> HIDE DEF frames
    <3> QED BY <1>1, <2>1, <3>1
  <2>3. \E kind, item, chosen :
           running' \in
               {[running EXCEPT !.phase = "consume", !.chosen = chosen],
                [running EXCEPT !.phase = "get", !.chosen = chosen,
                                !.report = [is |-> kind, call |-> call, expectation |-> item]],
                [running EXCEPT !.phase = "get",
                                !.report = [is |-> kind, call |-> call, expectations |-> item]]}
    BY <1>7, Zenon DEF Decide
  <2> HIDE DEF call
  <2>4. running'.phase = "consume" \/ running'.report.call = call
    <3>1. ASSUME NEW report, NEW chosen, report.call = call,
                 running' \in {[running EXCEPT !.phase = "consume", !.chosen = chosen],
                               [running EXCEPT !.phase = "get", !.chosen = chosen,
                                               !.report = report],
                               [running EXCEPT !.phase = "get", !.report = report]}
          PROVE  running'.phase = "consume" \/ running'.report = report
      BY <2>1, <3>1 DEF Locals
    <3>2. \A kind, item : /\ [is |-> kind, call |-> call, expectation |-> item].call = call
                          /\ [is |-> kind, call |-> call, expectations |-> item].call = call
      OBVIOUS
    <3>3. \E report, chosen :
             /\ report.call = call
             /\ running' \in {[running EXCEPT !.phase = "consume", !.chosen = chosen],
                               [running EXCEPT !.phase = "get", !.chosen = chosen,
                                               !.report = report],
                               [running EXCEPT !.phase = "get", !.report = report]}
      BY <2>3, <3>2, Zenon
    <3> QED BY <3>1, <3>3, Zenon
  <2> QED BY <1>2, <2>2, <2>4, Zenon DEF TraceInv
<1>8. GetTheReporter => TraceInv'
  BY GetSteps DEF TraceInv, SameCall
<1>9. Consume => TraceInv'
  BY <1>2, ConsumeSteps
<1>10. Finalize => TraceInv'
  BY <1>2, FinalizeSteps
<1>11. Deliver => TraceInv'
  BY <1>2, DeliverSteps
<1>12. InstallReporter => running' = running
  BY DEF InstallReporter
<1>13. UNCHANGED vars => running' = running
  BY DEF vars
<1>14. ASSUME running' = running
       PROVE  TraceInv'
  BY <1>14 DEF TraceInv
<1>15. ASSUME NEW object, NEW passed, CallDirect(object, passed)
       PROVE  TraceInv'
  BY <1>5, <1>15, Zenon DEF CallDirect
<1>16. ASSUME NEW i, NEW passed, CallMethod(i, passed)
       PROVE  TraceInv'
  BY <1>5, <1>16, Zenon DEF CallMethod
<1> QED BY <1>3, <1>4, <1>6, <1>7, <1>8, <1>9, <1>10, <1>11, <1>12, <1>13, <1>14, <1>15,
           <1>16, Zenon DEF Next

\* Whichever way a mock is called, and at whichever depth a report is made, its
\* trace begins at the user's code (Mock.hpp, Facade.hpp, Stacktrace.hpp).
THEOREM TracesBegin == Spec => []TracesBeginAtTheCaller
<1>1. Init => TraceInv
  BY IdleLocals DEF Init, TraceInv
<1>2. FrameInv /\ CallInv /\ TraceInv /\ [Next]_vars => TraceInv'
  BY TracePreserved
<1>3. TraceInv => TracesBeginAtTheCaller
  BY DEF TraceInv, TracesBeginAtTheCaller, IsReporting, IsCall
<1> QED BY <1>1, <1>2, <1>3, FrameHolds, CallHolds, PTL DEF Spec

-----------------------------------------------------------------------------
\* Which expectations serve a call.

\* Overloads that share a collection are told apart by what the policies compare.
LEMMA SharersAreApart ==
    ASSUME FrameInv, IsOverloadSet(mock.overloads),
           NEW s \in ToSet(mock.overloads), NEW t \in ToSet(mock.overloads),
           Decay(s) = Decay(t), s.const = t.const, IsMatching(t.ref, s.ref)
    PROVE  s = t
<1>1. IsOverload(s) /\ IsOverload(t)
  BY MockDeclared
<1>2. s.params = t.params
  <2>1. ParamList(s) = s.params /\ ParamList(t) = t.params
    BY <1>1, DecayOf DEF IsOverload
  <2> QED BY <2>1, Zenon DEF ParamList
<1>3. s.ref # t.ref => ~((s.ref = "any") = (t.ref = "any"))
  <2> SUFFICES ASSUME s.ref # t.ref, (s.ref = "any") = (t.ref = "any")
               PROVE  FALSE
    OBVIOUS
  <2>1. s.ref # "any" /\ t.ref # "any"
    OBVIOUS
  <2> QED BY <2>1 DEF IsMatching, Bits
<1>4. ~IsOverloadableWith(s, t) /\ ~IsOverloadableWith(t, s)
  <2>1. IsSignature(s) /\ IsSignature(t)
    BY <1>1 DEF IsOverload
  <2>2. IsOverloadableWith(s, t) <=>
            \/ s.params # t.params
            \/ /\ s.const # t.const \/ s.ref # t.ref
               /\ (s.ref = "any") = (t.ref = "any")
    BY <2>1, OverloadableMeans
  <2>3. IsOverloadableWith(t, s) <=>
            \/ t.params # s.params
            \/ /\ t.const # s.const \/ t.ref # s.ref
               /\ (t.ref = "any") = (s.ref = "any")
    BY <2>1, OverloadableMeans
  <2>4. (t.ref = "any") = (s.ref = "any") => (s.ref = "any") = (t.ref = "any")
    OBVIOUS
  <2> QED BY <1>2, <1>3, <2>2, <2>3, <2>4
<1>5. PICK i \in DOMAIN mock.overloads : s = mock.overloads[i]
  BY DEF ToSet
<1>6. PICK j \in DOMAIN mock.overloads : t = mock.overloads[j]
  BY DEF ToSet
<1>7. i \in Nat /\ j \in Nat /\ i >= 1 /\ j >= 1
  BY MockDeclared
<1>8. ~(i < j)
  <2>1. i < j => i \in 1 .. j - 1
    BY <1>7
  <2> QED BY <1>4, <1>5, <1>6, <2>1, Zenon DEF IsOverloadSet
<1>9. ~(j < i)
  <2>1. j < i => j \in 1 .. i - 1
    BY <1>7
  <2> QED BY <1>4, <1>5, <1>6, <2>1, Zenon DEF IsOverloadSet
<1> QED BY <1>5, <1>6, <1>7, <1>8, <1>9

\* What is collected was stated for one of the overloads that share the collection.
Collected(overloads, n, e, key) ==
    /\ DOMAIN e = {"id", "target", "policies", "finalizer", "min", "max", "count", "clauses"}
    /\ e.id \in 1 .. n
    /\ e.min \in Nat /\ e.max \in Nat /\ e.min <= e.max
    /\ e.count \in 0 .. e.max
    /\ IsSequence(e.policies)
    /\ \E s \in ToSet(overloads) :
          /\ Decay(s) = key
          /\ e.target = RemoveCallConvention(s)
          /\ \E i \in DOMAIN e.policies : e.policies[i] = Category(s.ref)
          /\ \E i \in DOMAIN e.policies : e.policies[i] = Constness(s.const)

CollectionsInv ==
    /\ created \in 0 .. MaxExpectations
    /\ calls \in 0 .. MaxCalls
    /\ DOMAIN collections = {Decay(s) : s \in ToSet(mock.overloads)}
    /\ \A key \in DOMAIN collections :
          /\ IsSequence(collections[key])
          /\ \A at \in DOMAIN collections[key] :
                Collected(mock.overloads, created, collections[key][at], key)

\* An expectation whose policies all match was stated for the overload that is called.
LEMMA MatchesServe ==
    ASSUME FrameInv, CallInv, running.overload # <<>>,
           NEW e, Collected(mock.overloads, created, e, running.key),
           ~ \E i \in DOMAIN RequirementOutcomes(e, running.info) :
                ~RequirementOutcomes(e, running.info)[i]
    PROVE  e.target = RemoveCallConvention(running.overload)
<1> DEFINE t == running.overload
           info == running.info
           outcomes == RequirementOutcomes(e, info)
<1>1. PICK s \in ToSet(mock.overloads) :
          /\ Decay(s) = running.key
          /\ e.target = RemoveCallConvention(s)
          /\ \E i \in DOMAIN e.policies : e.policies[i] = Category(s.ref)
          /\ \E i \in DOMAIN e.policies : e.policies[i] = Constness(s.const)
  BY Zenon DEF Collected
<1>2. /\ t \in ToSet(mock.overloads) /\ running.key = Decay(t) /\ mock.compiles
      /\ info.fromCategory = t.ref /\ info.fromConst = t.const
  BY DEF CallInv
<1>3. \A i \in DOMAIN e.policies : PolicyMatches(e.policies[i], info)
  <2>1. outcomes = [i \in DOMAIN e.policies |-> PolicyMatches(e.policies[i], info)]
    BY DEF RequirementOutcomes
  <2> HIDE DEF outcomes
  <2>2. DOMAIN outcomes = DOMAIN e.policies
    BY <2>1
  <2>3. \A i \in DOMAIN e.policies : outcomes[i]
    BY <2>2 DEF outcomes
  <2>4. \A i \in DOMAIN e.policies : outcomes[i] = PolicyMatches(e.policies[i], info)
    BY <2>1, Zenon
  <2> QED BY <2>3, <2>4
<1>4. IsMatching(t.ref, s.ref)
  <2>1. PICK i \in DOMAIN e.policies : e.policies[i] = Category(s.ref)
    BY <1>1
  <2>2. PolicyMatches(Category(s.ref), info)
    BY <1>3, <2>1
  <2>3. Category(s.ref).is = "category" /\ Category(s.ref).expected = s.ref
    BY DEF Category
  <2> QED BY <1>2, <2>2, <2>3 DEF PolicyMatches
<1>5. t.const = s.const
  <2>1. PICK i \in DOMAIN e.policies : e.policies[i] = Constness(s.const)
    BY <1>1
  <2>2. PolicyMatches(Constness(s.const), info)
    BY <1>3, <2>1
  <2>3. Constness(s.const).is = "constness" /\ Constness(s.const).expected = s.const
    BY DEF Constness
  <2>4. PolicyMatches(Constness(s.const), info) <=> info.fromConst = Constness(s.const).expected
    BY <2>3 DEF PolicyMatches
  <2>5. info.fromConst = s.const
    BY <2>2, <2>3, <2>4
  <2> QED BY <1>2, <2>5
<1>6. IsOverloadSet(mock.overloads)
  BY <1>2, CompilesMeans
<1>7. s = t
  BY <1>1, <1>2, <1>4, <1>5, <1>6, SharersAreApart
<1> QED BY <1>1, <1>7

\* Lists: what the vectors of the mock and of a call are.
LEMMA Lists ==
    ASSUME NEW s
    PROVE  /\ IsSequence(s) => DOMAIN s = 1 .. Len(s) /\ s \in Seq(ToSet(s))
           /\ \A S : s \in Seq(S) => IsSequence(s) /\ \A i \in DOMAIN s : s[i] \in S
<1>1. ASSUME IsSequence(s)
      PROVE  DOMAIN s = 1 .. Len(s) /\ s \in Seq(ToSet(s))
  <2>1. Len(s) \in Nat /\ s = [i \in 1 .. Len(s) |-> s[i]] /\ DOMAIN s = 1 .. Len(s)
    BY <1>1 DEF IsSequence
  <2>2. \A i \in 1 .. Len(s) : s[i] \in ToSet(s)
    BY <2>1 DEF ToSet
  <2> QED BY <2>1, <2>2
<1>2. ASSUME NEW S, s \in Seq(S)
      PROVE  IsSequence(s) /\ \A i \in DOMAIN s : s[i] \in S
  BY <1>2 DEF IsSequence
<1> QED BY <1>1, <1>2

\* A list with one element at the end.
LEMMA Appended ==
    ASSUME NEW s, IsSequence(s), NEW x
    PROVE  /\ IsSequence(Append(s, x))
           /\ \A i \in DOMAIN Append(s, x) :
                 Append(s, x)[i] = x \/ (i \in DOMAIN s /\ Append(s, x)[i] = s[i])
<1> DEFINE S == ToSet(s) \cup {x}
<1>1. s \in Seq(ToSet(s)) /\ DOMAIN s = 1 .. Len(s)
  BY Lists
<1>2. s \in Seq(S)
  <2>1. ToSet(s) \subseteq S
    OBVIOUS
  <2> QED BY <1>1, <2>1, SeqMonotonic, Zenon
<1>3. x \in S
  OBVIOUS
<1> HIDE DEF S
<1>4. /\ Append(s, x) \in Seq(S) /\ Len(Append(s, x)) = Len(s) + 1 /\ Len(s) \in Nat
      /\ DOMAIN Append(s, x) = 1 .. Len(s) + 1
      /\ Append(s, x)[Len(s) + 1] = x
      /\ \A i \in 1 .. Len(s) : Append(s, x)[i] = s[i]
  BY <1>2, <1>3
<1>5. IsSequence(Append(s, x))
  BY <1>4, Lists
<1>6. \A i \in 1 .. Len(s) + 1 : i = Len(s) + 1 \/ i \in 1 .. Len(s)
  BY <1>4
<1> QED BY <1>1, <1>4, <1>5, <1>6

\* A list with one element at the front.
LEMMA Prepended ==
    ASSUME NEW s, IsSequence(s), NEW x
    PROVE  IsSequence(<<x>> \o s)
<1> DEFINE S == ToSet(s) \cup {x}
<1>1. s \in Seq(S)
  <2>1. ToSet(s) \subseteq S /\ s \in Seq(ToSet(s))
    BY Lists
  <2> QED BY <2>1, SeqMonotonic, Zenon
<1>2. <<x>> \in Seq(S)
  <2>1. x \in S
    OBVIOUS
  <2> HIDE DEF S
  <2> QED BY <2>1, Tuples, Zenon
<1>3. <<x>> \o s \in Seq(S)
  BY <1>1, <1>2, ConcatProperties, Zenon
<1> QED BY <1>3, Lists, Zenon

\* A list without one of its elements.
LEMMA Removed ==
    ASSUME NEW s, IsSequence(s), NEW at \in DOMAIN s
    PROVE  /\ IsSequence(RemoveAt(s, at))
           /\ \A i \in DOMAIN RemoveAt(s, at) :
                 \E k \in DOMAIN s : RemoveAt(s, at)[i] = s[k]
<1> DEFINE S == ToSet(s)
           r == RemoveAt(s, at)
<1>1. s \in Seq(S) /\ DOMAIN s = 1 .. Len(s) /\ Len(s) \in Nat
  BY Lists DEF IsSequence
<1>2. r = SubSeq(s, 1, at - 1) \o SubSeq(s, at + 1, Len(s))
  BY Zenon DEF RemoveAt
<1> HIDE DEF S
<1>3. SubSeq(s, 1, at - 1) \in Seq(S) /\ SubSeq(s, at + 1, Len(s)) \in Seq(S)
  BY <1>1
<1>4. r \in Seq(S)
  BY <1>2, <1>3, ConcatProperties, Zenon
<1>5. IsSequence(r) /\ \A i \in DOMAIN r : r[i] \in S
  BY <1>4, Lists, Zenon
<1>6. \A x \in S : \E k \in DOMAIN s : x = s[k]
  BY DEF S, ToSet
<1> HIDE DEF r
<1> QED BY <1>5, <1>6, Zenon DEF r

\* The empty list is a sequence of anything.
LEMMA SequenceStarts == IsSequence(<<>>) /\ DOMAIN <<>> = {}
  BY DEF IsSequence

-----------------------------------------------------------------------------

\* An expectation of the collection is the caller's to use.
Serves(e, overload) ==
    /\ e.target = RemoveCallConvention(overload)
    /\ e.count < e.max

WillConsume(r) ==
    \/ r.phase = "consume"
    \/ r.phase \in {"get", "deliver"} /\ r.report.is = "full_match"

\* What handle_call has found is still so when it uses it.
Handles(r, candidates) ==
    /\ r.todo \in 0 .. Len(candidates)
    /\ IsSequence(r.matches) /\ IsSequence(r.inapplicable)
    /\ \A k \in DOMAIN r.inapplicable : r.inapplicable[k] \in DOMAIN candidates
    /\ \A k \in DOMAIN r.matches :
          /\ r.matches[k] \in DOMAIN candidates
          /\ r.phase \in {"evaluate", "get", "deliver"} =>
                Serves(candidates[r.matches[k]], r.overload)
    /\ r.chosen # 0 =>
          /\ r.chosen \in DOMAIN candidates
          /\ candidates[r.chosen].target = RemoveCallConvention(r.overload)
    /\ WillConsume(r) => r.chosen # 0 /\ Serves(candidates[r.chosen], r.overload)

HandlerInv ==
    running.overload # <<>> /\ IsRunning => Handles(running, Candidates)

ServingInv == CollectionsInv /\ HandlerInv

\* At first there are no expectations, and there is no call.
LEMMA ServingStarts == Init /\ FrameInv => ServingInv
<1> SUFFICES ASSUME Init, FrameInv
             PROVE  ServingInv
  OBVIOUS
<1>1. running.overload = <<>>
  BY IdleLocals DEF Init
<1>2. CollectionsInv
  <2>1. /\ created = 0 /\ calls = 0
        /\ collections = [d \in {Decay(s) : s \in ToSet(mock.overloads)} |-> <<>>]
    BY DEF Init
  <2> QED BY <2>1, SequenceStarts, BoundsAssumption DEF CollectionsInv
<1> QED BY <1>1, <1>2 DEF ServingInv, HandlerInv

\* The limits, the overload and the policies of an expectation that is stated.
LEMMA ExpectCollects ==
    ASSUME FrameInv, CollectionsInv, NEW object, NEW stated \in program.expectations,
           Expect(object, stated)
    PROVE  \E key \in DOMAIN collections : \E e :
              /\ created' = created + 1 /\ created < MaxExpectations
              /\ Collected(mock.overloads, created', e, key)
              /\ collections' = [collections EXCEPT ![key] = Append(collections[key], e)]
<1> DEFINE found == Resolve(mock.overloads, object, ForThis("_", stated.types))
           overload == CHOOSE s \in found : TRUE
           args == ForThis(Wildcard, stated.args)
           b == Built(overload, args, stated.clauses)
           e == [id |-> created + 1, target |-> b.target, policies |-> b.policies,
                 finalizer |-> b.finalizer, min |-> b.min, max |-> b.max,
                 count |-> 0, clauses |-> stated.clauses]
           key == Decay(overload)
<1>1. /\ created' = created + 1 /\ created < MaxExpectations /\ found # {}
      /\ collections' = [collections EXCEPT ![key] = Append(collections[key], e)]
      /\ mock' = mock
  BY Zenon DEF Expect
<1>2. overload \in ToSet(mock.overloads)
  <2>1. overload \in found
    <3> HIDE DEF found
    <3> QED BY <1>1
  <2>2. found \subseteq ToSet(mock.overloads)
    BY Zenon DEF Resolve
  <2> HIDE DEF overload, found
  <2> QED BY <2>1, <2>2
<1>3. key \in DOMAIN collections
  <2> HIDE DEF overload
  <2> QED BY <1>2 DEF CollectionsInv
<1> HIDE DEF overload, key
<1>4. IsSequence(args)
  <2>1. IsSequence(stated.args)
    BY ProgramAssumed
  <2> QED BY <2>1, Prepended, Zenon DEF ForThis
<1>5. b \in Builders(overload, args, stated.clauses)
  <2>1. /\ IsSequence(stated.clauses)
        /\ \A i \in DOMAIN stated.clauses : HasLimits(stated.clauses[i])
    BY ProgramAssumed
  <2> HIDE DEF args
  <2> QED BY <1>4, <2>1, BuiltIsBuilder
<1> DEFINE m == Len(args)
<1>6. m \in Nat
  BY <1>4 DEF IsSequence
<1> HIDE DEF args
<1>7. /\ b.target = RemoveCallConvention(overload)
      /\ b.min \in Nat /\ b.max \in Nat /\ b.min <= b.max
      /\ DOMAIN b.policies = 1 .. Len(b.policies) /\ Len(b.policies) \in Nat
      /\ IsSequence(b.policies)
      /\ Len(b.policies) >= m + 2
      /\ b.policies[m + 1] = Category(overload.ref)
      /\ b.policies[m + 2] = Constness(overload.const)
  <2> DEFINE made == MakeExpectationBuilder(overload, args)
             P == ToSet(made.policies) \cup ToSet(stated.clauses)
             F == {InitFinalize} \cup ToSet(stated.clauses)
  <2>1. /\ b \in [target : {made.target}, policies : Seq(P), timesConfigured : BOOLEAN,
                  min : Nat, max : Nat, finalizer : F]
        /\ b.min <= b.max
        /\ Len(b.policies) >= m + 2
        /\ b.policies[m + 1] = Category(overload.ref)
        /\ b.policies[m + 2] = Constness(overload.const)
    BY <1>5, Zenon DEF Builders
  <2>2. made.target = RemoveCallConvention(overload)
    BY DEF MakeExpectationBuilder
  <2> HIDE DEF b, made, P, F
  <2>3. b.target = made.target /\ b.min \in Nat /\ b.max \in Nat /\ b.policies \in Seq(P)
    BY <2>1
  <2>4. DOMAIN b.policies = 1 .. Len(b.policies) /\ Len(b.policies) \in Nat
    BY <2>3
  <2>5. IsSequence(b.policies)
    BY <2>3, Lists, Zenon
  <2> QED BY <2>1, <2>2, <2>3, <2>4, <2>5, Zenon
<1> HIDE DEF b, m
<1>8. /\ DOMAIN e = {"id", "target", "policies", "finalizer", "min", "max", "count", "clauses"}
      /\ e.id = created + 1 /\ e.target = b.target /\ e.policies = b.policies
      /\ e.min = b.min /\ e.max = b.max /\ e.count = 0
  OBVIOUS
<1> HIDE DEF e
<1>9. created + 1 \in 1 .. created + 1 /\ 0 \in 0 .. b.max
  BY <1>7, BoundsAssumption DEF CollectionsInv
<1>10. m + 1 \in DOMAIN b.policies /\ m + 2 \in DOMAIN b.policies
  BY <1>6, <1>7
<1>11. Decay(overload) = key
  BY DEF key
<1>12. Collected(mock.overloads, created', e, key)
  <2>1. /\ e.id \in 1 .. created' /\ e.min \in Nat /\ e.max \in Nat /\ e.min <= e.max
        /\ e.count \in 0 .. e.max /\ IsSequence(e.policies)
    BY <1>1, <1>7, <1>8, <1>9
  <2>2. /\ e.target = RemoveCallConvention(overload)
        /\ \E i \in DOMAIN e.policies : e.policies[i] = Category(overload.ref)
        /\ \E i \in DOMAIN e.policies : e.policies[i] = Constness(overload.const)
    BY <1>7, <1>8, <1>10
  <2> QED BY <1>2, <1>8, <1>11, <2>1, <2>2, Zenon DEF Collected
<1> QED BY <1>1, <1>3, <1>12

\* An expectation stays collected as others come and go.
LEMMA StaysCollected ==
    ASSUME NEW overloads, NEW n \in Nat, NEW e, NEW key, Collected(overloads, n, e, key)
    PROVE  Collected(overloads, n + 1, e, key)
<1>1. e.id \in 1 .. n + 1
  BY DEF Collected
<1> QED BY <1>1, Zenon DEF Collected

\* Each collection holds expectations of overloads that share it: only Expect
\* adds one, and every action that replaces one keeps its target.
LEMMA CollectionsPreserved ==
    FrameInv /\ CallInv /\ ServingInv /\ [Next]_vars => CollectionsInv'
<1> SUFFICES ASSUME FrameInv, CallInv, ServingInv, [Next]_vars
             PROVE  CollectionsInv'
  OBVIOUS
<1> DEFINE Keys == {Decay(s) : s \in ToSet(mock.overloads)}
           Good(c) == /\ DOMAIN c = Keys
                      /\ \A key \in Keys :
                            /\ IsSequence(c[key])
                            /\ \A at \in DOMAIN c[key] :
                                  Collected(mock.overloads, created', c[key][at], key)
<1>1. program' = program /\ mock' = mock
  BY DeclarationKept
<1>2. /\ created \in 0 .. MaxExpectations /\ calls \in 0 .. MaxCalls
      /\ DOMAIN collections = Keys
      /\ \A key \in Keys :
            /\ IsSequence(collections[key])
            /\ \A at \in DOMAIN collections[key] :
                  Collected(mock.overloads, created, collections[key][at], key)
      /\ created \in Nat /\ calls \in Nat
  BY DEF ServingInv, CollectionsInv
<1> HIDE DEF Keys
<1>3. ASSUME Good(collections'), created' \in 0 .. MaxExpectations, calls' \in 0 .. MaxCalls
      PROVE  CollectionsInv'
  BY <1>1, <1>3, Zenon DEF CollectionsInv, Keys
<1>4. ASSUME created' \in {created, created + 1}
      PROVE  Good(collections)
  <2>1. CASE created' = created
    BY <1>2, <2>1
  <2>2. CASE created' = created + 1
    BY <1>2, <2>2, StaysCollected
  <2> QED BY <1>4, <2>1, <2>2
<1>5. ASSUME collections' = collections, created' = created, calls' \in {calls, calls + 1},
             calls' <= MaxCalls
      PROVE  CollectionsInv'
  <2>1. calls' \in 0 .. MaxCalls
    BY <1>2, <1>5, BoundsAssumption
  <2> HIDE DEF Good
  <2> QED BY <1>2, <1>3, <1>4, <1>5, <2>1
<1>6. ASSUME NEW object, NEW stated \in program.expectations, Expect(object, stated)
      PROVE  CollectionsInv'
  <2> DEFINE Collects(key, e) ==
                 /\ created' = created + 1 /\ created < MaxExpectations
                 /\ Collected(mock.overloads, created', e, key)
                 /\ collections' = [collections EXCEPT ![key] = Append(collections[key], e)]
  <2>1. PICK key \in DOMAIN collections : \E e : Collects(key, e)
    BY <1>6, ExpectCollects DEF ServingInv
  <2>2. PICK e : Collects(key, e)
    BY <2>1
  <2>3. /\ created' = created + 1 /\ created < MaxExpectations
        /\ Collected(mock.overloads, created', e, key)
        /\ collections' = [collections EXCEPT ![key] = Append(collections[key], e)]
    BY <2>2
  <2>4. calls' = calls
    BY <1>6 DEF Expect
  <2>5. Good(collections)
    BY <1>4, <2>3
  <2>6. /\ IsSequence(Append(collections[key], e))
        /\ \A at \in DOMAIN Append(collections[key], e) :
              Collected(mock.overloads, created', Append(collections[key], e)[at], key)
    <3>1. IsSequence(collections[key])
      BY <1>2, <2>3
    <3>2. \A at \in DOMAIN collections[key] :
    Collected(mock.overloads, created', collections[key][at], key)
      BY <1>2, <2>3, <2>5
    <3> QED BY <2>3, <3>1, <3>2, Appended
  <2>7. Good(collections')
    BY <1>2, <2>3, <2>5, <2>6
  <2> HIDE DEF Good
  <2> QED BY <1>2, <1>3, <2>3, <2>4, <2>7, BoundsAssumption
<1>7. ASSUME NEW key \in DOMAIN collections, NEW at \in DOMAIN collections[key],
             Destroy(key, at)
      PROVE  CollectionsInv'
  <2>1. /\ collections' = [collections EXCEPT ![key] = RemoveAt(collections[key], at)]
        /\ created' = created /\ calls' = calls
    BY <1>7, Zenon DEF Destroy
  <2>2. Good(collections)
    BY <1>4, <2>1
  <2>3. /\ IsSequence(RemoveAt(collections[key], at))
        /\ \A i \in DOMAIN RemoveAt(collections[key], at) :
              Collected(mock.overloads, created', RemoveAt(collections[key], at)[i], key)
    <3>1. IsSequence(collections[key])
      BY <1>2, <1>7
    <3>2. \A i \in DOMAIN collections[key] :
             Collected(mock.overloads, created', collections[key][i], key)
      BY <1>2, <1>7, <2>2
    <3> QED BY <1>7, <3>1, <3>2, Removed
  <2>4. Good(collections')
    BY <1>2, <2>1, <2>2, <2>3
  <2> HIDE DEF Good
  <2> QED BY <1>2, <1>3, <2>1, <2>4
<1>8. ASSUME Consume
      PROVE  CollectionsInv'
  <2> DEFINE key == running.key
             at == running.chosen
             e == collections[key][at]
             f == [e EXCEPT !.count = e.count + 1]
  <2>1. /\ collections' = [collections EXCEPT ![key][at].count = e.count + 1]
        /\ created' = created /\ calls' = calls /\ running.phase = "consume"
    BY <1>8, Zenon DEF Consume, Exp
  <2>2. running.overload # <<>> /\ running.key = Decay(running.overload)
        /\ running.overload \in ToSet(mock.overloads)
    BY <2>1 DEF CallInv
  <2>3. key \in Keys /\ at \in DOMAIN collections[key] /\ e.count < e.max
    BY <2>1, <2>2 DEF ServingInv, HandlerInv, IsRunning, WillConsume, Handles, Serves,
                      Candidates, Keys
  <2>4. Collected(mock.overloads, created', e, key)
    BY <1>2, <2>1, <2>3
  <2> HIDE DEF e, key, at
  <2>5. Collected(mock.overloads, created', f, key)
    <3>1. /\ DOMAIN f = DOMAIN e /\ f.id = e.id /\ f.min = e.min /\ f.max = e.max
          /\ f.target = e.target /\ f.policies = e.policies
          /\ f.count = e.count + 1
      BY <2>4 DEF Collected
    <3>2. f.count \in 0 .. f.max
      BY <2>3, <2>4, <3>1 DEF Collected
    <3> HIDE DEF f
    <3> QED BY <2>4, <3>1, <3>2, Zenon DEF Collected
  <2>6. Good(collections)
    BY <1>4, <2>1
  <2> DEFINE c == [collections[key] EXCEPT ![at] = f]
  <2>7. collections' = [collections EXCEPT ![key] = c]
    BY <2>1 DEF e
  <2>8. IsSequence(c) /\ \A i \in DOMAIN c : Collected(mock.overloads, created', c[i], key)
    <3>1. Len(collections[key]) \in Nat
          /\ collections[key] = [i \in 1 .. Len(collections[key]) |-> collections[key][i]]
      BY <1>2, <2>3 DEF IsSequence
    <3> HIDE DEF f
    <3>2. c = [i \in 1 .. Len(collections[key]) |-> c[i]] /\ DOMAIN c = DOMAIN collections[key]
      BY <3>1
    <3>3. \A i \in DOMAIN c : c[i] = f \/ c[i] = collections[key][i]
      OBVIOUS
    <3>4. IsSequence(c)
      <4>1. Len(c) = Len(collections[key])
        BY <3>1, <3>2
      <4> QED BY <3>1, <3>2, <4>1 DEF IsSequence
    <3> QED BY <2>3, <2>5, <2>6, <3>2, <3>3, <3>4
  <2> HIDE DEF c
  <2>9. Good(collections')
    BY <1>2, <2>3, <2>6, <2>7, <2>8
  <2> HIDE DEF Good
  <2> QED BY <1>2, <1>3, <2>1, <2>9
<1>9. ASSUME NEW overload, NEW method, NEW args, Begin(overload, method, args)
      PROVE  CollectionsInv'
  <2>1. collections' = collections /\ created' = created /\ calls' = calls + 1 /\ calls < MaxCalls
    BY <1>9 DEF Begin
  <2> QED BY <1>2, <1>5, <2>1, BoundsAssumption
<1>10. (\/ Evaluate \/ Decide \/ Finalize \/ GetTheReporter \/ Deliver \/ InstallReporter
        \/ UNCHANGED vars)
           => collections' = collections /\ created' = created /\ calls' = calls
  BY DEF Evaluate, Decide, Finalize, GetTheReporter, Deliver, InstallReporter, vars
<1>11. ASSUME collections' = collections, created' = created, calls' = calls
       PROVE  CollectionsInv'
  BY <1>2, <1>5, <1>11
<1>12. ASSUME NEW object, NEW passed, CallDirect(object, passed)
       PROVE  CollectionsInv'
  BY <1>9, <1>12, Zenon DEF CallDirect
<1>13. ASSUME NEW i, NEW passed, CallMethod(i, passed)
       PROVE  CollectionsInv'
  BY <1>9, <1>13, Zenon DEF CallMethod
<1> QED BY <1>6, <1>7, <1>8, <1>10, <1>11, <1>12, <1>13, Zenon DEF Next

\* What evaluate_expectations does with the next expectation.
LEMMA EvaluateFinds ==
    ASSUME FrameInv, CallInv, ServingInv, Evaluate
    PROVE  LET at == running.todo
               e == Candidates[at]
           IN  /\ running.overload # <<>> /\ running.key \in DOMAIN collections
               /\ Handles(running, Candidates) /\ at \in DOMAIN Candidates
               /\ \/ /\ running'.matches = running.matches
                     /\ running'.inapplicable \in {running.inapplicable,
                                                   Append(running.inapplicable, at)}
                  \/ /\ running'.matches = Append(running.matches, at)
                     /\ running'.inapplicable = running.inapplicable
                     /\ Serves(e, running.overload)
               /\ running'.phase = "get" => running'.report.is # "full_match"
<1> DEFINE at == running.todo
           e == Candidates[at]
           info == running.info
           outcomes == RequirementOutcomes(e, info)
           next == [running EXCEPT !.todo = at - 1]
           throws == \E i \in DOMAIN e.policies : PolicyThrows(e.policies[i])
           fails == \E i \in DOMAIN outcomes : ~outcomes[i]
           failure == NoMatchReport(e, info)
           call == MakeCallReport(<<"determine_requirement_outcomes", "evaluate_expectations",
                                    "handle_call">>, 3)
           report == [is |-> "unhandled_exception", call |-> call,
                      expectation |-> ExpectationReport(e)]
<1>1. running.phase = "evaluate" /\ running.overload # <<>> /\ at > 0
      /\ running.key = Decay(running.overload) /\ running.overload \in ToSet(mock.overloads)
  BY DEF Evaluate, CallInv
<1>2. /\ running.key \in DOMAIN collections
      /\ Handles(running, Candidates) /\ IsSequence(Candidates)
      /\ \A k \in DOMAIN Candidates : Collected(mock.overloads, created, Candidates[k], running.key)
  BY <1>1 DEF ServingInv, CollectionsInv, HandlerInv, IsRunning, Candidates
<1>3. at \in DOMAIN Candidates
  <2>1. at \in 0 .. Len(Candidates) /\ DOMAIN Candidates = 1 .. Len(Candidates)
        /\ Len(Candidates) \in Nat
    BY <1>2, Lists DEF Handles, IsSequence
  <2> QED BY <1>1, <2>1
<1>4. running' = IF throws THEN [next EXCEPT !.phase = "get", !.report = report]
                 ELSE IF fails THEN [next EXCEPT !.noMatches = Append(next.noMatches, failure)]
                 ELSE IF ~IsApplicable(e)
                 THEN [next EXCEPT !.inapplicable = Append(next.inapplicable, at)]
                 ELSE [next EXCEPT !.matches = Append(next.matches, at)]
  BY Zenon DEF Evaluate, Exp, Candidates
<1>5. /\ DOMAIN next = Locals /\ next.phase = "evaluate"
      /\ next.matches = running.matches /\ next.inapplicable = running.inapplicable
  BY <1>1 DEF FrameInv, Locals
<1>6. report.is # "full_match"
  OBVIOUS
<1>7. ASSUME ~fails, IsApplicable(e)
      PROVE  Serves(e, running.overload)
  <2>1. Collected(mock.overloads, created, e, running.key)
    BY <1>2, <1>3
  <2> HIDE DEF e
  <2>2. e.target = RemoveCallConvention(running.overload)
    BY <1>1, <1>7, <2>1, MatchesServe
  <2>3. e.count # e.max
    BY <1>7 DEF IsApplicable, ControlState
  <2>4. e.count < e.max
    BY <2>1, <2>3 DEF Collected
  <2> QED BY <2>2, <2>4 DEF Serves
<1> HIDE DEF next, report, throws, fails, failure, call, outcomes, e, at
<1>8. CASE throws
  <2>1. running' = [next EXCEPT !.phase = "get", !.report = report]
    BY <1>4, <1>8
  <2>2. /\ running'.matches = running.matches
        /\ running'.inapplicable = running.inapplicable
        /\ running'.report = report
    BY <1>5, <2>1 DEF Locals
  <2> QED BY <1>1, <1>2, <1>3, <1>6, <2>2, Zenon DEF at
<1>9. CASE ~throws /\ fails
  <2>1. running' = [next EXCEPT !.noMatches = Append(next.noMatches, failure)]
    BY <1>4, <1>9
  <2>2. /\ running'.matches = running.matches
        /\ running'.inapplicable = running.inapplicable
        /\ running'.phase # "get"
    BY <1>5, <2>1 DEF Locals
  <2> QED BY <1>1, <1>2, <1>3, <2>2, Zenon DEF at
<1>10. CASE ~throws /\ ~fails /\ ~IsApplicable(e)
  <2>1. running' = [next EXCEPT !.inapplicable = Append(next.inapplicable, at)]
    BY <1>4, <1>10
  <2>2. /\ running'.matches = running.matches
        /\ running'.inapplicable = Append(running.inapplicable, at)
        /\ running'.phase # "get"
    BY <1>5, <2>1 DEF Locals
  <2> QED BY <1>1, <1>2, <1>3, <2>2, Zenon DEF at
<1>11. CASE ~throws /\ ~fails /\ IsApplicable(e)
  <2>1. running' = [next EXCEPT !.matches = Append(next.matches, at)]
    BY <1>4, <1>11
  <2>2. /\ running'.inapplicable = running.inapplicable
        /\ running'.matches = Append(running.matches, at)
        /\ running'.phase # "get"
    BY <1>5, <2>1 DEF Locals
  <2>3. Serves(e, running.overload)
    BY <1>7, <1>11
  <2> QED BY <1>1, <1>2, <1>3, <2>2, <2>3, Zenon DEF at, e
<1> QED BY <1>8, <1>9, <1>10, <1>11

\* The newest match is chosen, if there is one.
LEMMA DecideChooses ==
    ASSUME FrameInv, Decide
    PROVE  \/ running.matches # <<>> /\ running'.chosen = Head(running.matches)
           \/ running'.chosen = running.chosen /\ ~WillConsume(running')
<1> DEFINE best == Head(running.matches)
           call == MakeCallReport(<<"handle_call">>, 1)
           full == [is |-> "full_match", call |-> call,
                    expectation |-> ExpectationReport(Exp(best))]
           late == [is |-> "inapplicable", call |-> call,
                    expectations |-> [k \in DOMAIN running.inapplicable |->
                                         ExpectationReport(Exp(running.inapplicable[k]))]]
           none == [is |-> "no_matches", call |-> call, expectations |-> running.noMatches]
<1>1. running' =
          IF running.matches # <<>>
          THEN IF program.reportSuccess
               THEN [running EXCEPT !.phase = "get", !.chosen = best, !.report = full]
               ELSE [running EXCEPT !.phase = "consume", !.chosen = best]
          ELSE IF running.inapplicable # <<>>
          THEN [running EXCEPT !.phase = "get", !.report = late]
          ELSE [running EXCEPT !.phase = "get", !.report = none]
  BY Zenon DEF Decide
<1>2. DOMAIN running = Locals
  BY DEF FrameInv
<1>3. late.is = "inapplicable" /\ none.is = "no_matches"
  OBVIOUS
<1> HIDE DEF full, late, none, best
<1>4. CASE running.matches # <<>>
  <2>1. running'.chosen = best
    BY <1>1, <1>2, <1>4 DEF Locals
  <2> QED BY <1>4, <2>1 DEF best
<1>5. CASE running.matches = <<>>
  <2>1. /\ running'.chosen = running.chosen /\ running'.phase = "get"
        /\ running'.report = late \/ running'.report = none
    BY <1>1, <1>2, <1>5 DEF Locals
  <2> QED BY <1>3, <2>1 DEF WillConsume
<1> QED BY <1>4, <1>5

\* A call collects, chooses and uses expectations of its own overload only.
LEMMA HandlerPreserved ==
    FrameInv /\ CallInv /\ ServingInv /\ [Next]_vars => HandlerInv'
<1> SUFFICES ASSUME FrameInv, CallInv, ServingInv, [Next]_vars
             PROVE  HandlerInv'
  OBVIOUS
<1>1. ASSUME running'.phase \in {"idle", "returned", "threw", "terminated"}
      PROVE  HandlerInv'
  BY <1>1 DEF HandlerInv, IsRunning
<1>2. ASSUME running'.overload = <<>>
      PROVE  HandlerInv'
  BY <1>2 DEF HandlerInv
<1>3. ASSUME running.overload # <<>>, IsRunning
      PROVE  Handles(running, Candidates)
  BY <1>3 DEF ServingInv, HandlerInv
<1>4. \A key \in DOMAIN collections :
          IsSequence(collections[key]) /\ DOMAIN collections[key] = 1 .. Len(collections[key])
  BY Lists DEF ServingInv, CollectionsInv
<1>5. ASSUME NEW object, NEW stated, Expect(object, stated)
      PROVE  HandlerInv'
  <2>1. running' = Idle
    BY <1>5 DEF Expect
  <2> QED BY <1>2, <2>1, IdleLocals
<1>6. ASSUME NEW key, NEW at, Destroy(key, at)
      PROVE  HandlerInv'
  <2>1. \E report : running' \in {Idle, [Idle EXCEPT !.phase = "get", !.report = report]}
    BY <1>6, Zenon DEF Destroy
  <2>2. running'.overload = <<>>
    BY <2>1, IdleLocals DEF Locals
  <2> QED BY <1>2, <2>2
<1>7. ASSUME NEW overload \in ToSet(mock.overloads), NEW method, NEW args,
             Begin(overload, method, args)
      PROVE  HandlerInv'
  <2>1. IsOverload(overload)
    BY MockDeclared
  <2>2. /\ running'.key = Decay(overload) /\ running'.phase = "evaluate"
        /\ running'.chosen = 0 /\ running'.matches = <<>> /\ running'.inapplicable = <<>>
        /\ running'.todo = Len(collections[Decay(overload)])
    BY <1>7, <2>1, BeginSteps
  <2>3. collections' = collections
    BY <1>7 DEF Begin
  <2>4. Decay(overload) \in DOMAIN collections
    BY DEF ServingInv, CollectionsInv
  <2>5. Candidates' = collections[Decay(overload)] /\ Len(Candidates') \in Nat
    BY <1>4, <2>2, <2>3, <2>4 DEF Candidates, IsSequence
  <2>6. ~WillConsume(running')
    BY <2>2 DEF WillConsume
  <2>7. running'.todo \in 0 .. Len(Candidates')
    BY <2>2, <2>5
  <2>8. Handles(running', Candidates')
    BY <2>2, <2>6, <2>7, SequenceStarts, Zenon DEF Handles
  <2> QED BY <2>8, Zenon DEF HandlerInv
<1>8. ASSUME Evaluate
      PROVE  HandlerInv'
  <2> DEFINE at == running.todo
             matches == running'.matches
             late == running'.inapplicable
  <2>1. /\ running.overload # <<>> /\ running.key \in DOMAIN collections
        /\ Handles(running, Candidates) /\ at \in DOMAIN Candidates
        /\ \/ /\ matches = running.matches
              /\ late \in {running.inapplicable, Append(running.inapplicable, at)}
           \/ /\ matches = Append(running.matches, at)
              /\ late = running.inapplicable
              /\ Serves(Candidates[at], running.overload)
        /\ running'.phase = "get" => running'.report.is # "full_match"
    BY <1>8, EvaluateFinds
  <2>2. /\ Candidates' = Candidates /\ running'.overload = running.overload
        /\ running.phase = "evaluate" /\ running'.phase \in {"evaluate", "get"}
        /\ running'.chosen = running.chosen /\ running'.todo = at - 1
    <3>1. collections' = collections
      BY <1>8 DEF Evaluate
    <3> QED BY <1>8, <3>1, EvaluateSteps DEF SameCall, Candidates
  <2> HIDE DEF at, matches, late
  <2>3. DOMAIN Candidates = 1 .. Len(Candidates) /\ Len(Candidates) \in Nat
    BY <1>4, <2>1 DEF Candidates, IsSequence
  <2>4. at - 1 \in 0 .. Len(Candidates)
    BY <2>1, <2>3
  <2>5. /\ IsSequence(running.matches) /\ IsSequence(running.inapplicable)
        /\ \A k \in DOMAIN running.inapplicable :
              running.inapplicable[k] \in DOMAIN Candidates
        /\ \A k \in DOMAIN running.matches :
              /\ running.matches[k] \in DOMAIN Candidates
              /\ Serves(Candidates[running.matches[k]], running.overload)
    BY <2>1, <2>2 DEF Handles
  <2>6. IsSequence(late) /\ \A k \in DOMAIN late : late[k] \in DOMAIN Candidates
    <3>1. CASE late = running.inapplicable
      BY <2>5, <3>1, Zenon
    <3>2. CASE late = Append(running.inapplicable, at)
      <4>1. /\ IsSequence(late)
            /\ \A k \in DOMAIN late :
                  \/ late[k] = at
                  \/ /\ k \in DOMAIN running.inapplicable
                     /\ late[k] = running.inapplicable[k]
        BY <2>5, <3>2, Appended, Zenon
      <4> QED BY <2>1, <2>5, <4>1
    <3> QED BY <2>1, <3>1, <3>2
  <2>7. /\ IsSequence(matches)
        /\ \A k \in DOMAIN matches :
              /\ matches[k] \in DOMAIN Candidates
              /\ Serves(Candidates[matches[k]], running.overload)
    <3>1. CASE matches = running.matches
      BY <2>5, <3>1, Zenon
    <3>2. CASE /\ matches = Append(running.matches, at)
               /\ Serves(Candidates[at], running.overload)
      <4>1. /\ IsSequence(matches)
            /\ \A k \in DOMAIN matches :
                  \/ matches[k] = at
                  \/ k \in DOMAIN running.matches /\ matches[k] = running.matches[k]
        BY <2>5, <3>2, Appended, Zenon
      <4> HIDE <3>2
      <4>2. Serves(Candidates[at], running.overload)
        BY <3>2
      <4> QED BY <2>1, <2>5, <4>1, <4>2
    <3> QED BY <2>1, <3>1, <3>2
  <2>8. ~WillConsume(running')
    BY <2>1, <2>2 DEF WillConsume
  <2>9. running.chosen # 0 =>
            /\ running.chosen \in DOMAIN Candidates
            /\ Candidates[running.chosen].target = RemoveCallConvention(running.overload)
    BY <2>1 DEF Handles
  <2>10. Handles(running', Candidates)
    BY <2>2, <2>4, <2>6, <2>7, <2>8, <2>9, Zenon DEF Handles, matches, late
  <2> QED BY <2>2, <2>10, Zenon DEF HandlerInv
<1>9. ASSUME Decide
      PROVE  HandlerInv'
  <2>1. /\ SameCall /\ running.phase = "evaluate" /\ running'.todo = running.todo
        /\ running'.matches = running.matches /\ running'.inapplicable = running.inapplicable
    BY <1>9, DecideSteps
  <2>2. running.overload # <<>> /\ Candidates' = Candidates
        /\ running'.overload = running.overload
    BY <1>9, <2>1 DEF CallInv, SameCall, Candidates, Decide
  <2>3. Handles(running, Candidates)
    BY <1>3, <2>1, <2>2 DEF IsRunning
  <2>4. CASE running'.chosen = running.chosen /\ ~WillConsume(running')
    <3>1. Handles(running', Candidates)
      BY <2>1, <2>2, <2>3, <2>4 DEF Handles
    <3> QED BY <2>2, <3>1, Zenon DEF HandlerInv
  <2>5. CASE running.matches # <<>> /\ running'.chosen = Head(running.matches)
    <3>1. /\ running'.chosen \in DOMAIN Candidates
          /\ Serves(Candidates[running'.chosen], running.overload)
      <4>1. 1 \in DOMAIN running.matches /\ Head(running.matches) = running.matches[1]
        <5>1. running.matches \in Seq(ToSet(running.matches))
          BY <2>3, Lists DEF Handles
        <5> QED BY <2>5, <5>1
      <4>2. \A k \in DOMAIN running.matches :
                /\ running.matches[k] \in DOMAIN Candidates
                /\ Serves(Candidates[running.matches[k]], running.overload)
        BY <2>1, <2>3 DEF Handles
      <4> QED BY <2>5, <4>1, <4>2
    <3>2. running'.chosen # 0
      <4>1. running.key \in DOMAIN collections
        BY <2>2 DEF CallInv, ServingInv, CollectionsInv
      <4>2. DOMAIN Candidates = 1 .. Len(Candidates) /\ Len(Candidates) \in Nat
        BY <1>4, <4>1 DEF Candidates, IsSequence
      <4> QED BY <3>1, <4>2
    <3>3. Handles(running', Candidates)
      BY <2>1, <2>2, <2>3, <3>1, <3>2 DEF Handles, Serves
    <3> QED BY <2>2, <3>3, Zenon DEF HandlerInv
  <2> QED BY <1>9, <2>4, <2>5, DecideChooses
<1>10. ASSUME Consume
       PROVE  HandlerInv'
  <2> DEFINE key == running.key
             at == running.chosen
             e == Candidates[at]
             f == [e EXCEPT !.count = e.count + 1]
  <2>1. /\ SameCall /\ running.phase = "consume"
        /\ running'.phase \in {"terminated", "finalize"}
        /\ running'.chosen = at /\ running'.todo = running.todo
        /\ running'.matches = running.matches /\ running'.inapplicable = running.inapplicable
    BY <1>10, ConsumeSteps
  <2>2. /\ running.overload # <<>> /\ running'.overload = running.overload
        /\ running'.key = key
    BY <2>1 DEF CallInv, SameCall
  <2>3. Handles(running, Candidates) /\ at \in DOMAIN Candidates
    BY <1>3, <2>1, <2>2 DEF IsRunning, Handles, WillConsume
  <2>4. key \in DOMAIN collections
    BY <2>2 DEF CallInv, ServingInv, CollectionsInv
  <2>5. e.target = RemoveCallConvention(running.overload)
    BY <2>1, <2>3 DEF Handles, WillConsume, Serves
  <2>6. Candidates' = [Candidates EXCEPT ![at] = f]
    <3>1. collections' = [collections EXCEPT ![key][at].count = e.count + 1]
      BY <1>10, Zenon DEF Consume, Exp, Candidates
    <3>2. collections' = [collections EXCEPT ![key] = [collections[key] EXCEPT ![at] = f]]
      BY <3>1 DEF Candidates
    <3> HIDE DEF f, at, key
    <3>3. collections'[key] = [collections[key] EXCEPT ![at] = f]
      BY <2>4, <3>2
    <3> QED BY <2>2, <3>3, Zenon DEF Candidates, key
  <2>7. f.target = RemoveCallConvention(running.overload)
    <3>1. DOMAIN e = {"id", "target", "policies", "finalizer", "min", "max", "count", "clauses"}
      BY <2>3, <2>4 DEF ServingInv, CollectionsInv, Collected, Candidates
    <3> HIDE DEF e
    <3> QED BY <2>5, <3>1
  <2> HIDE DEF f, e
  <2>8. /\ DOMAIN Candidates' = DOMAIN Candidates /\ Len(Candidates') = Len(Candidates)
        /\ Candidates'[at] = f
    <3>1. DOMAIN Candidates' = DOMAIN Candidates /\ Candidates'[at] = f
      BY <2>3, <2>6
    <3>2. DOMAIN Candidates = 1 .. Len(Candidates) /\ Len(Candidates) \in Nat
      BY <1>4, <2>4 DEF Candidates, IsSequence
    <3>3. Len(Candidates') = Len(Candidates)
      BY <3>1, <3>2
    <3> QED BY <3>1, <3>3
  <2>9. running'.phase = "finalize" => Handles(running', Candidates')
    BY <2>1, <2>2, <2>3, <2>7, <2>8 DEF Handles, WillConsume
  <2> QED BY <1>1, <2>1, <2>9, Zenon DEF HandlerInv
<1>11. Finalize => HandlerInv'
  BY <1>1, FinalizeSteps
<1>12. ASSUME GetTheReporter
       PROVE  HandlerInv'
  <2>1. CASE running.overload = <<>>
    BY <1>2, <1>12, <2>1, GetSteps DEF SameCall
  <2>2. CASE running.overload # <<>>
    <3>1. Candidates' = Candidates /\ running'.overload = running.overload
      BY <1>12, GetSteps DEF SameCall, Candidates, GetTheReporter
    <3>2. Handles(running, Candidates)
      BY <1>3, <1>12, <2>2, GetSteps DEF IsRunning
    <3>3. Handles(running', Candidates)
      BY <1>12, <3>1, <3>2, GetSteps DEF Handles, WillConsume
    <3> QED BY <3>1, <3>3, Zenon DEF HandlerInv
  <2> QED BY <2>1, <2>2
<1>13. ASSUME Deliver
       PROVE  HandlerInv'
  <2>1. CASE running.overload = <<>>
    BY <1>2, <1>13, <2>1, DeliverSteps DEF SameCall
  <2>2. CASE running.overload # <<>>
    <3>1. Candidates' = Candidates /\ running'.overload = running.overload
      BY <1>13, DeliverSteps DEF SameCall, Candidates, Deliver
    <3>2. Handles(running, Candidates)
      BY <1>3, <1>13, <2>2, DeliverSteps DEF IsRunning
    <3>3. running'.phase \in {"evaluate", "consume"} => Handles(running', Candidates)
      BY <1>13, <3>1, <3>2, DeliverSteps DEF Handles, WillConsume
    <3> QED BY <1>1, <1>13, <3>1, <3>3, DeliverSteps, Zenon DEF HandlerInv
  <2> QED BY <2>1, <2>2
<1>14. InstallReporter \/ UNCHANGED vars
           => running' = running /\ collections' = collections
  BY DEF InstallReporter, vars
<1>15. ASSUME running' = running, collections' = collections
       PROVE  HandlerInv'
  <2>1. Candidates' = Candidates /\ (IsRunning' <=> IsRunning)
    BY <1>15 DEF Candidates, IsRunning
  <2>2. HandlerInv
    BY DEF ServingInv
  <2> QED BY <1>15, <2>1, <2>2, Zenon DEF HandlerInv
<1>16. ASSUME NEW object, NEW passed, CallDirect(object, passed)
       PROVE  HandlerInv'
  <2>1. \E overload \in Resolve(mock.overloads, object, passed.types) :
              Begin(overload, 0, passed.args)
    BY <1>16, Zenon DEF CallDirect
  <2>2. Resolve(mock.overloads, object, passed.types) \subseteq ToSet(mock.overloads)
    BY Zenon DEF Resolve
  <2> QED BY <1>7, <2>1, <2>2
<1>17. ASSUME NEW i \in DOMAIN program.methods, NEW passed, CallMethod(i, passed)
       PROVE  HandlerInv'
  <2>1. /\ program.style # "direct"
        /\ \E overload \in mock.forwarded[i] : Begin(overload, i, passed.args)
    BY <1>17, Zenon DEF CallMethod
  <2>2. mock.forwarded[i] = Forwarded(program, mock.overloads, i)
    BY <2>1, ForwardedTo, MockDeclared
  <2>3. Forwarded(program, mock.overloads, i) \subseteq ToSet(mock.overloads)
    BY Zenon DEF Forwarded, Resolve
  <2> QED BY <1>7, <2>1, <2>2, <2>3
<1> QED BY <1>5, <1>6, <1>8, <1>9, <1>10, <1>11, <1>12, <1>13, <1>14, <1>15, <1>16, <1>17,
           Zenon DEF Next

\* What is collected, and what a handler finds in it, is always in order.
THEOREM ServingHolds == Spec => []ServingInv
<1>1. Init /\ FrameInv => ServingInv
  BY ServingStarts
<1>2. FrameInv /\ CallInv /\ ServingInv /\ [Next]_vars => ServingInv'
  BY CollectionsPreserved, HandlerPreserved DEF ServingInv
<1> QED BY <1>1, <1>2, FrameHolds, CallHolds, PTL DEF Spec

\* For any overloads, matchers and clauses: the expectation that a call uses was
\* stated for the overload that is called, though overloads share collections
\* (Mock.hpp, GeneralPolicies.hpp).
THEOREM ExpectationsServe == Spec => []ExpectationsServeTheirOverload
<1>1. CallInv /\ ServingInv => ExpectationsServeTheirOverload
  <2> SUFFICES ASSUME CallInv, ServingInv, running.chosen # 0, IsRunning
               PROVE  Exp(running.chosen).target = RemoveCallConvention(running.overload)
    BY DEF ExpectationsServeTheirOverload
  <2>1. running.overload # <<>>
    BY DEF CallInv
  <2> QED BY <2>1 DEF ServingInv, HandlerInv, Handles, Candidates, Exp
<1> QED BY <1>1, CallHolds, ServingHolds, PTL

\* Every variable keeps its type, no expectation is used more often than its limit
\* allows, and no handler refers to an expectation that is not collected.
THEOREM Typed == Spec => []TypeOK
<1>1. FrameInv /\ ReporterInv /\ CallInv /\ ServingInv => TypeOK
  <2> SUFFICES ASSUME FrameInv, ReporterInv, CallInv, ServingInv
               PROVE  TypeOK
    OBVIOUS
  <2>1. created \in 0 .. MaxExpectations /\ calls \in 0 .. MaxCalls
    BY DEF ServingInv, CollectionsInv
  <2>2. ASSUME NEW key \in DOMAIN collections, NEW at \in DOMAIN collections[key]
        PROVE  LET e == collections[key][at]
               IN  /\ e.id \in 1 .. created
                   /\ 0 <= e.min /\ e.min <= e.max
                   /\ e.count \in 0 .. e.max
    <3>1. Collected(mock.overloads, created, collections[key][at], key)
      BY DEF ServingInv, CollectionsInv
    <3> QED BY <3>1 DEF Collected
  <2>3. /\ reporter.installed \in 1 .. program.reporters + 1
        /\ reporter.destroyed \subseteq 1 .. reporter.installed
    <3>1. program.reporters \in Nat
      BY ProgramAssumed
    <3> QED BY <3>1 DEF ReporterInv
  <2>4. running.phase \in {"idle", "evaluate", "get", "deliver", "consume", "finalize",
                           "returned", "threw", "terminated"}
        /\ (running.phase = "deliver" <=> running.use # NoUse)
    BY DEF FrameInv, Phases, ReporterInv
  <2>5. ASSUME IsRunning, IsCall,
               NEW at \in ToSet(running.matches) \cup ToSet(running.inapplicable)
        PROVE  at \in DOMAIN Candidates
    <3>1. Handles(running, Candidates)
      BY <2>5 DEF ServingInv, HandlerInv, IsCall
    <3>2. \/ \E k \in DOMAIN running.matches : at = running.matches[k]
          \/ \E k \in DOMAIN running.inapplicable : at = running.inapplicable[k]
      BY DEF ToSet
    <3> QED BY <3>1, <3>2 DEF Handles
  <2> QED BY <2>1, <2>2, <2>3, <2>4, <2>5, Zenon DEF TypeOK
<1> QED BY <1>1, FrameHolds, ReporterHolds, CallHolds, ServingHolds, PTL

-----------------------------------------------------------------------------
\* What reports are asserted to be.

\* partition_by: the state of its loop, and what a turn does with it.
PartitionFails(p) == {k \in 1 .. p.end - 1 : ~p.control[k]} \cup {p.end}

PartitionTurn(p) ==
    IF Min(PartitionFails(p)) = p.end THEN p ELSE PartitionSwap(p, Min(PartitionFails(p)))

\* r has the elements of s in the order "to".
Follows(r, s, to, D) == r = [k \in D |-> s[to[k]]]

\* The elements and their controls are rearranged alike, and those from the end on fail.
Rearranged(p, target, control, n) ==
    /\ \E to \in Bijection(1 .. n, 1 .. n) :
          /\ Follows(p.target, target, to, 1 .. n)
          /\ Follows(p.control, control, to, 1 .. n)
    /\ \A k \in 1 .. n : k >= p.end => ~p.control[k]

PartitionStates(target, control, n) ==
    {p \in [target : [1 .. n -> ToSet(target)], control : [1 .. n -> ToSet(control)],
            end : 1 .. n + 1] : Rearranged(p, target, control, n)}

AllPass(p) == \A k \in 1 .. p.end - 1 : p.control[k]

\* What partition_by promises: the elements are those of the target, and those that pass
\* are in front of the midpoint.
Splits(parts, target, control) ==
    /\ parts.midpoint \in 1 .. Len(target) + 1
    /\ \E to \in Bijection(DOMAIN target, DOMAIN target) :
          /\ Follows(parts.target, target, to, DOMAIN target)
          /\ \A k \in DOMAIN target : k < parts.midpoint <=> control[to[k]]

\* Two elements of a rearrangement that change places.
LEMMA SwapRearranges ==
    ASSUME NEW D, NEW to \in Bijection(D, D), NEW i \in D, NEW j \in D
    PROVE  Swapped(to, i, j) \in Bijection(D, D)
<1> DEFINE f == Swapped(to, i, j)
           Other(k) == IF k = j THEN i ELSE IF k = i THEN j ELSE k
<1>1. /\ to \in [D -> D] /\ \A k, l \in D : to[k] = to[l] => k = l
      /\ \A x \in D : \E k \in D : to[k] = x
  BY Fun_BijectionProperties
<1>2. f \in [D -> D] /\ \A k \in D : f[k] = to[Other(k)] /\ Other(k) \in D
  BY <1>1 DEF Swapped
<1>3. \A k, l \in D : Other(k) = Other(l) => k = l
  OBVIOUS
<1>4. \A k \in D : Other(Other(k)) = k
  OBVIOUS
<1> HIDE DEF f, Other
<1>5. \A k, l \in D : f[k] = f[l] => k = l
  BY <1>1, <1>2, <1>3
<1>6. ASSUME NEW x \in D PROVE \E k \in D : f[k] = x
  <2>1. PICK k \in D : to[k] = x
    BY <1>1
  <2>2. f[Other(k)] = x
    BY <1>2, <1>4, <2>1
  <2> QED BY <1>2, <2>2
<1>7. f \in Bijection(D, D)
  BY <1>2, <1>5, <1>6, Fun_IsBij
<1> QED BY <1>7 DEF f

\* What was rearranged changes places alike.
LEMMA SwapFollows ==
    ASSUME NEW D, NEW to \in [D -> D], NEW i \in D, NEW j \in D, NEW s,
           NEW r, Follows(r, s, to, D)
    PROVE  Follows(Swapped(r, i, j), s, Swapped(to, i, j), D)
<1> DEFINE f == Swapped(to, i, j)
<1>1. \A k \in D : f[k] = to[IF k = j THEN i ELSE IF k = i THEN j ELSE k]
  BY DEF Swapped
<1>2. Swapped(r, i, j) = [k \in D |-> r[IF k = j THEN i ELSE IF k = i THEN j ELSE k]]
  BY DEF Swapped, Follows
<1>3. \A k \in D : r[IF k = j THEN i ELSE IF k = i THEN j ELSE k] = s[f[k]]
  <2> HIDE DEF f
  <2> QED BY <1>1 DEF Follows
<1> HIDE DEF f
<1>4. Follows(Swapped(r, i, j), s, f, D)
  BY <1>2, <1>3 DEF Follows
<1> QED BY <1>4 DEF f

\* A turn of the loop moves one that fails to the end, or finds none.
LEMMA PartitionTurns ==
    ASSUME NEW n \in Nat, NEW target, NEW control, NEW p \in PartitionStates(target, control, n)
    PROVE  /\ PartitionTurn(p) \in PartitionStates(target, control, n)
           /\ \/ PartitionTurn(p) = p /\ AllPass(p)
              \/ PartitionTurn(p).end = p.end - 1 /\ ~AllPass(p)
<1> DEFINE first == Min(PartitionFails(p))
           last == p.end - 1
           q == PartitionTurn(p)
<1>1. /\ p.target \in [1 .. n -> ToSet(target)] /\ p.control \in [1 .. n -> ToSet(control)]
      /\ p.end \in 1 .. n + 1
      /\ p = [target |-> p.target, control |-> p.control, end |-> p.end]
      /\ Rearranged(p, target, control, n)
  BY DEF PartitionStates
<1>2. first \in PartitionFails(p) /\ \A k \in PartitionFails(p) : first <= k
  <2>1. PartitionFails(p) \in SUBSET Nat /\ PartitionFails(p) # {}
    BY <1>1 DEF PartitionFails
  <2> QED BY <2>1, MinProperties
<1> HIDE DEF first
<1>3. \/ first = p.end
      \/ first \in 1 .. last /\ ~p.control[first]
  BY <1>2 DEF PartitionFails
<1>4. CASE first = p.end
  <2>1. q = p
    BY <1>4 DEF PartitionTurn, first
  <2>2. AllPass(p)
    <3> SUFFICES ASSUME NEW k \in 1 .. p.end - 1, ~p.control[k] PROVE FALSE
      BY DEF AllPass
    <3>1. k \in PartitionFails(p)
      BY DEF PartitionFails
    <3>2. first <= k
      BY <1>2, <3>1
    <3> QED BY <1>1, <1>4, <3>2
  <2> QED BY <2>1, <2>2
<1>5. CASE first # p.end
  <2>1. first \in 1 .. last /\ ~p.control[first] /\ last \in 1 .. n /\ first \in 1 .. n
    BY <1>1, <1>3, <1>5
  <2>2. q = [p EXCEPT !.target = Swapped(p.target, first, last),
                      !.control = Swapped(p.control, first, last), !.end = last]
    BY <1>5 DEF PartitionTurn, PartitionSwap, first
  <2>3. q = [target |-> Swapped(p.target, first, last),
             control |-> Swapped(p.control, first, last), end |-> last]
    <3> HIDE DEF q
    <3> QED BY <1>1, <2>2
  <2>4. /\ Swapped(p.target, first, last) \in [1 .. n -> ToSet(target)]
        /\ Swapped(p.control, first, last) \in [1 .. n -> ToSet(control)]
    <3> HIDE DEF last
    <3> QED BY <1>1, <2>1 DEF Swapped
  <2>5. Rearranged(q, target, control, n)
    <3>1. PICK to \in Bijection(1 .. n, 1 .. n) :
              /\ Follows(p.target, target, to, 1 .. n)
              /\ Follows(p.control, control, to, 1 .. n)
      BY <1>1 DEF Rearranged
    <3> DEFINE f == Swapped(to, first, last)
    <3>2. /\ f \in Bijection(1 .. n, 1 .. n)
          /\ Follows(Swapped(p.target, first, last), target, f, 1 .. n)
          /\ Follows(Swapped(p.control, first, last), control, f, 1 .. n)
      <4>1. to \in [1 .. n -> 1 .. n]
        BY Fun_BijectionProperties
      <4> HIDE DEF last
      <4> QED BY <2>1, <3>1, <4>1, SwapRearranges, SwapFollows
    <3>3. ASSUME NEW k \in 1 .. n, k >= last PROVE ~Swapped(p.control, first, last)[k]
      <4>1. \A l \in 1 .. n : l >= p.end => ~p.control[l]
        BY <1>1 DEF Rearranged
      <4>2. Swapped(p.control, first, last)[last] = p.control[first]
        <5> HIDE DEF last
        <5> QED BY <1>1, <2>1 DEF Swapped
      <4>3. CASE k = last
        BY <2>1, <4>2, <4>3
      <4>4. CASE k # last
        <5>1. k >= p.end /\ k # first
          BY <1>1, <2>1, <3>3, <4>4
        <5>2. Swapped(p.control, first, last)[k] = p.control[k]
          <6> HIDE DEF last
          <6> QED BY <1>1, <2>1, <4>4, <5>1 DEF Swapped
        <5> QED BY <4>1, <5>1, <5>2
      <4> QED BY <4>3, <4>4
    <3> HIDE DEF f, q, last
    <3> QED BY <2>3, <3>2, <3>3 DEF Rearranged
  <2>6. q \in PartitionStates(target, control, n)
    <3>1. last \in 1 .. n + 1
      BY <2>1
    <3> HIDE DEF q, last
    <3> QED BY <2>3, <2>4, <2>5, <3>1 DEF PartitionStates
  <2>7. q.end = last
    <3> HIDE DEF q, last
    <3> QED BY <2>3
  <2> QED BY <2>1, <2>6, <2>7 DEF AllPass
<1> QED BY <1>4, <1>5

\* The loop moves everything that fails behind what passes.
LEMMA PartitionSplits ==
    ASSUME NEW target, IsSequence(target), NEW control, IsSequence(control),
           Len(target) = Len(control)
    PROVE  Splits(PartitionBy(target, control), target, control)
<1> DEFINE n == Len(control)
           D == PartitionStates(target, control, n)
           start == [target |-> target, control |-> control, end |-> n + 1]
<1>1. n \in Nat /\ DOMAIN control = 1 .. n /\ DOMAIN target = 1 .. n
      /\ control = [i \in 1 .. n |-> control[i]] /\ target = [i \in 1 .. n |-> target[i]]
  BY DEF IsSequence
<1>2. start \in D /\ start.end = n + 1
  <2>1. target \in [1 .. n -> ToSet(target)] /\ control \in [1 .. n -> ToSet(control)]
    <3>1. (\A i \in 1 .. n : target[i] \in ToSet(target))
          /\ (\A i \in 1 .. n : control[i] \in ToSet(control))
      BY <1>1 DEF ToSet
    <3> HIDE DEF n
    <3> QED BY <1>1, <3>1
  <2>2. Rearranged(start, target, control, n)
    <3> DEFINE same == [k \in 1 .. n |-> k]
    <3> HIDE DEF n
    <3>1. same \in [1 .. n -> 1 .. n] /\ \A k \in 1 .. n : same[k] = k
      OBVIOUS
    <3>2. same \in Bijection(1 .. n, 1 .. n)
      <4> HIDE DEF same
      <4> QED BY <3>1, Fun_IsBij
    <3>3. Follows(target, target, same, 1 .. n) /\ Follows(control, control, same, 1 .. n)
      <4> HIDE DEF same
      <4> QED BY <1>1, <3>1 DEF Follows
    <3>4. \A k \in 1 .. n : ~(k >= n + 1)
      BY <1>1
    <3> HIDE DEF same
    <3> QED BY <3>2, <3>3, <3>4 DEF Rearranged
  <2> HIDE DEF n
  <2> QED BY <1>1, <2>1, <2>2 DEF PartitionStates
<1> DEFINE Swaps(h) ==
               h = [k \in 0 .. n |-> IF k = 0 THEN start ELSE PartitionTurn(h[k - 1])]
<1>3. \A p \in D : PartitionTurn(p) \in D
  BY <1>1, PartitionTurns
<1>4. \E h : Swaps(h)
  <2> DEFINE step == [p \in D |-> PartitionTurn(p)]
  <2> HIDE DEF D, start, n
  <2>1. step \in [D -> D]
    BY <1>3
  <2>2. \A p \in D : step[p] = PartitionTurn(p)
    OBVIOUS
  <2> HIDE DEF step
  <2>3. PICK h : h \in [0 .. n -> D] /\ Repeated(h, n, start, step)
    BY <1>1, <1>2, <2>1, Repeats
  <2>4. \A k \in 0 .. n : h[k] = IF k = 0 THEN start ELSE PartitionTurn(h[k - 1])
    <3> SUFFICES ASSUME NEW k \in 0 .. n, k # 0 PROVE step[h[k - 1]] = PartitionTurn(h[k - 1])
      BY <2>3 DEF Repeated
    <3>1. k - 1 \in 0 .. n
      BY <1>1
    <3> QED BY <2>2, <2>3, <3>1
  <2>5. h = [k \in 0 .. n |-> h[k]]
    BY <2>3
  <2> QED BY <2>4, <2>5, Zenon
<1> DEFINE swaps == CHOOSE h : Swaps(h)
<1>5. PartitionBy(target, control) = [target |-> swaps[n].target, midpoint |-> swaps[n].end]
  BY Zenon DEF PartitionBy, FindIn, PartitionTurn, PartitionFails
<1>6. \A k \in 0 .. n : swaps[k] = IF k = 0 THEN start ELSE PartitionTurn(swaps[k - 1])
  <2>1. Swaps(swaps)
    BY <1>4, Zenon
  <2> HIDE DEF swaps, start, n
  <2> QED BY <2>1, Zenon
<1> HIDE DEF swaps, start
<1>7. swaps[n] \in D /\ AllPass(swaps[n])
  <2> DEFINE good == {k \in Nat : k <= n =>
                         /\ swaps[k] \in D
                         /\ swaps[k].end <= n + 1 - k \/ AllPass(swaps[k])}
  <2> HIDE DEF n
  <2>1. \A p \in D : p.end \in Nat
    BY DEF PartitionStates
  <2> HIDE DEF D
  <2>2. 0 \in good
    <3>1. swaps[0] = start
      BY <1>1, <1>6
    <3> QED BY <1>1, <1>2, <3>1
  <2>3. ASSUME NEW k \in good PROVE k + 1 \in good
    <3> SUFFICES ASSUME k + 1 <= n
                 PROVE  /\ swaps[k + 1] \in D
                        /\ swaps[k + 1].end <= n + 1 - (k + 1) \/ AllPass(swaps[k + 1])
      OBVIOUS
    <3>1. k \in Nat /\ swaps[k] \in D /\ (swaps[k].end <= n + 1 - k \/ AllPass(swaps[k]))
      BY <1>1
    <3>2. swaps[k + 1] = PartitionTurn(swaps[k])
      <4>1. k + 1 \in 0 .. n /\ k + 1 # 0 /\ k + 1 - 1 = k
        BY <1>1
      <4> QED BY <1>6, <4>1
    <3>3. \/ swaps[k + 1] = swaps[k] /\ AllPass(swaps[k])
          \/ swaps[k + 1].end = swaps[k].end - 1 /\ ~AllPass(swaps[k])
      BY <1>1, <3>1, <3>2, PartitionTurns DEF D
    <3>4. swaps[k + 1] \in D
      BY <1>3, <3>1, <3>2
    <3> QED BY <1>1, <2>1, <3>1, <3>3, <3>4
  <2>4. good \in SUBSET Nat
    OBVIOUS
  <2>5. n \in good
    <3> HIDE DEF good
    <3> QED BY <1>1, <2>2, <2>3, <2>4, CountingUp
  <2>6. swaps[n] \in D /\ (swaps[n].end <= 1 \/ AllPass(swaps[n]))
    BY <1>1, <2>5
  <2>7. swaps[n].end <= 1 => AllPass(swaps[n])
    BY <2>1, <2>6 DEF AllPass
  <2> QED BY <2>6, <2>7
<1> DEFINE p == swaps[n]
           parts == PartitionBy(target, control)
<1>8. /\ p.end \in 1 .. n + 1 /\ Rearranged(p, target, control, n)
      /\ parts.target = p.target /\ parts.midpoint = p.end
  BY <1>5, <1>7 DEF PartitionStates
<1>9. AllPass(p)
  BY <1>7
<1> HIDE DEF p, parts, D
<1>10. PICK to \in Bijection(1 .. n, 1 .. n) :
          /\ Follows(p.target, target, to, 1 .. n)
          /\ Follows(p.control, control, to, 1 .. n)
  BY <1>8 DEF Rearranged
<1>11. ASSUME NEW k \in 1 .. n PROVE k < p.end <=> control[to[k]]
  <2>1. p.control[k] = control[to[k]]
    BY <1>10 DEF Follows
  <2>2. k < p.end => p.control[k]
    BY <1>1, <1>8, <1>9 DEF AllPass
  <2>3. ~(k < p.end) => ~p.control[k]
    BY <1>1, <1>8 DEF Rearranged
  <2> QED BY <2>1, <2>2, <2>3
<1> HIDE DEF n
<1>12. Len(target) = n
  BY DEF n
<1>13. Splits(parts, target, control)
  BY <1>1, <1>8, <1>10, <1>11, <1>12 DEF Splits
<1> QED BY <1>13 DEF parts

\* partition_by finds what fails: the range it returns is not empty.
LEMMA PartitionFinds ==
    ASSUME NEW target, IsSequence(target), NEW control, IsSequence(control),
           Len(target) = Len(control),
           NEW failing \in DOMAIN control, ~control[failing]
    PROVE  PartitionBy(target, control).midpoint \in DOMAIN target
<1> DEFINE n == Len(target)
           m == PartitionBy(target, control).midpoint
<1>1. DOMAIN target = 1 .. n /\ DOMAIN control = 1 .. n /\ n \in Nat
  BY DEF IsSequence
<1>2. Splits(PartitionBy(target, control), target, control)
  BY PartitionSplits
<1> HIDE DEF n
<1>3. PICK to \in Bijection(1 .. n, 1 .. n) : \A k \in 1 .. n : k < m <=> control[to[k]]
  BY <1>1, <1>2 DEF Splits
<1>4. m \in 1 .. n + 1
  BY <1>2 DEF Splits, n
<1> HIDE DEF m
<1>5. PICK k \in 1 .. n : to[k] = failing
  <2> DEFINE D == 1 .. n
  <2>1. failing \in D /\ to \in Bijection(D, D)
    BY <1>1
  <2> HIDE DEF D
  <2>2. \E k \in D : to[k] = failing
    BY <2>1, Fun_BijectionProperties
  <2> QED BY <2>2 DEF D
<1>6. ~(k < m)
  BY <1>3, <1>5
<1> QED BY <1>1, <1>4, <1>6 DEF m

\* The report of an expectation that was refused because of a requirement.
HasViolation(r) ==
    /\ IsSequence(r.outcomes) /\ IsSequence(r.expectation.descriptions)
    /\ Len(r.expectation.descriptions) = Len(r.outcomes)
    /\ \E i \in DOMAIN r.outcomes : ~r.outcomes[i]

\* What a call has sorted out so far is what its reports may say.
JudgedInv ==
    running.overload # <<>> /\ running.phase \in {"evaluate", "get", "deliver"} =>
        /\ \A k \in DOMAIN running.inapplicable :
              ~IsApplicable(Candidates[running.inapplicable[k]])
        /\ IsSequence(running.noMatches)
        /\ \A k \in DOMAIN running.noMatches : HasViolation(running.noMatches[k])

AssertedInv == JudgedInv /\ ReportAssertionsHold

\* A list with something for every element of another.
LEMMA SameLength ==
    ASSUME NEW s, IsSequence(s), NEW t, t = [i \in DOMAIN s |-> t[i]]
    PROVE  IsSequence(t) /\ Len(t) = Len(s) /\ DOMAIN t = DOMAIN s
<1>1. Len(s) \in Nat /\ DOMAIN s = 1 .. Len(s)
  BY DEF IsSequence
<1>2. t = [i \in 1 .. Len(s) |-> t[i]]
  BY <1>1
<1>3. Len(t) = Len(s) /\ DOMAIN t = DOMAIN s
  BY <1>1, <1>2
<1> QED BY <1>1, <1>2, <1>3 DEF IsSequence

\* A list that is not the empty one has a first element.
LEMMA FirstElement ==
    ASSUME NEW s, IsSequence(s), s # <<>>
    PROVE  1 \in DOMAIN s /\ Head(s) = s[1]
<1>1. s \in Seq(ToSet(s))
  BY Lists
<1> QED BY <1>1

LEMMA RefusedHasViolation ==
    ASSUME NEW e, NEW info, IsSequence(e.policies),
           NEW i \in DOMAIN RequirementOutcomes(e, info), ~RequirementOutcomes(e, info)[i]
    PROVE  HasViolation(NoMatchReport(e, info))
<1> DEFINE r == NoMatchReport(e, info)
           outcomes == RequirementOutcomes(e, info)
           descriptions == [k \in DOMAIN e.policies |-> DescribePolicy(e.policies[k])]
<1>1. r.outcomes = outcomes /\ r.expectation.descriptions = descriptions
  BY DEF NoMatchReport, ExpectationReport
<1>2. IsSequence(outcomes) /\ Len(outcomes) = Len(e.policies)
  <2>1. outcomes = [k \in DOMAIN e.policies |-> outcomes[k]]
    BY DEF RequirementOutcomes
  <2> HIDE DEF outcomes
  <2> QED BY <2>1, SameLength
<1>3. IsSequence(descriptions) /\ Len(descriptions) = Len(e.policies)
  <2>1. descriptions = [k \in DOMAIN e.policies |-> descriptions[k]]
    OBVIOUS
  <2> HIDE DEF descriptions
  <2> QED BY <2>1, SameLength
<1> HIDE DEF r, descriptions
<1> QED BY <1>1, <1>2, <1>3, Zenon DEF HasViolation, r

\* Only what has no violation may be reported as something else than a no-match.
LEMMA ViolationIsAsserted ==
    ASSUME NEW report, report.is = "no_matches",
           \A k \in DOMAIN report.expectations : HasViolation(report.expectations[k])
    PROVE  IsAsAsserted(report)
<1>1. ASSUME NEW k \in DOMAIN report.expectations
      PROVE  LET outcomes == report.expectations[k].outcomes
                 descriptions == report.expectations[k].expectation.descriptions
             IN  /\ Len(descriptions) = Len(outcomes)
                 /\ PartitionBy(descriptions, outcomes).midpoint \in DOMAIN descriptions
  <2> DEFINE outcomes == report.expectations[k].outcomes
             descriptions == report.expectations[k].expectation.descriptions
  <2>1. /\ IsSequence(outcomes) /\ IsSequence(descriptions)
        /\ Len(descriptions) = Len(outcomes)
        /\ \E i \in DOMAIN outcomes : ~outcomes[i]
    BY <1>1, Zenon DEF HasViolation
  <2> HIDE DEF outcomes, descriptions
  <2>2. PartitionBy(descriptions, outcomes).midpoint \in DOMAIN descriptions
    BY <2>1, PartitionFinds, Zenon
  <2> QED BY <2>1, <2>2, Zenon DEF outcomes, descriptions
<1> QED BY <1>1, Zenon DEF IsAsAsserted

\* What the control policies of collected expectations say.
LEMMA ControlSays ==
    ASSUME NEW overloads, NEW n, NEW e, NEW key, Collected(overloads, n, e, key)
    PROVE  LET control == ExpectationReport(e).control
           IN  /\ control.is = ControlState(e).is
               /\ control.is = "applicable" <=> e.count < e.max
               /\ control.min = e.min /\ control.max = e.max /\ control.count = e.count
<1>1. ExpectationReport(e).control = ControlState(e)
  BY DEF ExpectationReport
<1>2. e.count # e.max <=> e.count < e.max
  BY DEF Collected
<1> QED BY <1>1, <1>2 DEF ControlState

\* An expectation that ends unfulfilled lacks a call, and may have it.
LEMMA UnfulfilledIsAsserted ==
    ASSUME NEW overloads, NEW n, NEW e, NEW key, Collected(overloads, n, e, key),
           ~IsSatisfied(e)
    PROVE  IsAsAsserted([is |-> "unfulfilled", expectation |-> ExpectationReport(e)])
<1> DEFINE report == [is |-> "unfulfilled", expectation |-> ExpectationReport(e)]
           control == ExpectationReport(e).control
<1>1. /\ e.count \in Nat /\ e.min \in Nat /\ e.max \in Nat /\ e.min <= e.max
      /\ ~(e.count >= e.min)
  BY DEF Collected, IsSatisfied
<1>2. control.is = "applicable" /\ control.min = e.min /\ control.count = e.count
  BY <1>1, ControlSays
<1>3. StringifyUnfulfilled(ExpectationReport(e), Unlimited)[1].further
          = control.min - control.count
  BY DEF StringifyUnfulfilled
<1>4. /\ report.is = "unfulfilled" /\ report.expectation = ExpectationReport(e)
  OBVIOUS
<1> HIDE DEF report, control
<1>5. /\ control.is # "saturated" /\ control.count < control.min
      /\ control.min - control.count \in 1 .. control.min
  BY <1>1, <1>2
<1>6. IsAsAsserted(report)
  BY <1>3, <1>4, <1>5 DEF IsAsAsserted, control
<1> QED BY <1>6 DEF report

\* What evaluate_expectations puts down about the next expectation.
LEMMA EvaluateJudges ==
    ASSUME FrameInv, CallInv, ServingInv, Evaluate
    PROVE  LET at == running.todo
           IN  /\ \/ /\ running'.noMatches = running.noMatches
                     /\ running'.inapplicable = running.inapplicable
                  \/ /\ running'.noMatches = running.noMatches
                     /\ running'.inapplicable = Append(running.inapplicable, at)
                     /\ ~IsApplicable(Candidates[at])
                  \/ /\ running'.inapplicable = running.inapplicable
                     /\ \E r : /\ HasViolation(r)
                               /\ running'.noMatches = Append(running.noMatches, r)
               /\ running'.phase = "get" => running'.report.is = "unhandled_exception"
<1> DEFINE at == running.todo
           e == Candidates[at]
           info == running.info
           outcomes == RequirementOutcomes(e, info)
           next == [running EXCEPT !.todo = at - 1]
           throws == \E i \in DOMAIN e.policies : PolicyThrows(e.policies[i])
           fails == \E i \in DOMAIN outcomes : ~outcomes[i]
           failure == NoMatchReport(e, info)
           call == MakeCallReport(<<"determine_requirement_outcomes", "evaluate_expectations",
                                    "handle_call">>, 3)
           report == [is |-> "unhandled_exception", call |-> call,
                      expectation |-> ExpectationReport(e)]
<1>1. running.overload # <<>> /\ running.key \in DOMAIN collections /\ at \in DOMAIN Candidates
  BY EvaluateFinds
<1>2. Collected(mock.overloads, created, e, running.key)
  BY <1>1 DEF ServingInv, CollectionsInv, Candidates
<1>3. running' = IF throws THEN [next EXCEPT !.phase = "get", !.report = report]
                 ELSE IF fails THEN [next EXCEPT !.noMatches = Append(next.noMatches, failure)]
                 ELSE IF ~IsApplicable(e)
                 THEN [next EXCEPT !.inapplicable = Append(next.inapplicable, at)]
                 ELSE [next EXCEPT !.matches = Append(next.matches, at)]
  BY Zenon DEF Evaluate, Exp, Candidates
<1>4. /\ DOMAIN next = Locals /\ next.phase = "evaluate"
      /\ next.noMatches = running.noMatches /\ next.inapplicable = running.inapplicable
  BY DEF Evaluate, FrameInv, Locals
<1>5. report.is = "unhandled_exception"
  OBVIOUS
<1>6. fails => HasViolation(failure)
  <2>1. IsSequence(e.policies)
    BY <1>2 DEF Collected
  <2> HIDE DEF e
  <2> QED BY <2>1, RefusedHasViolation
<1> HIDE DEF next, report, throws, fails, failure, call, outcomes, e, at
<1>7. CASE throws
  <2>1. running' = [next EXCEPT !.phase = "get", !.report = report]
    BY <1>3, <1>7
  <2>2. /\ running'.noMatches = running.noMatches
        /\ running'.inapplicable = running.inapplicable
        /\ running'.report = report
    BY <1>4, <2>1 DEF Locals
  <2> QED BY <1>5, <2>2, Zenon DEF at
<1>8. CASE ~throws /\ fails
  <2>1. running' = [next EXCEPT !.noMatches = Append(next.noMatches, failure)]
    BY <1>3, <1>8
  <2>2. /\ running'.noMatches = Append(running.noMatches, failure)
        /\ running'.inapplicable = running.inapplicable
        /\ running'.phase # "get"
    BY <1>4, <2>1 DEF Locals
  <2> QED BY <1>6, <1>8, <2>2, Zenon DEF at
<1>9. CASE ~throws /\ ~fails /\ ~IsApplicable(e)
  <2>1. running' = [next EXCEPT !.inapplicable = Append(next.inapplicable, at)]
    BY <1>3, <1>9
  <2>2. /\ running'.noMatches = running.noMatches
        /\ running'.inapplicable = Append(running.inapplicable, at)
        /\ running'.phase # "get"
    BY <1>4, <2>1 DEF Locals
  <2> QED BY <1>9, <2>2, Zenon DEF at, e
<1>10. CASE ~throws /\ ~fails /\ IsApplicable(e)
  <2>1. running' = [next EXCEPT !.matches = Append(next.matches, at)]
    BY <1>3, <1>10
  <2>2. /\ running'.noMatches = running.noMatches
        /\ running'.inapplicable = running.inapplicable
        /\ running'.phase # "get"
    BY <1>4, <2>1 DEF Locals
  <2> QED BY <2>2, Zenon DEF at
<1> QED BY <1>7, <1>8, <1>9, <1>10

\* Each of the three reports that decide a call is as StringifyReports.hpp has it.
LEMMA DecideReports ==
    ASSUME FrameInv, CallInv, ServingInv, JudgedInv, Decide, running'.phase = "get"
    PROVE  IsAsAsserted(running'.report)
<1> DEFINE best == Head(running.matches)
           call == MakeCallReport(<<"handle_call">>, 1)
           full == [is |-> "full_match", call |-> call,
                    expectation |-> ExpectationReport(Exp(best))]
           exps == [k \in DOMAIN running.inapplicable |->
                       ExpectationReport(Exp(running.inapplicable[k]))]
           late == [is |-> "inapplicable", call |-> call, expectations |-> exps]
           none == [is |-> "no_matches", call |-> call, expectations |-> running.noMatches]
<1>1. running' =
          IF running.matches # <<>>
          THEN IF program.reportSuccess
               THEN [running EXCEPT !.phase = "get", !.chosen = best, !.report = full]
               ELSE [running EXCEPT !.phase = "consume", !.chosen = best]
          ELSE IF running.inapplicable # <<>>
          THEN [running EXCEPT !.phase = "get", !.report = late]
          ELSE [running EXCEPT !.phase = "get", !.report = none]
  BY Zenon DEF Decide
<1>2. DOMAIN running = Locals
  BY DEF FrameInv
<1>3. running.phase = "evaluate" /\ running.overload # <<>>
      /\ Handles(running, Candidates)
      /\ \A k \in DOMAIN Candidates : Collected(mock.overloads, created, Candidates[k], running.key)
  <2>1. running.phase = "evaluate" /\ running.overload # <<>>
        /\ running.key \in {Decay(s) : s \in ToSet(mock.overloads)}
    BY DEF Decide, CallInv
  <2> QED BY <2>1 DEF ServingInv, CollectionsInv, HandlerInv, IsRunning, Candidates
<1>4. /\ IsSequence(running.matches) /\ IsSequence(running.inapplicable)
      /\ \A k \in DOMAIN running.matches :
            /\ running.matches[k] \in DOMAIN Candidates
            /\ Serves(Candidates[running.matches[k]], running.overload)
      /\ \A k \in DOMAIN running.inapplicable :
            /\ running.inapplicable[k] \in DOMAIN Candidates
            /\ ~IsApplicable(Candidates[running.inapplicable[k]])
      /\ \A k \in DOMAIN running.noMatches : HasViolation(running.noMatches[k])
  BY <1>3 DEF Handles, JudgedInv
<1>5. running.matches # <<>> => IsAsAsserted(full)
  <2> SUFFICES ASSUME running.matches # <<>> PROVE IsAsAsserted(full)
    OBVIOUS
  <2>1. best \in DOMAIN Candidates /\ Serves(Candidates[best], running.overload)
    BY <1>4, FirstElement
  <2>2. full.is = "full_match" /\ full.expectation = ExpectationReport(Candidates[best])
    BY DEF Exp, Candidates
  <2> HIDE DEF full, best
  <2>3. full.expectation.control.is = "applicable"
    BY <1>3, <2>1, <2>2, ControlSays DEF Serves
  <2> QED BY <2>2, <2>3 DEF IsAsAsserted
<1>6. running.inapplicable # <<>> => IsAsAsserted(late)
  <2> SUFFICES ASSUME running.inapplicable # <<>> PROVE IsAsAsserted(late)
    OBVIOUS
  <2>1. late.is = "inapplicable" /\ late.expectations = exps
    OBVIOUS
  <2>2. exps # <<>>
    <3>1. 1 \in DOMAIN exps
      BY <1>4, FirstElement
    <3> HIDE DEF exps
    <3> QED BY <3>1, SequenceStarts
  <2>3. ASSUME NEW k \in DOMAIN exps
        PROVE  exps[k].control.is # "applicable"
    <3> DEFINE e == Candidates[running.inapplicable[k]]
    <3>1. exps[k] = ExpectationReport(e) /\ k \in DOMAIN running.inapplicable
      BY DEF Exp, Candidates
    <3> HIDE DEF exps
    <3>2. ~IsApplicable(e) /\ Collected(mock.overloads, created, e, running.key)
      BY <1>3, <1>4, <3>1
    <3> HIDE DEF e
    <3> QED BY <3>1, <3>2, ControlSays DEF IsApplicable
  <2> HIDE DEF late, exps
  <2> QED BY <2>1, <2>2, <2>3 DEF IsAsAsserted
<1>7. IsAsAsserted(none)
  <2>1. none.is = "no_matches" /\ none.expectations = running.noMatches
    OBVIOUS
  <2> HIDE DEF none
  <2> QED BY <1>4, <2>1, ViolationIsAsserted
<1> HIDE DEF full, late, none, best
<1>8. \/ running.matches # <<>> /\ running'.report = full
      \/ running.inapplicable # <<>> /\ running'.report = late
      \/ running'.report = none
  BY <1>1, <1>2 DEF Locals
<1> QED BY <1>5, <1>6, <1>7, <1>8

\* What is sorted out, and what is reported of it, action by action.
LEMMA AssertedPreserved ==
    FrameInv /\ CallInv /\ ServingInv /\ AssertedInv /\ [Next]_vars => AssertedInv'
<1> SUFFICES ASSUME FrameInv, CallInv, ServingInv, AssertedInv, [Next]_vars
             PROVE  AssertedInv'
  OBVIOUS
<1> DEFINE Judged(r, candidates) ==
               /\ \A k \in DOMAIN r.inapplicable :
                     ~IsApplicable(candidates[r.inapplicable[k]])
               /\ IsSequence(r.noMatches)
               /\ \A k \in DOMAIN r.noMatches : HasViolation(r.noMatches[k])
<1>1. ASSUME running'.phase \notin {"evaluate", "get", "deliver"} PROVE AssertedInv'
  BY <1>1 DEF AssertedInv, JudgedInv, ReportAssertionsHold, IsReporting
<1>2. ASSUME running'.overload = <<>>,
             running'.phase \in {"get", "deliver"} => IsAsAsserted(running'.report)
      PROVE  AssertedInv'
  BY <1>2 DEF AssertedInv, JudgedInv, ReportAssertionsHold, IsReporting
<1>3. ASSUME Judged(running', Candidates'),
             running'.phase \in {"get", "deliver"} => IsAsAsserted(running'.report)
      PROVE  AssertedInv'
  BY <1>3 DEF AssertedInv, JudgedInv, ReportAssertionsHold, IsReporting
<1>4. running.overload # <<>> /\ running.phase \in {"evaluate", "get", "deliver"}
          => Judged(running, Candidates)
  BY DEF AssertedInv, JudgedInv
<1>5. running.phase \in {"get", "deliver"} => IsAsAsserted(running.report)
  BY DEF AssertedInv, ReportAssertionsHold, IsReporting
<1>6. ASSUME NEW object, NEW stated, Expect(object, stated)
      PROVE  AssertedInv'
  <2>1. running' = Idle
    BY <1>6 DEF Expect
  <2> QED BY <1>1, <2>1, IdleLocals
<1>7. ASSUME NEW key \in DOMAIN collections, NEW at \in DOMAIN collections[key],
             Destroy(key, at)
      PROVE  AssertedInv'
  <2> DEFINE e == collections[key][at]
             report == [is |-> "unfulfilled", expectation |-> ExpectationReport(e)]
  <2>1. Collected(mock.overloads, created, e, key)
    BY <1>7 DEF ServingInv, CollectionsInv
  <2>2. running' = IF IsSatisfied(e) THEN Idle
                   ELSE [Idle EXCEPT !.phase = "get", !.report = report]
    BY <1>7, Zenon DEF Destroy
  <2>3. ~IsSatisfied(e) => IsAsAsserted(report)
    <3> HIDE DEF e
    <3> QED BY <2>1, UnfulfilledIsAsserted
  <2> HIDE DEF report, e
  <2>4. CASE IsSatisfied(e)
    BY <1>1, <2>2, <2>4, IdleLocals
  <2>5. CASE ~IsSatisfied(e)
    <3>1. running'.overload = <<>> /\ running'.report = report
      BY <2>2, <2>5, IdleLocals DEF Locals
    <3> QED BY <1>2, <2>3, <2>5, <3>1
  <2> QED BY <2>4, <2>5
<1>8. ASSUME NEW overload \in ToSet(mock.overloads), NEW method, NEW args,
             Begin(overload, method, args)
      PROVE  AssertedInv'
  <2>1. running'.inapplicable = <<>> /\ running'.noMatches = <<>>
        /\ running'.phase = "evaluate"
    <3>1. IsOverload(overload)
      BY MockDeclared
    <3> QED BY <1>8, <3>1, BeginSteps
  <2>2. Judged(running', Candidates')
    BY <2>1, SequenceStarts
  <2> HIDE DEF Judged
  <2> QED BY <1>3, <2>1, <2>2
<1>9. ASSUME Evaluate
      PROVE  AssertedInv'
  <2>1. /\ running.overload # <<>> /\ running.phase = "evaluate"
        /\ running'.phase \in {"evaluate", "get"} /\ Handles(running, Candidates)
    BY <1>9, EvaluateFinds, EvaluateSteps
  <2>2. Candidates' = Candidates
    <3>1. collections' = collections
      BY <1>9 DEF Evaluate
    <3> QED BY <1>9, <3>1, EvaluateSteps DEF SameCall, Candidates
  <2>3. IsSequence(running.inapplicable) /\ Judged(running, Candidates)
    BY <1>4, <2>1 DEF Handles
  <2>4. Judged(running', Candidates)
    <3> DEFINE at == running.todo
    <3>1. CASE /\ running'.noMatches = running.noMatches
               /\ running'.inapplicable = running.inapplicable
      BY <2>3, <3>1
    <3>2. CASE /\ running'.noMatches = running.noMatches
               /\ running'.inapplicable = Append(running.inapplicable, at)
               /\ ~IsApplicable(Candidates[at])
      <4>1. \A k \in DOMAIN running'.inapplicable :
                \/ running'.inapplicable[k] = at
                \/ /\ k \in DOMAIN running.inapplicable
                   /\ running'.inapplicable[k] = running.inapplicable[k]
        <5> DEFINE new == running'.inapplicable
                   old == running.inapplicable
        <5>1. IsSequence(old) /\ new = Append(old, at)
          BY <2>3, <3>2
        <5> HIDE DEF new, old, at
        <5>2. \A k \in DOMAIN new : new[k] = at \/ (k \in DOMAIN old /\ new[k] = old[k])
          BY <5>1, Appended, Zenon
        <5> QED BY <5>2, Zenon DEF new, old
      <4> HIDE DEF at
      <4>2. \A k \in DOMAIN running'.inapplicable :
                ~IsApplicable(Candidates[running'.inapplicable[k]])
        BY <2>3, <3>2, <4>1, Zenon
      <4> QED BY <2>3, <3>2, <4>2, Zenon
    <3>3. CASE /\ running'.inapplicable = running.inapplicable
               /\ \E r : /\ HasViolation(r)
                         /\ running'.noMatches = Append(running.noMatches, r)
      <4>1. PICK r : HasViolation(r) /\ running'.noMatches = Append(running.noMatches, r)
        BY <3>3
      <4>2. /\ IsSequence(running'.noMatches)
            /\ \A k \in DOMAIN running'.noMatches :
                  \/ running'.noMatches[k] = r
                  \/ /\ k \in DOMAIN running.noMatches
                     /\ running'.noMatches[k] = running.noMatches[k]
        <5> DEFINE new == running'.noMatches
                   old == running.noMatches
        <5>1. IsSequence(old) /\ new = Append(old, r)
          BY <2>3, <4>1
        <5> HIDE DEF new, old
        <5>2. /\ IsSequence(new)
              /\ \A k \in DOMAIN new : new[k] = r \/ (k \in DOMAIN old /\ new[k] = old[k])
          BY <5>1, Appended, Zenon
        <5> QED BY <5>2, Zenon DEF new, old
      <4>3. \A k \in DOMAIN running'.noMatches : HasViolation(running'.noMatches[k])
        BY <2>3, <4>1, <4>2, Zenon
      <4> QED BY <2>3, <3>3, <4>2, <4>3, Zenon
    <3> HIDE DEF Judged
    <3> QED BY <1>9, <3>1, <3>2, <3>3, EvaluateJudges, Zenon
  <2>5. running'.phase = "get" => IsAsAsserted(running'.report)
    <3>1. running'.phase = "get" => running'.report.is = "unhandled_exception"
      BY <1>9, EvaluateJudges
    <3> QED BY <3>1 DEF IsAsAsserted
  <2> HIDE DEF Judged
  <2> QED BY <1>3, <2>1, <2>2, <2>4, <2>5
<1>10. ASSUME NEW r, r = running', Candidates' = Candidates,
              r.inapplicable = running.inapplicable, r.noMatches = running.noMatches,
              running.overload # <<>>, running.phase \in {"evaluate", "get", "deliver"},
              r.phase \in {"get", "deliver"} => IsAsAsserted(r.report)
       PROVE  AssertedInv'
  <2>1. Judged(running', Candidates')
    BY <1>4, <1>10
  <2> HIDE DEF Judged
  <2> QED BY <1>3, <1>10, <2>1
<1> HIDE DEF Judged
<1>11. ASSUME Decide
       PROVE  AssertedInv'
  <2>1. /\ running.phase = "evaluate" /\ running'.phase \in {"consume", "get"}
        /\ running'.inapplicable = running.inapplicable
        /\ running'.noMatches = running.noMatches /\ SameCall
    BY <1>11, DecideSteps
  <2>2. running.overload # <<>> /\ Candidates' = Candidates
    BY <1>11, <2>1 DEF CallInv, SameCall, Candidates, Decide
  <2>3. running'.phase = "get" => IsAsAsserted(running'.report)
    BY <1>11, DecideReports DEF AssertedInv
  <2> QED BY <1>10, <2>1, <2>2, <2>3
<1>12. Consume \/ Finalize => AssertedInv'
  BY <1>1, ConsumeSteps, FinalizeSteps
<1>13. ASSUME GetTheReporter
       PROVE  AssertedInv'
  <2>1. /\ running.phase = "get" /\ running'.phase = "deliver"
        /\ running'.report = running.report
        /\ running'.inapplicable = running.inapplicable
        /\ running'.noMatches = running.noMatches /\ SameCall
    BY <1>13, GetSteps
  <2>2. Candidates' = Candidates /\ running'.overload = running.overload
    BY <1>13, <2>1 DEF SameCall, Candidates, GetTheReporter
  <2> QED BY <1>2, <1>5, <1>10, <2>1, <2>2
<1>14. ASSUME Deliver
       PROVE  AssertedInv'
  <2>1. /\ running.phase = "deliver"
        /\ running'.phase \in {"evaluate", "consume", "terminated", "threw"}
        /\ running'.inapplicable = running.inapplicable
        /\ running'.noMatches = running.noMatches /\ SameCall
    BY <1>14, DeliverSteps
  <2>2. Candidates' = Candidates /\ running'.overload = running.overload
    BY <1>14, <2>1 DEF SameCall, Candidates, Deliver
  <2> QED BY <1>2, <1>10, <2>1, <2>2
<1>15. ASSUME InstallReporter \/ UNCHANGED vars
       PROVE  AssertedInv'
  <2>1. running' = running /\ Candidates' = Candidates
    BY <1>15 DEF InstallReporter, vars, Candidates
  <2>2. CASE running.phase \notin {"evaluate", "get", "deliver"}
    BY <1>1, <2>1, <2>2
  <2>3. CASE running.overload = <<>>
    BY <1>2, <1>5, <2>1, <2>3
  <2>4. CASE running.phase \in {"evaluate", "get", "deliver"} /\ running.overload # <<>>
    BY <1>5, <1>10, <2>1, <2>4
  <2> QED BY <2>2, <2>3, <2>4
<1>16. ASSUME NEW object, NEW passed, CallDirect(object, passed)
       PROVE  AssertedInv'
  <2>1. \E overload \in Resolve(mock.overloads, object, passed.types) :
              Begin(overload, 0, passed.args)
    BY <1>16, Zenon DEF CallDirect
  <2>2. Resolve(mock.overloads, object, passed.types) \subseteq ToSet(mock.overloads)
    BY Zenon DEF Resolve
  <2> QED BY <1>8, <2>1, <2>2
<1>17. ASSUME NEW i \in DOMAIN program.methods, NEW passed, CallMethod(i, passed)
       PROVE  AssertedInv'
  <2>1. /\ program.style # "direct"
        /\ \E overload \in mock.forwarded[i] : Begin(overload, i, passed.args)
    BY <1>17, Zenon DEF CallMethod
  <2>2. mock.forwarded[i] = Forwarded(program, mock.overloads, i)
    BY <2>1, ForwardedTo, MockDeclared
  <2>3. Forwarded(program, mock.overloads, i) \subseteq ToSet(mock.overloads)
    BY Zenon DEF Forwarded, Resolve
  <2> QED BY <1>8, <2>1, <2>2, <2>3
<1> QED BY <1>6, <1>7, <1>9, <1>11, <1>12, <1>13, <1>14, <1>15, <1>16, <1>17, Zenon DEF Next

\* Whatever is called, what it has sorted out and what it reports are as asserted.
THEOREM AssertedHolds == Spec => []AssertedInv
<1>1. Init => AssertedInv
  <2>1. Init => running = Idle
    BY DEF Init
  <2> QED BY <2>1, IdleLocals DEF AssertedInv, JudgedInv, ReportAssertionsHold, IsReporting
<1>2. FrameInv /\ CallInv /\ ServingInv /\ AssertedInv /\ [Next]_vars => AssertedInv'
  BY AssertedPreserved
<1> QED BY <1>1, <1>2, FrameHolds, CallHolds, ServingHolds, PTL DEF Spec

\* Whatever the expectations, their matchers and the calls: every report is one
\* that its text can be made of, without failing an assertion of
\* StringifyReports.hpp or of partition_by.
THEOREM ReportsAreAsAsserted == Spec => []ReportAssertionsHold
<1>1. AssertedInv => ReportAssertionsHold
  BY DEF AssertedInv
<1> QED BY <1>1, AssertedHolds, PTL

=============================================================================

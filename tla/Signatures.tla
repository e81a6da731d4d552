------------------------------ MODULE Signatures ------------------------------
(***************************************************************************)
(* Signatures of mocked functions and the traits that take them apart and  *)
(* put them together (TypeTraits.hpp).  The traits are written out in the  *)
(* code as one specialization for each combination of the qualifiers,      *)
(* twice: with and without a C ellipsis, which counts as a parameter here. *)
(***************************************************************************)
EXTENDS Integers, Sequences

Signature(conv, ret, params, isConst, ref, isNoexcept) ==
    [conv |-> conv, ret |-> ret, params |-> params, const |-> isConst,
     ref |-> ref, noexcept |-> isNoexcept]

\* ValueCategory, with "any" for a signature that has no ref-qualifier.
Categories == {"any", "lvalue", "rvalue"}

\* What a signature without a registered convention has.
DefaultConvention == "default"

HasDefaultCallConvention(s) == s.conv = DefaultConvention

RemoveCallConvention(s) == [s EXCEPT !.conv = DefaultConvention]

AddCallConvention(s, conv) ==
    IF HasDefaultCallConvention(s) THEN [s EXCEPT !.conv = conv] ELSE s

\* signature_apply_trait: a trait knows the default convention only; what it makes
\* of s without its convention gets that back.
ApplyTrait(s, bare) == AddCallConvention(bare, s.conv)

RemoveNoexcept(s) ==
    ApplyTrait(s, [RemoveCallConvention(s) EXCEPT !.noexcept = FALSE])

AddNoexcept(s) ==
    ApplyTrait(s, [RemoveCallConvention(s) EXCEPT !.noexcept = TRUE])

RemoveRefQualifier(s) ==
    ApplyTrait(s, [RemoveCallConvention(s) EXCEPT !.ref = "any"])

RemoveConstQualifier(s) ==
    ApplyTrait(s, [RemoveCallConvention(s) EXCEPT !.const = FALSE])

AddConstQualifier(s) ==
    ApplyTrait(s, [RemoveCallConvention(s) EXCEPT !.const = TRUE])

\* Not defined for a signature that has the other ref-qualifier.
AddLvalueRefQualifier(s) ==
    ApplyTrait(s, [RemoveCallConvention(s) EXCEPT !.ref = "lvalue"])

AddRvalueRefQualifier(s) ==
    ApplyTrait(s, [RemoveCallConvention(s) EXCEPT !.ref = "rvalue"])

PrependParam(s, type) ==
    ApplyTrait(s, [RemoveCallConvention(s) EXCEPT !.params = <<type>> \o @])

Decay(s) ==
    RemoveRefQualifier(RemoveConstQualifier(RemoveNoexcept(RemoveCallConvention(s))))

ParamList(s) == Decay(s).params

-----------------------------------------------------------------------------
\* Overloading.

NormalizeOverload(s) == RemoveNoexcept(RemoveCallConvention(s))

Qualification(s) == [const |-> s.const, ref |-> s.ref]

\* Bug: signatures with and without ref-qualifier are taken together.
QualifiedInAnyWay(first, second) == Qualification(first) # Qualification(second)

\* The specializations for equal parameter lists.  The unspecialized template
\* tries the two signatures in the other order.
QualifiedApart(first, second) ==
    /\ Qualification(first) # Qualification(second)
    /\ (first.ref = "any") = (second.ref = "any")

IsOverloadableWith(first, second) ==
    LET a == NormalizeOverload(first)
        b == NormalizeOverload(second)
    IN  ParamList(a) # ParamList(b) \/ QualifiedApart(a, b)

IsOverloadSet(signatures) ==
    \A j \in DOMAIN signatures : \A i \in 1 .. j - 1 :
        IsOverloadableWith(signatures[i], signatures[j])

=============================================================================

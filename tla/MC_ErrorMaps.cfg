SPECIFICATION Spec
INVARIANT TranslationMatchesSpec

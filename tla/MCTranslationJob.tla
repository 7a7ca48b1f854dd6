-------------------------- MODULE MCTranslationJob --------------------------
(* The instance of TranslationJob that TLC checks. *)
EXTENDS TranslationJob
=============================================================================

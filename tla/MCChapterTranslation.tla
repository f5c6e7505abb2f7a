------------------------ MODULE MCChapterTranslation ------------------------
(* ChapterTranslation for TLC.  Callers are interchangeable.                *)
EXTENDS ChapterTranslation, TLC

Symmetry == Permutations(Callers)
=============================================================================

---------------------------- MODULE MCTranslation ----------------------------
EXTENDS Translation

\* A message in the user's other language, and one without words.
MCMessageLang == [m \in 1..2 |-> IF m = 1 THEN "en" ELSE "ru"]
MCLists == {{"en"}}
=============================================================================

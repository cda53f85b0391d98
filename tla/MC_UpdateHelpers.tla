--------------------------- MODULE MC_UpdateHelpers ---------------------------
EXTENDS UpdateHelpers

\* One caller of each helper on the same object, each adding its own key.
MCKind == [c \in Callers |-> CASE c = "t1" -> "tryUpdate"
                               [] c = "s1" -> "updateStatus"
                               [] OTHER    -> "createOrPatch"]
MCElem == [c \in Callers |-> CASE c = "t1" -> "x"
                               [] c = "s1" -> "s"
                               [] OTHER    -> "p"]

====

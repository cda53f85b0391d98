-------------------------- MODULE MC_SecretResolver --------------------------
EXTENDS SecretResolver

\* Two Postgres objects share the managed secret s1, a third uses the
\* user-supplied s2.
MCInitLive3 == [n \in Names |-> IF n = "c" THEN "s2" ELSE "s1"]
\* One Postgres uses s1; the other name is free.
MCInitLive2 == [n \in Names |-> IF n = "a" THEN "s1" ELSE None]

====

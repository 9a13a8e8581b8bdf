--------------------------- MODULE MCLiveExchange ---------------------------
EXTENDS LiveExchange

\* Folders with one certificate and one key, an operator who types a phrase: pieces of one
\* set, a key of another set, a wrong phrase, a file that is no certificate; a key that is not
\* encrypted, and one folder for every other reason a folder is refused.
Folder(c, k, ph) == [offer |-> [mode |-> "copied", cert |-> c, key |-> k, phrase |-> ph],
                     ci |-> FALSE, direct |-> FALSE, inRepo |-> FALSE,
                     certs |-> 1, keys |-> 1, empty |-> FALSE, typed |-> TRUE]
Good == Folder("a", "a", "a")
Referenced == [Good EXCEPT !.offer.mode = "referenced"]
Refused == {[Good EXCEPT !.ci = TRUE], [Good EXCEPT !.direct = TRUE], [Good EXCEPT !.inRepo = TRUE],
            [Good EXCEPT !.certs = 0], [Good EXCEPT !.keys = 2], [Good EXCEPT !.empty = TRUE],
            [Good EXCEPT !.typed = FALSE]}
MCSources ==
  {Good, Referenced, Folder("b", "a", "a"), Folder("b", "b", "a"), Folder("torn", "a", "a"),
   Folder("plain", "plain", "plain")} \cup Refused
CopiedSources == {Good, Folder("b", "b", "b")}

\* The exception whose kind depends on the stage.
MCFailures == {e \in Exceptions : e.class = "timeout" /\ e.says = {} /\ ~e.wrapped}
=============================================================================

---------------------------- MODULE MCNotesRepo ----------------------------
(***************************************************************************)
(* Two notes (a third one for paging) whose ids share a prefix, one field, *)
(* a tag below another one.                                                *)
(***************************************************************************)
EXTENDS NotesRepo, TLC

CONSTANTS n1, n2, n3, short, f, a, ab, human, agent, t1, t2, r1

MCIdOrder == [n \in NoteId |-> CASE n = n1 -> 1 [] n = n2 -> 2 [] n = n3 -> 3]

\* The references n1 .. n3 are full ids; `short` begins the first two.
MCRef == NoteId \cup {short}

MCMatches == [r \in MCRef |-> IF r = short THEN {n1, n2} ELSE {r}]

MCPrefixes == [t \in Tag |-> IF t = ab THEN {a, ab} ELSE {t}]

Plain == [field |-> None, tags |-> {}, links |-> {}, role |-> human]

Filed == [Plain EXCEPT !.field = f, !.tags = {ab}]

MCCreateInput == {Plain, Filed, [Plain EXCEPT !.links = {n1}]}

JustText == [field |-> Keep, tags |-> Keep, links |-> Keep]

MCUpdateInput ==
    {JustText, [JustText EXCEPT !.field = None], [JustText EXCEPT !.tags = {a}],
     [JustText EXCEPT !.links = {short, n2}]}

PlainNotes == {Plain, [Plain EXCEPT !.role = agent]}

PlainUpdates == {JustText}

Tasks == Permutations(Task)
=============================================================================

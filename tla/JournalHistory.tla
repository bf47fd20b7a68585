--------------------------- MODULE JournalHistory ---------------------------
(***************************************************************************)
(* The journal's history: for every state of the journal, the state of the *)
(* specification History that it stands for.  The variables of History are *)
(* beside those of Journal here, tied to them by Shown: they hold what the *)
(* refinement mapping computes, once for each state, and restrict nothing. *)
(***************************************************************************)
EXTENDS Journal

VARIABLES doc, past, future, open, recording, saved

historyVars == <<doc, past, future, open, recording, saved>>


\* The incremental table, and what shows through where it is empty.
Top(secs, n) == IF n = 0 THEN Empty ELSE secs[1]
Below(secs, n) ==
    LET older == IF n = 0 THEN secs ELSE Tail(secs)
    IN  [x \in Num |-> Lookup(older, x).obj]
Document(table, below) ==
    [x \in Num |-> IF table[x].type = "none" THEN below[x] ELSE table[x].obj]

\* The table as it was before each of a list of entries that are in force, and
\* after the last one.
Before(table, entries) ==
    LET n == Len(entries)
        at[k \in 0 .. n] == IF k = n THEN table ELSE SwapTable(at[k + 1], entries[k + 1])
    IN  at

\* The table after each of a list of entries that are not, and before the first.
After(table, entries) ==
    LET at[k \in 0 .. Len(entries)] ==
            IF k = 0 THEN table ELSE SwapTable(at[k - 1], entries[k])
    IN  at

Pending == [k \in DOMAIN pending |-> pending[k].frags]

PastOf(table, below, entries, pos) ==
    LET at == Before(table, SubSeq(entries, 1, pos))
    IN  [k \in 1 .. pos |-> Document(at[k - 1], below)]
FutureOf(table, below, entries, pos) ==
    LET at == After(table, SubSeq(entries, pos + 1, Len(entries)))
    IN  [k \in 1 .. Len(entries) - pos |-> Document(at[k], below)]

Now == Top(sections, incs)
Under == Below(sections, incs)

\* The state of History that a state of Journal stands for.
Shown ==
    LET tables == Before(Now, Pending)
        under == Under
    IN  [doc |-> Document(Now, under),
         past |-> PastOf(tables[0], under, history, current),
         future |-> FutureOf(tables[0], under, history, current),
         open |-> [k \in DOMAIN pending |-> [doc |-> Document(tables[k - 1], under),
                                             named |-> pending[k].named]]]

ShownSaved ==
    LET now == Top(file.sections, file.incs)
        under == Below(file.sections, file.incs)
    IN  [doc |-> Document(now, under),
         past |-> PastOf(now, under, file.history, file.current),
         future |-> FutureOf(now, under, file.history, file.current),
         recording |-> file.journal]

ShownInit ==
    /\ Init
    /\ recording = journal
    /\ saved = ShownSaved
    /\ \E s \in {Shown} :
          doc = s.doc /\ past = s.past /\ future = s.future /\ open = s.open

\* What the mapping is made of; where it is unchanged, so is what it shows.
shownVars == <<sections, incs, pending, history, current>>

ShownNext ==
    /\ Next
    /\ recording' = journal'
    /\ saved' = IF file' = file THEN saved ELSE ShownSaved'
    /\ IF shownVars' = shownVars
         THEN UNCHANGED <<doc, past, future, open>>
         ELSE \E s \in {Shown'} :
                 doc' = s.doc /\ past' = s.past /\ future' = s.future /\ open' = s.open

ShownSpec == ShownInit /\ [][ShownNext]_<<vars, historyVars>>

H == INSTANCE History WITH
        Original <- [x \in Num |-> IF x <= FileLen THEN FileVal ELSE Null]

\* Through moved objects, local xrefs, failing allocations, nested, implicit
\* and abandoned operations, undo, redo, death and reopening, the document has
\* the history that was promised: undo and redo lead to exactly the documents
\* that were there, local edits never show, a failure changes nothing.  Only
\* where the cross reference is a table (~XrefStream): the writer of a stream
\* makes a step of the history out of a snapshot, and gives up the redo steps.
RefinesHistory == H!Spec
=============================================================================

------------------------------ MODULE Journal ------------------------------
(***************************************************************************)
(* How a PDF document changes (source/pdf/pdf-xref.c, pdf-object.c): the     *)
(* sections of the cross reference, the newest first, with the incremental *)
(* one that takes the changes; the local cross reference that hides         *)
(* generated appearances from the document; the journal whose entries are   *)
(* lists of fragments, each the inactive value of one object; and the       *)
(* snapshot that lets a program that dies continue with document and        *)
(* history.  A document is used by one thread: an action is one call.       *)
(*                                                                         *)
(* Objects are in memory: what the types 'n' and 'o' say of where to read   *)
(* them from matters when they are written.  Stream buffers move with their *)
(* object's entry and are left out.                                         *)
(***************************************************************************)
EXTENDS Integers, Sequences, SequencesExt

CONSTANTS
    Val,          \* contents of an object
    Null,         \* no object
    FileLen,      \* objects in the file, numbered from 1
    FileVal,      \* what they all hold
    Appearance,   \* contents of an object generated for display only
    MaxNum,       \* bound: object numbers
    MaxNesting,   \* bound: nested operations
    MaxHistory,   \* bound: entries of the journal
    Budget,       \* bound: added objects, journal entries, open operations,
                  \* the snapshot and the local xref together
    MaxSections,  \* bound: cross reference sections; 2 excludes signing
    Ops,          \* the optional operations: "lookup", "local", "sign",
                  \* "snapshot", "fail"
    Careful,      \* snapshots are taken only of what the writer can write
    XrefStream    \* the file's last cross reference section is a stream

ASSUME JournalAssumption ==
    /\ FileLen \in Nat /\ MaxNum \in Nat /\ FileLen <= MaxNum
    /\ MaxNesting \in Nat /\ MaxHistory \in Nat /\ Budget \in Nat
    /\ MaxSections \in Nat \ {0}
    /\ FileVal \in Val /\ Null \notin Val /\ Appearance \notin Val \cup {Null}
    /\ Ops \subseteq {"lookup", "local", "sign", "snapshot", "fail"}
    /\ Careful \in BOOLEAN /\ XrefStream \in BOOLEAN

Num == 1 .. MaxNum

VARIABLES
    sections,      \* doc->xref_sections, Num -> entry each
    signed,        \* those with unsaved_sigs
    incs,          \* doc->num_incremental_sections
    xrefLen,       \* pdf_xref_len: the largest object number
    index,         \* doc->xref_index, counted from 1
    local,         \* doc->local_xref's table, or <<>>
    localLen,      \* its num_objects
    localNesting,  \* doc->local_xref_nesting
    journal,       \* doc->journal is there
    nesting,       \* its nesting
    lost,          \* levels of it that no caller will end
    pending,       \* its pending list: [named, frags] of the open operations
    history,       \* its list from head: frags of each entry
    current,       \* position of its current in history, 0 for NULL
    file           \* the last snapshot and journal written

xrefVars == <<sections, signed, incs, xrefLen, index>>
localVars == <<local, localLen, localNesting>>
journalVars == <<journal, nesting, lost, pending, history, current>>
vars == <<xrefVars, localVars, journalVars, file>>

\* Types: nothing here, 'f' free, 'n' an object, 'o' one in an object stream.
Entry == [type : {"none", "f", "n", "o"}, obj : Val \cup {Null}]
Absent == [type |-> "none", obj |-> Null]
Free == [type |-> "f", obj |-> Null]
Used(v) == [type |-> "n", obj |-> v]
InUse(entry) == entry.type \in {"n", "o"}
Empty == [x \in Num |-> Absent]
Fragment == [num : Num, new : BOOLEAN, obj : Val \cup {Null}]
FileSection == [x \in Num |-> IF x <= FileLen THEN Used(FileVal) ELSE Absent]

Init ==
    /\ sections = <<FileSection>> /\ signed = <<FALSE>>
    /\ incs = 0 /\ xrefLen = FileLen
    /\ index = [x \in Num |-> 1]
    /\ local = <<>> /\ localLen = 0 /\ localNesting = 0
    /\ journal = FALSE /\ nesting = 0 /\ lost = 0
    /\ pending = <<>> /\ history = <<>> /\ current = 0
    /\ file = [sections |-> sections, incs |-> 0, xrefLen |-> FileLen,
               journal |-> FALSE, history |-> <<>>, current |-> 0, inStream |-> {}, taken |-> FALSE]

-----------------------------------------------------------------------------
(* Looking objects up. *)

InForce == local # <<>> /\ localNesting > 0

\* The first section from i on that defines x, 0 for none.
FindFrom(secs, x, i) ==
    LET found == {j \in i .. Len(secs) : secs[j][x].type # "none"}
    IN  IF found = {} THEN 0 ELSE CHOOSE j \in found : \A k \in found : j <= k

Lookup(secs, x) ==
    LET j == FindFrom(secs, x, 1) IN IF j = 0 THEN Absent ELSE secs[j][x]

Visible(x) ==
    IF InForce /\ local[x].type # "none" THEN local[x] ELSE Lookup(sections, x)

\* A lookup remembers the section it found the object in.
Load(x) ==
    /\ ~(InForce /\ local[x].type # "none")
    /\ index' = [index EXCEPT ![x] =
                    LET j == FindFrom(sections, x, 1) IN IF j = 0 THEN 1 ELSE j]
    /\ UNCHANGED <<sections, signed, incs, xrefLen, localVars, journalVars, file>>

-----------------------------------------------------------------------------
(* The incremental section. *)

NeedsSectionOnce == incs = 0
\* A signed section takes no more changes: another one is put before it.
NeedsSection == incs = 0 \/ signed[1]

WithIncrement == IF NeedsSection THEN <<Empty>> \o sections ELSE sections
IndexWithIncrement ==
    IF NeedsSection THEN [x \in Num |-> index[x] + 1] ELSE index

EnsureIncrement ==
    /\ NeedsSection => Len(sections) < MaxSections
    /\ signed' = IF NeedsSection THEN <<FALSE>> \o signed ELSE signed
    /\ incs' = IF NeedsSection THEN incs + 1 ELSE incs

\* Where pdf_xref_ensure_incremental_object finds x, from its index on.
Holder(x) == FindFrom(WithIncrement, x, IndexWithIncrement[x])

\* The object is moved into the incremental section, a copy stays behind.
WasEmpty(x) == Holder(x) > 1
InSection(entry) == IF entry.type = "o" THEN [entry EXCEPT !.type = "n"] ELSE entry
WithObject(x) ==
    IF WasEmpty(x)
    THEN [WithIncrement EXCEPT ![1][x] = InSection(WithIncrement[Holder(x)][x])]
    ELSE WithIncrement

-----------------------------------------------------------------------------
(* The journal's lists. *)

Mentions(frags, x) == \E i \in DOMAIN frags : frags[i].num = x
NotMentioned(before, f) == ~Mentions(before, f.num)

ResolveAll(frags, more) == frags \o more
\* resolve_undo: of two fragments for an object the first one stays.
Resolve(frags, more) ==
    LET kept == {i \in DOMAIN more : NotMentioned(frags, more[i])}
        Nth(n) == CHOOSE i \in kept : Cardinality({j \in kept : j <= i}) = n
    IN  frags \o [n \in 1 .. Cardinality(kept) |-> more[Nth(n)]]

DiscardRedoAndLast ==
    history' = IF journal THEN SubSeq(history, 1, current - 1) ELSE history
\* Forgets what could be redone.
DiscardRedo == history' = IF journal THEN SubSeq(history, 1, current) ELSE history

AddFragment(x, new, obj) ==
    pending' = [pending EXCEPT ![Len(pending)].frags =
                   Append(@, [num |-> x, new |-> new, obj |-> obj])]

\* swap_fragments: every fragment changes places with its object's entry, in
\* the order of the list; an object mentioned twice meets its own past.
Put(f) == [type |-> IF f.new THEN "none" ELSE "o", obj |-> f.obj]
Met(table, frags, x, i) ==
    LET earlier == {j \in DOMAIN frags : j < i /\ frags[j].num = x}
    IN  IF earlier = {} THEN table[x]
        ELSE Put(frags[CHOOSE j \in earlier : \A k \in earlier : k <= j])

SwapTable(table, frags) == [x \in Num |-> Met(table, frags, x, Len(frags) + 1)]
SwapFrags(table, frags) ==
    [i \in DOMAIN frags |->
        LET old == Met(table, frags, frags[i].num, i)
        IN  [num |-> frags[i].num, new |-> old.type = "none", obj |-> old.obj]]

SwapIndexKept(frags) == IndexWithIncrement
SwapIndex(frags) ==
    [x \in Num |-> IF Mentions(frags, x) THEN 1 ELSE IndexWithIncrement[x]]

\* The entry is swapped into the incremental section, any local xref goes.
SwapIn(frags) ==
    /\ IF frags = <<>>
         THEN UNCHANGED xrefVars
         ELSE /\ EnsureIncrement
              /\ sections' = [WithIncrement EXCEPT ![1] = SwapTable(@, frags)]
              /\ index' = SwapIndex(frags)
              /\ xrefLen' = CHOOSE n \in Num : /\ n >= xrefLen
                                               /\ \A i \in DOMAIN frags : n >= frags[i].num
                                               /\ n = xrefLen \/ Mentions(frags, n)
    /\ local' = <<>> /\ localLen' = 0
    /\ UNCHANGED localNesting

Swapped(frags) == SwapFrags(IF NeedsSection THEN Empty ELSE sections[1], frags)

Spent ==
    (xrefLen - FileLen) + Len(history) + nesting
    + (IF file.taken THEN 1 ELSE 0) + (IF local = <<>> THEN 0 ELSE 1)

-----------------------------------------------------------------------------
(* Changing the document (prepare_object_for_alteration). *)

\* Where the alteration of x begins: inside an operation, if journalled.  The
\* code asks for nesting > 0 and asserts the other.
MayAlter(x) ==
    /\ ~InForce
    /\ InUse(Lookup(sections, x))
    /\ journal => nesting > 0 /\ pending # <<>>

StashedAnywhere(x) == journal /\ \E k \in DOMAIN pending : Mentions(pending[k].frags, x)
Stashed(x) == journal /\ Mentions(Last(pending).frags, x)

\* A local xref that is not in force no longer fits the document.
DropLocal == local' = <<>> /\ localLen' = 0 /\ UNCHANGED localNesting

Alter(x, v) ==
    /\ MayAlter(x)
    /\ v # Lookup(sections, x).obj
    /\ DropLocal
    /\ DiscardRedo
    /\ EnsureIncrement
    /\ sections' = [WithObject(x) EXCEPT ![1][x].obj = v]
    /\ index' = [IndexWithIncrement EXCEPT ![x] = 1]
    /\ IF ~journal \/ Stashed(x)
         THEN UNCHANGED pending
         ELSE AddFragment(x, WasEmpty(x),
                          IF WasEmpty(x) THEN Null ELSE WithIncrement[1][x].obj)
    /\ UNCHANGED <<xrefLen, journal, nesting, lost, current, file>>

\* Memory runs out: before the object is moved, or before the fragment is added.
AlterFails(x, moved) ==
    /\ MayAlter(x)
    /\ journal /\ ~Stashed(x)
    /\ DropLocal
    /\ DiscardRedo
    /\ EnsureIncrement
    /\ sections' = IF moved THEN WithObject(x) ELSE WithIncrement
    /\ index' = IF moved THEN [IndexWithIncrement EXCEPT ![x] = 1] ELSE IndexWithIncrement
    /\ UNCHANGED <<xrefLen, journal, nesting, lost, pending, current, file>>

\* pdf_add_object: a new number and its value.
Add(v) ==
    LET x == xrefLen + 1
    IN  /\ ~InForce /\ x \in Num /\ Spent < Budget
        /\ journal => pending # <<>>
        /\ EnsureIncrement
        /\ sections' = [WithIncrement EXCEPT ![1][x] = Used(v)]
        /\ index' = [IndexWithIncrement EXCEPT ![x] = 1]
        /\ xrefLen' = x
        /\ IF journal THEN AddFragment(x, TRUE, Null) ELSE UNCHANGED pending
        /\ UNCHANGED <<localVars, journal, nesting, lost, history, current, file>>

\* No operation is open, or no memory for the fragment: the slot stays, free.
AddFails ==
    LET x == xrefLen + 1
    IN  /\ ~InForce /\ x \in Num /\ Spent < Budget
        /\ journal
        /\ EnsureIncrement
        /\ sections' = [WithIncrement EXCEPT ![1][x] = Free]
        /\ index' = [IndexWithIncrement EXCEPT ![x] = 1]
        /\ xrefLen' = x
        /\ UNCHANGED <<localVars, journalVars, file>>

\* pdf_update_object keeps no journal: callers use it on what the open
\* operation has stashed or created.
Update(x, v) ==
    /\ ~InForce
    /\ pending # <<>> /\ Mentions(Last(pending).frags, x)
    /\ v # Lookup(sections, x).obj
    /\ EnsureIncrement
    /\ sections' = [WithIncrement EXCEPT ![1][x] = Used(v)]
    /\ index' = [IndexWithIncrement EXCEPT ![x] = 1]
    /\ UNCHANGED <<xrefLen, localVars, journalVars, file>>

\* A signature is recorded with the section that holds the signed field.
Sign ==
    /\ pending # <<>> /\ incs > 0 /\ ~InForce
    /\ signed' = [signed EXCEPT ![1] = TRUE]
    /\ UNCHANGED <<sections, incs, xrefLen, index, localVars, journalVars, file>>

-----------------------------------------------------------------------------
(* The local xref, for the appearances of annotations. *)

Push ==
    /\ localNesting = 0
    /\ localNesting' = 1
    /\ UNCHANGED <<xrefVars, local, localLen, journalVars, file>>

EnsureLocal ==
    /\ localNesting > 0 /\ local = <<>> /\ Spent < Budget
    /\ local' = Empty
    /\ localLen' = xrefLen
    /\ UNCHANGED <<xrefVars, localNesting, journalVars, file>>

Pop ==
    /\ localNesting > 0
    /\ localNesting' = localNesting - 1
    /\ UNCHANGED <<xrefVars, local, localLen, journalVars, file>>

PopAndDiscard ==
    /\ localNesting = 1
    /\ localNesting' = 0
    /\ local' = <<>> /\ localLen' = 0
    /\ UNCHANGED <<xrefVars, journalVars, file>>

\* The original moves to the local xref, the document keeps a copy.
LocalAlter(x) ==
    /\ InForce /\ InUse(Visible(x))
    /\ journal => nesting > 0
    /\ local' = [local EXCEPT ![x] = Used(Appearance)]
    /\ index' = IF local[x].type = "none" THEN [index EXCEPT ![x] = 1] ELSE index
    /\ UNCHANGED <<sections, signed, incs, xrefLen, localLen, localNesting,
                   journalVars, file>>

LocalAdd ==
    LET x == localLen + 1
    IN  /\ InForce /\ x \in Num
        /\ local' = [local EXCEPT ![x] = Used(Appearance)]
        /\ localLen' = x
        /\ UNCHANGED <<xrefVars, localNesting, journalVars, file>>

-----------------------------------------------------------------------------
(* Operations. *)

Enable ==
    /\ ~journal
    /\ journal' = TRUE
    /\ UNCHANGED <<xrefVars, localVars, nesting, lost, pending, history, current, file>>

\* Only the outermost operation's title is ever looked at.
Begin(named) ==
    /\ journal /\ nesting < MaxNesting /\ Spent < Budget
    /\ nesting > 0 => named
    /\ nesting' = nesting + 1
    /\ pending' = Append(pending, [named |-> named, frags |-> <<>>])
    /\ UNCHANGED <<xrefVars, localVars, journal, lost, history, current, file>>

\* No memory for the title: the level is counted, but nothing was begun.
BeginFails ==
    /\ journal /\ nesting < MaxNesting /\ Spent < Budget
    /\ nesting' = nesting + 1
    /\ lost' = lost + 1
    /\ UNCHANGED <<xrefVars, localVars, journal, pending, history, current, file>>

\* Callers end or abandon what they have begun.
HasBegun == nesting > lost

\* After a lost level, the outermost operation may end as an inner one, and stay.
EndInner ==
    /\ HasBegun /\ nesting > 1
    /\ nesting' = nesting - 1
    /\ pending' = IF Len(pending) = 1 THEN pending
                  ELSE [Front(pending) EXCEPT ![Len(pending) - 1].frags =
                           Resolve(@, Last(pending).frags)]
    /\ UNCHANGED <<xrefVars, localVars, journal, lost, history, current, file>>

\* The outermost operation ends, and its list of fragments goes to the history.
EndOuter ==
    /\ HasBegun /\ nesting = 1
    /\ nesting' = 0 /\ pending' = <<>>
    /\ UNCHANGED <<xrefVars, localVars, journal, lost, file>>

EndEmpty ==
    /\ EndOuter
    /\ pending[1].frags = <<>>
    /\ UNCHANGED <<history, current>>

EndNamed ==
    /\ EndOuter
    /\ pending[1].frags # <<>> /\ pending[1].named
    /\ current < MaxHistory
    /\ history' = Append(SubSeq(history, 1, current), pending[1].frags)
    /\ current' = current + 1

\* The callers' habit: what an implicit operation adds, it also links from an
\* object it alters, so that there is nothing left to redo.
LinksWhatItAdds == current = Len(history)

\* An implicit operation joins the one before, or is forgotten without one.
EndImplicit ==
    /\ EndOuter
    /\ pending[1].frags # <<>> /\ ~pending[1].named
    /\ LinksWhatItAdds
    /\ history' = IF current = 0 THEN history
                  ELSE [history EXCEPT ![current] = Resolve(@, pending[1].frags)]
    /\ UNCHANGED current

\* Callers pop the local xref before they abandon an operation.
Abandon ==
    /\ HasBegun /\ localNesting = 0
    /\ nesting' = nesting - 1
    /\ SwapIn(Last(pending).frags)
    /\ pending' = Front(pending)
    /\ UNCHANGED <<journal, lost, history, current, file>>

Undo ==
    /\ journal /\ nesting = 0 /\ localNesting = 0
    /\ current > 0
    /\ current' = current - 1
    /\ SwapIn(history[current])
    /\ history' = [history EXCEPT ![current] = Swapped(@)]
    /\ UNCHANGED <<journal, nesting, lost, pending, file>>

Redo ==
    /\ journal /\ nesting = 0 /\ localNesting = 0
    /\ current < Len(history)
    /\ current' = current + 1
    /\ SwapIn(history[current + 1])
    /\ history' = [history EXCEPT ![current + 1] = Swapped(@)]
    /\ UNCHANGED <<journal, nesting, lost, pending, file>>

-----------------------------------------------------------------------------
(* Snapshots: pdf_save_snapshot and pdf_save_journal, pdf_load_journal. *)

\* pdf_has_unsaved_changes
Changed == incs > 0 /\ \E x \in Num : sections[1][x].type # "none"

\* The incremental entries the writer expects in object streams.
InStream == {x \in Num : \E i \in 1 .. incs : sections[i][x].type = "o"}

\* They are skipped; the others are written, and read again from there.
Written(section) ==
    [x \in Num |-> IF section[x].type = "o" THEN Absent ELSE section[x]]
SectionsWritten ==
    [i \in DOMAIN sections |-> IF i <= incs THEN Written(sections[i]) ELSE sections[i]]

\* A fragment that stands for a new object is written without its value.
Serialised(frags) ==
    [i \in DOMAIN frags |-> IF frags[i].new THEN [frags[i] EXCEPT !.obj = Null] ELSE frags[i]]

Saved(n, secs, len, entries, pos) ==
    [sections |-> secs, incs |-> n, xrefLen |-> len, journal |-> journal,
     history |-> [k \in DOMAIN entries |-> Serialised(entries[k])],
     current |-> pos, inStream |-> IF n = 0 THEN {} ELSE InStream, taken |-> TRUE]

\* The runs take snapshots between operations, of documents without signatures.
MaySave ==
    /\ nesting = 0 /\ localNesting = 0
    /\ \A i \in DOMAIN signed : ~signed[i]
    /\ Careful => InStream = {}

Snapshot ==
    /\ MaySave /\ ~(Changed /\ XrefStream)
    /\ file' = IF Changed THEN Saved(incs, SectionsWritten, xrefLen, history, current)
               ELSE Saved(0, SubSeq(sections, incs + 1, Len(sections)), FileLen, history, current)
    /\ UNCHANGED <<xrefVars, localVars, journalVars>>

\* A cross reference stream is an object: the writer creates it and deletes it
\* again, but the file keeps it, and the operation "Save document" is a step.
SnapshotAsStream ==
    LET x == xrefLen + 1
        created == <<[num |-> x, new |-> TRUE, obj |-> Null]>>
    IN  /\ MaySave /\ Changed /\ XrefStream
        /\ x \in Num /\ Spent < Budget /\ current < MaxHistory
        /\ xrefLen' = x
        /\ index' = [index EXCEPT ![x] = 1]
        /\ history' = IF journal THEN Append(SubSeq(history, 1, current), created)
                      ELSE history
        /\ current' = IF journal THEN current + 1 ELSE current
        /\ file' = Saved(incs, [SectionsWritten EXCEPT ![1][x] = Used(FileVal)], x,
                         history', current')
        /\ UNCHANGED <<sections, signed, incs, localVars, journal, nesting, lost, pending>>

\* The program dies; the snapshot is opened and its journal loaded.
Reopen ==
    /\ sections' = file.sections
    /\ signed' = [i \in DOMAIN file.sections |-> FALSE]
    /\ incs' = file.incs /\ xrefLen' = file.xrefLen
    /\ index' = [x \in Num |-> 1]
    /\ local' = <<>> /\ localLen' = 0 /\ localNesting' = 0
    /\ journal' = file.journal
    /\ nesting' = 0 /\ lost' = 0 /\ pending' = <<>>
    /\ history' = file.history /\ current' = file.current
    /\ UNCHANGED file

Next ==
    \/ \E x \in Num, v \in Val : Alter(x, v) \/ Update(x, v)
    \/ \E v \in Val : Add(v)
    \/ Enable \/ \E named \in BOOLEAN : Begin(named)
    \/ EndInner \/ EndEmpty \/ EndNamed \/ EndImplicit
    \/ Abandon \/ Undo \/ Redo
    \/ "lookup" \in Ops /\ \E x \in Num : Load(x)
    \/ /\ "fail" \in Ops
       /\ AddFails \/ BeginFails \/ \E x \in Num, moved \in BOOLEAN : AlterFails(x, moved)
    \/ /\ "local" \in Ops
       /\ \/ Push \/ EnsureLocal \/ Pop \/ PopAndDiscard
          \/ LocalAdd \/ \E x \in Num : LocalAlter(x)
    \/ "sign" \in Ops /\ Sign
    \/ "snapshot" \in Ops /\ (Snapshot \/ SnapshotAsStream \/ Reopen)

Spec == Init /\ [][Next]_vars

-----------------------------------------------------------------------------
(* Properties. *)

TypeOK ==
    /\ Len(sections) \in 1 .. MaxSections
    /\ sections \in Seq([Num -> Entry])
    /\ signed \in [DOMAIN sections -> BOOLEAN]
    /\ incs \in 0 .. Len(sections) - 1
    /\ xrefLen \in FileLen .. MaxNum
    /\ index \in [Num -> 1 .. Len(sections)]
    /\ local = <<>> \/ local \in [Num -> {Absent, Used(Appearance)}]
    /\ localLen \in 0 .. MaxNum /\ localNesting \in {0, 1}
    /\ journal \in BOOLEAN
    /\ nesting \in 0 .. MaxNesting /\ lost \in 0 .. nesting
    /\ Len(pending) \in nesting - lost .. nesting
    /\ pending \in Seq([named : BOOLEAN, frags : Seq(Fragment)])
    /\ history \in Seq(Seq(Fragment)) /\ Len(history) <= MaxHistory
    /\ current \in 0 .. Len(history)

\* An entry mentions an object once: swap_fragments runs through the list
\* forwards for undo and for redo alike (the comment above resolve_undo).
Once(frags) == \A i, j \in DOMAIN frags : frags[i].num = frags[j].num => i = j
ObjectsOnce ==
    /\ \A k \in DOMAIN pending : Once(pending[k].frags)
    /\ \A k \in DOMAIN history : Once(history[k])

\* doc->xref_index never points past the newest section that defines an
\* object: pdf_xref_ensure_incremental_object searches from there on only, and
\* would take an old value for the current one.
IndexCurrent ==
    \A x \in Num : LET j == FindFrom(sections, x, 1) IN j # 0 => index[x] <= j

\* The document's tables and its journal are sound between calls.
JournalSound == TypeOK /\ ObjectsOnce /\ IndexCurrent

\* What a signature covers is never changed again, by no later operation, undo
\* or redo: the section it was made in is followed by a new one.
FromBottom(s, d) == s[Len(s) + 1 - d]
SignedFrozen ==
    [][\A d \in 1 .. Len(sections) :
          FromBottom(signed, d) /\ ~Reopen
          => /\ Len(sections') >= d
             /\ FromBottom(sections', d) = FromBottom(sections, d)]_vars
=============================================================================

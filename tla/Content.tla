------------------------------ MODULE Content ------------------------------
(***************************************************************************)
(* The PDF interpreter's run processor and the device it draws on          *)
(* (source/pdf/pdf-op-run.c, pdf-interpret.c, pdf-run.c, fitz/device.c).   *)
(*                                                                         *)
(* Three stacks move independently while a content stream is run: graphics *)
(* states (q, Q), marked content (BDC, EMC) and the clips and layers the   *)
(* device has been told of; nest_mark is the order of the last two.  A     *)
(* file may interleave the operators as it likes, and layers are begun     *)
(* late (pending until something is drawn).  Form XObjects and soft masks  *)
(* run content of their own in the middle.  The device, for its part, must *)
(* see properly nested calls, and everything begun must be ended.          *)
(***************************************************************************)
EXTENDS Integers, Sequences, SequencesExt

CONSTANTS
    Tags,       \* the marked content a stream may begin, among TagKinds
    Forms,      \* the XObjects it may run: records [oc, group]
    MaxFailed,  \* XObjects of one page that are not there yet, while the file
                \* is still being downloaded (TRYLATER)
    MaxOpen,    \* how many q and sections of marked content are open at once
    MaxMarks,   \* the limit on clips and layers (1024 in the code)
    MaxForms    \* XObjects running inside each other: one more would be a
                \* cycle, which the code skips

VARIABLES
    pr,         \* the run processor and, in open, what the device was told
    calls,      \* the streams being run: the page, then XObjects
    status      \* running, closing, closed or aborted

vars == <<pr, calls, status>>

TagKinds == {"plain", "oc", "ocmd", "layer"}

ASSUME ContentAssumption ==
    /\ Tags \subseteq TagKinds
    /\ \A f \in Forms : f.oc \in TagKinds \ {"layer"} /\ f.group \in BOOLEAN
    /\ {MaxOpen, MaxMarks, MaxForms, MaxFailed} \subseteq Nat

Containers == {"clip", "group", "mask"}
Clip == -1                              \* CLIP_MARK

\* The layers a section opens: an optional content group, a membership
\* dictionary of two groups, or the title of a /Layer section.
LayersOf(tag) == CASE tag = "plain" -> <<>>
                   [] tag = "oc"    -> <<"a">>
                   [] tag = "ocmd"  -> <<"a", "b">>
                   [] tag = "layer" -> <<"t">>

\* Op done n times.
Repeat(Op(_), n, s) == LET f[k \in 0..n] == IF k = 0 THEN s ELSE Op(f[k - 1])
                       IN  f[n]

Top(s) == s.gs[Len(s.gs)]
gtop(s) == Len(s.gs) - 1
Layers(open) == SelectSeq(open, LAMBDA e : e \notin Containers)

(***************************************************************************)
(* The device.  Clips, groups and masks are checked against a stack;       *)
(* layers are not on it, an end_layer ends the innermost one.  wrong       *)
(* collects what a device may not be told: at a container that is not the  *)
(* innermost one it throws (err), and is disabled from then on; its stack  *)
(* goes on.                                                                *)
(***************************************************************************)
Tell(s, what) == [s EXCEPT !.open = Append(@, what)]

fz_end_layer(s) ==
    LET k == SelectLastInSeq(s.open, LAMBDA e : e \notin Containers)
    IN  IF k = 0 THEN [s EXCEPT !.wrong = @ \cup {"stray"}]
                 ELSE [s EXCEPT !.open = RemoveAt(@, k)]

\* The end of the innermost container, with only layers of over inside it;
\* becomes is <<>>, or the container that takes its place.
EndContainer(s, what, over, becomes) ==
    LET k == SelectLastInSeq(s.open, LAMBDA e : e \in Containers)
        inside == SubSeq(s.open, k + 1, Len(s.open))
    IN  IF k = 0 \/ s.open[k] # what
        THEN [s EXCEPT !.wrong = @ \cup {"unbalanced"}, !.err = TRUE]
        ELSE [s EXCEPT !.open = SubSeq(@, 1, k - 1) \o becomes \o inside,
                       !.wrong = IF inside \in over THEN @ ELSE @ \cup {"crossed"}]

fz_pop_clip(s) == EndContainer(s, "clip", {<<>>}, <<>>)

(***************************************************************************)
(* Layers and marked content.                                              *)
(***************************************************************************)
flush_begin_layer(s) ==
    [s EXCEPT !.marks = @ \o [i \in 1..Len(s.pend) |-> s.depth + i],
              !.depth = @ + Len(s.pend),
              !.open = @ \o s.pend,
              !.pend = <<>>]

EndMark(s) == [fz_end_layer(s) EXCEPT !.marks = Front(@)]

do_end_layer(s) ==
    LET ended == s.marks # <<>> /\ Last(s.marks) = s.depth
        e == IF ended THEN EndMark(s) ELSE s
    IN  [e EXCEPT !.depth = IF @ > 0 THEN @ - 1 ELSE 0]

\* The mutant flushes nothing before the end of an empty section.
end_oc_unflushed(s, tag) == Repeat(do_end_layer, Len(LayersOf(tag)), s)
end_oc(s, tag) == Repeat(LAMBDA r : do_end_layer(flush_begin_layer(r)),
                         Len(LayersOf(tag)), s)

push_marked_content(s, tag) ==
    [s EXCEPT !.mc = Append(@, [tag |-> tag, top |-> gtop(s), clip |-> Top(s).clip]),
              !.pend = @ \o LayersOf(tag)]

\* neat: so far this stream ended every section where it began, with regard
\* to q, Q and clips.  lost: a /Layer section was ended before its layer had
\* begun, and will begin it all the same (end_layer does not flush).
pop_marked_content(s) ==
    IF s.mc = <<>> THEN s
    ELSE LET m == Last(s.mc)
             r == [s EXCEPT !.mc = Front(@),
                            !.neat = @ /\ m.top = gtop(s) /\ m.clip = Top(s).clip,
                            !.lost = @ \/ (m.tag = "layer" /\ s.pend # <<>>)]
         IN  IF m.tag = "layer" THEN do_end_layer(r) ELSE end_oc(r, m.tag)

\* The mutant drops the sections and ends nothing (neat = 0).
drop_marked_content(s) == [s EXCEPT !.mc = <<>>]
clear_marked_content(s) == Repeat(pop_marked_content, Len(s.mc), s)

(***************************************************************************)
(* Graphics states and clips.                                              *)
(***************************************************************************)
pdf_gsave(s) == [s EXCEPT !.gs = Append(@, Top(s))]

nest_layer_clip(s) == [s EXCEPT !.marks = Append(@, Clip)]

\* W n: the clip is noted in nest_mark and in the graphics state.
ClipPath(s) == LET f == nest_layer_clip(flush_begin_layer(s))
               IN  Tell([f EXCEPT !.gs[Len(f.gs)].clip = @ + 1], "clip")

\* One clip goes: first the layers begun inside it, then, after it, those
\* whose section has ended already.  When the device throws, the mark stays,
\* and what comes after it is not done; no error leaves pdf_grestore.
\* (a mutant leaves the layers where they are)
LeaveLayers(s) == s
EndEarly(s) ==
    Repeat(EndMark, Len(s.marks) - SelectLastInSeq(s.marks, LAMBDA x : x = Clip), s)
PopMark(s) == IF Last(s.marks) = Clip
              THEN LET p == fz_pop_clip(s)
                   IN  IF p.err THEN p ELSE [p EXCEPT !.marks = Front(@)]
              ELSE EndMark(s)
EndLate(s) ==
    Repeat(EndMark,
           Len(s.marks) - SelectLastInSeq(s.marks, LAMBDA x : x <= s.depth), s)

\* The mutant forgets the layers whose section ended inside the clip.
PopClipOnly(s) == PopMark(EndEarly(s))
AfterClip(s) == IF s.err THEN [s EXCEPT !.err = FALSE] ELSE EndLate(s)
PopClip(s) == AfterClip(PopMark(EndEarly(s)))

\* pdf_grestore until gtop is t.
RestoreTo(s, t) ==
    IF gtop(s) <= t THEN s
    ELSE [Repeat(PopClip, Top(s).clip - s.gs[t + 1].clip, s)
             EXCEPT !.gs = SubSeq(@, 1, t + 1)]

\* A Q too many is ignored: the stream that called this one is not touched.
\* The mutant only keeps the first graphics state.
pdf_grestore_unguarded(s) == IF gtop(s) = 0 THEN s ELSE RestoreTo(s, gtop(s) - 1)
pdf_grestore(s) == IF gtop(s) <= s.gbot THEN s ELSE RestoreTo(s, gtop(s) - 1)

(***************************************************************************)
(* XObjects and soft masks.  A matrix is known by the stream it belongs to *)
(* (the page's is 1); SoftMask is the one a soft mask was set with.  While *)
(* an XObject runs, the state gparent below it lends it its ctm, for       *)
(* patterns.                                                               *)
(***************************************************************************)
SoftMask == 0

BeginMask(s) == Tell([s EXCEPT !.gs[Len(s.gs)].mask = FALSE,
                               !.gs[Len(s.gs)].ctm = SoftMask], "mask")

\* The mask becomes a clip, and the state has the matrix it had before;
\* the clip is popped when what it masks is drawn.
fz_end_mask(s, over) == EndContainer(s, "mask", {<<>>, over}, <<"clip">>)
EndMask(s, over, before) ==
    [fz_end_mask(s, over) EXCEPT !.gs[Len(s.gs)].ctm = Top(before).ctm]
end_softmask(s, over) ==
    EndContainer([s EXCEPT !.gs[Len(s.gs)].mask = TRUE], "clip", {<<>>, over}, <<>>)

\* pdf_run_xobject up to its soft mask ...
Enter(s, oc) ==
    LET own == Len(calls) + 1
        g == pdf_gsave([s EXCEPT !.gs[Len(s.gs)].ctm = own])
    IN  [g EXCEPT !.gparent = gtop(s), !.mc = <<>>, !.pend = LayersOf(oc)]

\* ... and from there to its contents.
Contents(s, group) ==
    LET g == IF group THEN Tell(s, "group") ELSE s
        c == ClipPath(pdf_gsave(g))
    IN  [c EXCEPT !.gbot = gtop(c)]

\* The graphics states the contents left, in pdf_process_end and after it.
\* The mutant leaves gbot where the XObject put it.
UnwindOnly(s, f) == RestoreTo(s, s.gbot)
Unwind(s, f) == [RestoreTo(s, s.gbot) EXCEPT !.gbot = f.saved.gbot]

\* The matrix goes back to the state gparent says, and gparent to the stream
\* that called.  After an XObject that was given up gparent is still its own.
\* The mutant puts gparent back first.
LentCtm(f) == IF f.use = "Do" THEN Top(f.saved).ctm ELSE SoftMask
GiveBack(s, lender, f) ==
    [s EXCEPT !.gs = [i \in DOMAIN @ |-> IF i = lender + 1
                                         THEN [@[i] EXCEPT !.ctm = LentCtm(f)] ELSE @[i]],
              !.gparent = f.saved.gparent]
ReturnCtmLate(s, f) == GiveBack(s, f.saved.gparent, f)
ReturnCtm(s, f) == GiveBack(s, s.gparent, f)

\* pdf_run_xobject after its contents have been run: the clip to its bounds,
\* its group and mask, and the state it was called with.
EndGroup(s, f) ==
    LET own == {<<>>, LayersOf(f.oc)}
        g == IF f.group THEN EndContainer(s, "group", own, <<>>) ELSE s
    IN  IF f.stage = "masked" THEN end_softmask(g, LayersOf(f.oc)) ELSE g

Regain(s, f) ==
    IF s.err THEN s
    ELSE [clear_marked_content(end_oc(RestoreTo(ReturnCtm(s, f), gtop(f.saved)), f.oc))
             EXCEPT !.mc = f.saved.mc, !.neat = f.saved.neat /\ s.failed = 0]

Leave(s, f) == Regain(EndGroup(pdf_grestore(Unwind(s, f)), f), f)

\* saved: the processor before the XObject, and before it became a mask.
Frame(f, use, stage, saved) ==
    [oc |-> f.oc, group |-> f.group, use |-> use, stage |-> stage,
     eof |-> FALSE, saved |-> saved]

\* pdf-run.c has begun the page's group and clip; the first graphics state is
\* saved once.
NewProcessor == LET g == [clip |-> 0, mask |-> FALSE, ctm |-> 1]
                IN  [gs |-> <<g, g>>, gbot |-> 0, gparent |-> 0,
                     pend |-> <<>>, marks |-> <<>>, depth |-> 0, mc |-> <<>>,
                     open |-> <<"group", "clip">>, wrong |-> {}, err |-> FALSE,
                     neat |-> TRUE, lost |-> FALSE, closer |-> TRUE, failed |-> 0]
Page == Frame([oc |-> "plain", group |-> FALSE], "page", "bare", <<>>)

\* The processor is dropped; what the device was told wrong is remembered.
Dropped(s) == [NewProcessor EXCEPT !.wrong = s.wrong, !.failed = s.failed, !.neat = FALSE]

\* Clips and layers are limited; an XObject that was given up counts as one.
RoomFor(s, n) == Len(s.marks) + Len(s.pend) + s.failed + n <= MaxMarks

\* An XObject whose mask is to be run, or whose group is to begin.
Waiting(f) == f.stage \in {"mask", "group"}

\* The marked content of each stream being run.
MarkedIn(i) == IF i = Len(calls) THEN pr.mc ELSE calls[i + 1].saved.mc

\* What is open in all streams: graphics states that q has saved (the page
\* begins with two, an XObject saves one and, for its contents, another) and
\* sections of marked content.  An XObject that was given up counts as one.
Opened == Len(pr.gs) - 2 * Len(calls) + Len(SelectSeq(calls, Waiting)) + pr.failed
          + Len(FlattenSeq([i \in DOMAIN calls |-> MarkedIn(i)]))

\* An XObject is given up, and with it those that waited for it as their mask;
\* the stream that ran them ends.  Only marked_content is put back.
TryLater(s) ==
    LET k == SelectLastInSeq(calls, LAMBDA f : ~Waiting(f))
    IN  /\ pr.failed < MaxFailed /\ Opened < MaxOpen
        /\ pr' = [s EXCEPT !.mc = MarkedIn(k), !.failed = @ + 1, !.neat = FALSE]
        /\ calls' = [SubSeq(calls, 1, k) EXCEPT ![k].eof = TRUE]

\* A group's colour space may not be there yet; or its contents, and then
\* pdf_process_raw_contents takes away the processor's close_processor.
RunContents(s, f, up) ==
    \/ pr' = Contents(s, f.group) /\ calls' = Append(up, f)
    \/ f.group /\ TryLater(s)
    \/ TryLater([Contents(s, f.group) EXCEPT !.closer = FALSE])

\* A cycle (an XObject that was given up counts as one level too, as a bound).
TooDeep == Len(calls) + pr.failed > MaxForms

\* An XObject is run, for Do, for the mask of something painted ("paint") or
\* for the mask of an XObject that has begun ("group").
pdf_run_xobject(s, f, use, before) ==
    LET p == Enter(flush_begin_layer(s), f.oc)
        saved == IF use = "Do" THEN flush_begin_layer(s) ELSE before
    IN  /\ ~TooDeep
        /\ RoomFor(p, 1)
        /\ IF f.group /\ Top(p).mask
           THEN pr' = p /\ calls' = Append(calls, Frame(f, use, "mask", saved))
           ELSE RunContents(p, Frame(f, use, "bare", saved), calls)
        /\ UNCHANGED status

(***************************************************************************)
(* The operators of a content stream.                                      *)
(***************************************************************************)
Running == status = "running"

\* A page that has lost a section is read no further: what is open is closed.
Reading == /\ Running /\ ~Waiting(Last(calls))
           /\ ~Last(calls).eof /\ ~pr.lost

Step(s) == pr' = s /\ UNCHANGED <<calls, status>>

op_q == /\ Reading
        /\ Opened < MaxOpen
        /\ Step(pdf_gsave(flush_begin_layer(pr)))

op_Q == /\ Reading
        /\ LET crosses == gtop(pr) > pr.gbot /\ pr.mc # <<>> /\ Last(pr.mc).top = gtop(pr)
           IN  Step([pdf_grestore(pr) EXCEPT !.neat = @ /\ ~crosses])

op_W == Reading /\ RoomFor(pr, 1) /\ Step(ClipPath(pr))

op_BDC == /\ Reading
          /\ Opened < MaxOpen
          /\ \E tag \in Tags : /\ RoomFor(pr, Len(LayersOf(tag)))
                               /\ Step(push_marked_content(pr, tag))

op_EMC == Reading /\ Step(pop_marked_content(pr))

op_gs_SMask == /\ Reading
               /\ \E mask \in BOOLEAN : Step([pr EXCEPT !.gs[Len(pr.gs)].mask = mask])

\* Painting something.  With a soft mask, the mask's XObject is run first; it
\* is skipped when it is being run already.
op_f == /\ Reading /\ ~Top(pr).mask
        /\ Step(flush_begin_layer(pr))

op_f_masked ==
    /\ Reading /\ Top(pr).mask
    /\ LET s == flush_begin_layer(pr)
           m == BeginMask(s)
       IN  IF TooDeep
           THEN Step(end_softmask(EndMask(m, <<>>, s), <<>>))
           ELSE \E f \in Forms : pdf_run_xobject(m, f, "paint", s)

op_Do_form == Reading /\ \E f \in Forms : pdf_run_xobject(pr, f, "Do", pr)

\* A transparency group that is to be drawn through a mask draws the mask ...
RunMask ==
    /\ Running /\ Last(calls).stage = "mask"
    /\ LET m == BeginMask(pr)
       IN  IF TooDeep
           THEN /\ pr' = EndMask(m, <<>>, pr)
                /\ calls' = [calls EXCEPT ![Len(calls)].stage = "group"]
                /\ UNCHANGED status
           ELSE \E f \in Forms : pdf_run_xobject(m, f, "group", pr)

\* ... and then begins.
BeginGroup ==
    /\ Running /\ Last(calls).stage = "group"
    /\ RoomFor(pr, 1)
    /\ RunContents(pr, [Last(calls) EXCEPT !.stage = "masked"], Front(calls))
    /\ UNCHANGED status

\* The end of the mask an XObject was, and of what was painted through it.
EndUse(s, f, up) ==
    CASE f.use = "Do" -> s
      [] f.use = "paint" -> end_softmask(EndMask(s, <<>>, f.saved), <<>>)
      [] f.use = "group" -> EndMask(s, LayersOf(Last(up).oc), f.saved)

\* What the device throws here no stream catches: the page is given up.
Resume(s, f, up) ==
    IF s.err
    THEN pr' = Dropped(s) /\ calls' = <<Page>> /\ status' = "aborted"
    ELSE /\ pr' = s
         /\ calls' = IF f.use = "group" THEN [up EXCEPT ![Len(up)].stage = "group"] ELSE up
         /\ UNCHANGED status

\* The end of an XObject's contents, wherever the file puts it.
Finish ==
    /\ Running /\ Len(calls) > 1 /\ ~Waiting(Last(calls))
    /\ LET f == Last(calls)
           up == Front(calls)
       IN  Resume(EndUse(Leave(pr, f), f, up), f, up)

\* The end of the page's contents.  pdf_close_run_processor, unless it is gone,
\* ends graphics states, whatever is left in nest_mark and marked content; then
\* pdf-run.c ends the page's own clip and group.
EndPage == /\ Running /\ Len(calls) = 1 /\ pr.closer
           /\ status' = "closing"
           /\ UNCHANGED <<pr, calls>>

CloseState == /\ status = "closing" /\ gtop(pr) > 0
              /\ Step(pdf_grestore(pr))

PageClosed(s) ==
    LET r == EndContainer(fz_pop_clip(s), "group", {<<>>}, <<>>)
    IN  /\ pr' = IF r.err THEN Dropped(r) ELSE r
        /\ status' = IF r.err THEN "aborted" ELSE "closed"
        /\ UNCHANGED calls

CloseRest ==
    /\ status = "closing" /\ gtop(pr) = 0
    /\ PageClosed(clear_marked_content(Repeat(PopMark, Len(pr.marks), pr)))

EndUnclosed == /\ Running /\ Len(calls) = 1 /\ ~pr.closer
               /\ PageClosed(pr)

\* An error nothing catches: the processor is dropped without being closed.
Abort == /\ status = "running"
         /\ status' = "aborted"
         /\ pr' = NewProcessor /\ calls' = <<Page>>

Ended == status \in {"closed", "aborted"} /\ UNCHANGED vars

Init == pr = NewProcessor /\ calls = <<Page>> /\ status = "running"

Next == \/ op_q \/ op_Q \/ op_W \/ op_BDC \/ op_EMC \/ op_gs_SMask
        \/ op_f \/ op_f_masked \/ op_Do_form \/ RunMask \/ BeginGroup \/ Finish
        \/ EndPage \/ EndUnclosed \/ CloseState \/ CloseRest \/ Abort \/ Ended

\* pdf_close_run_processor goes on as long as the program does: weak fairness
\* of CloseState and CloseRest, with what makes them change anything spelled
\* out (a pdf_grestore does nothing when gtop is not above gbot).
CanClose == status = "closing" /\ (gtop(pr) = 0 \/ gtop(pr) > pr.gbot)
Spec == /\ Init /\ [][Next]_vars
        /\ []<>~CanClose \/ []<><<status = "closing">>_vars

(***************************************************************************)
(* Properties.                                                             *)
(***************************************************************************)
\* The processor's stacks hold what their types allow, within their limits.
TypeOK ==
    /\ pr.gs \in Seq([clip : Nat, mask : BOOLEAN, ctm : 0 .. MaxForms + 1])
    /\ pr.gs # <<>>
    /\ pr.gbot \in 0..gtop(pr)
    /\ pr.marks \in Seq({Clip} \cup (Nat \ {0}))
    /\ pr.depth \in Nat /\ pr.gparent \in Nat /\ pr.failed \in 0..MaxFailed
    /\ \A i \in DOMAIN pr.mc : pr.mc[i].tag \in Tags
    /\ Len(calls) \in 1..(MaxForms + 1)
    /\ status \in {"running", "closing", "closed", "aborted"}

\* However the file orders its operators, the containers the device is told
\* to end are the innermost ones (the check of pop_clip_stack).  Unless a
\* /Layer section was lost, no clip goes with a layer begun inside it still
\* open, no group or mask with more than the XObject's own layers, no layer
\* ends that was not begun; and once the processor is closed everything begun
\* has been ended.  None of this holds any more once an XObject was given up.
DeviceBalanced ==
    pr.failed = 0 =>
        /\ "unbalanced" \notin pr.wrong
        /\ ~pr.lost => /\ pr.wrong = {}
                       /\ status = "closed" => pr.open = <<>>

\* nest_mark tells the truth about the device: as many layers are open as it
\* has layer marks, and the clips it holds are those the graphics state counts.
\* A layer outlives its section only as long as a clip inside it does.
\* Both hold after XObjects that were given up too, until the device throws at
\* the end of a clip: then marks stay behind, and from there on nest_mark has
\* at least the clips that graphics states count, so that no pdf_grestore takes
\* one that is not there.
\* (And the state is typed.)
MarksMatch ==
    /\ TypeOK
    /\ status \in {"running", "closing"} =>
        LET clips == Len(SelectSeq(pr.marks, LAMBDA x : x = Clip))
        IN  /\ clips >= Top(pr).clip
            /\ "unbalanced" \notin pr.wrong =>
                /\ clips = Top(pr).clip
                /\ Len(Layers(pr.open)) = Len(pr.marks) - clips
            /\ pr.marks # <<>> => Last(pr.marks) <= pr.depth

\* The layers that everything being run asks for: outer streams first, each
\* with the layers of its XObject and then those of its marked content.
Due == LET Sections(mc) == FlattenSeq([k \in DOMAIN mc |-> LayersOf(mc[k].tag)])
       IN  FlattenSeq([i \in DOMAIN calls |->
                          LayersOf(calls[i].oc) \o Sections(MarkedIn(i))])

\* In a stream whose sections nest with its q, Q and clips, what is painted is
\* in the layers of its marked content, and in no other: pending layers are
\* begun before anything is painted, and no layer outlives its section.
PaintedInLayers ==
    status = "running" /\ pr.neat /\ pr.failed = 0 /\ ~pr.lost
        => Layers(pr.open) \o pr.pend = Due

\* Whatever the contents of an XObject or a mask did, the stream that ran it
\* goes on with the graphics states, the bottom of the stack, the parent state
\* and the marked content it had, and with the same things open on the device
\* (a mask has become a clip).  When an XObject inside it was given up, with
\* the first four, but a graphics state may have kept the matrix it lent.
Resumed(f) ==
    IF f.use = "group"
    THEN flush_begin_layer(Tell([f.saved EXCEPT !.gs[Len(f.saved.gs)].mask = FALSE], "clip"))
    ELSE f.saved
Kept(s, was) ==
    /\ Len(s.gs) = Len(was.gs)
    /\ \A i \in DOMAIN s.gs : s.gs[i].clip = was.gs[i].clip /\ s.gs[i].mask = was.gs[i].mask
    /\ s.gbot = was.gbot /\ s.gparent = was.gparent /\ s.mc = was.mc
    /\ s.failed = was.failed => s.gs = was.gs
    /\ s.failed = 0 /\ ~s.lost =>
        /\ s.open = was.open /\ s.marks = was.marks
        /\ s.depth = was.depth /\ s.pend = <<>>
FormKeepsState ==
    [][(Len(calls') < Len(calls) /\ pr'.failed = pr.failed /\ status' = "running")
           => Kept(pr', Resumed(Last(calls)))]_vars

\* A processor that is being closed becomes closed, or the device throws: the
\* loop that restores graphics states down to the first one ends.
Closes == status = "closing" ~> status \in {"closed", "aborted"}
=============================================================================

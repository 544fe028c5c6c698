---------------------------- MODULE CanvasTools ----------------------------
(***************************************************************************)
(* Notes, drawings and screenshots (features/workspace).  Notes are made   *)
(* in the open network; a drawing is written into the saved network, which *)
(* is then opened.  Packet Tracer also lists its own port labels as notes. *)
(* Both have ids that say which they are, and one call removes either.     *)
(***************************************************************************)
EXTENDS FileEdits

CONSTANTS
  COLOURS,       \* colours that can be read, the first words of colour() and #rrggbb
  PortLabels     \* what Packet Tracer writes at the ends of the cables

ASSUME LabelsAssumption == IsFiniteSet(PortLabels)

DEFAULT_RADIUS == 60

----------------------------------------------------------------------------
\* Notes.

\* Text and position of a note are one look.
read_note(id) == Tell("read_note", "", id)

add_note(r, seen) ==
  Then(Check(r.text # "") \o <<Ask("getIncNoteZOrder", ""), Tell("addNote", "", r)>>, seen,
       LAMBDA got, more : <<read_note(got[2].data)>>)

\* The labels are found by list_links, one look here; a note is read by its id, which may
\* be gone by then.
list_notes(r, seen) ==
  Then(When(~r.include_port_labels, <<Ask("list_links", "")>>) \o <<Ask("getCanvasNoteIds", "")>>, seen,
       LAMBDA got, more :
         LET ids == got[Len(got)].data IN [k \in DOMAIN ids |-> read_note(ids[k])])

remove_note(r) == <<Must("removeCanvasItem", "", r.id)>>

----------------------------------------------------------------------------
\* Drawings: a shape is [kind, start, end, outline, fill].

\* No colour is blue, no fill is none.
colour(name) == IF name = "" THEN "blue" ELSE name

Lower(a, b) == IF a < b THEN a ELSE b

Upper(a, b) == IF a < b THEN b ELSE a

\* A radius and a corner are given as a sequence of one or none.
geometry(r) ==
  CASE r.shape = "circle" ->
         LET radius == IF r.radius = <<>> THEN DEFAULT_RADIUS ELSE r.radius[1] IN
         {<<<<r.x - radius, r.y - radius>>, <<r.x + radius, r.y + radius>>>> : n \in {radius} \cap (1..radius)}
    [] r.shape = "rectangle" ->
         {<<<<Lower(r.x, to[1]), Lower(r.y, to[2])>>, <<Upper(r.x, to[1]), Upper(r.y, to[2])>>>> : to \in ToSet(r.to)}
    [] r.shape = "line" -> {<<<<r.x, r.y>>, to>> : to \in ToSet(r.to)}

Drawable(r) ==
  /\ colour(r.color) \in COLOURS
  /\ r.fill # "" => r.shape # "line" /\ r.fill \in COLOURS
  /\ geometry(r) # {}

Shape(r) ==
  LET corners == CHOOSE corners \in geometry(r) : TRUE IN
  [kind |-> r.shape, start |-> corners[1], end |-> corners[2], outline |-> colour(r.color), fill |-> r.fill]

\* pktfile/src/canvas.rs: the shape goes to the end of the section of its kind.
add_shape(doc, shape) ==
  IF ~doc.open THEN Impossible
  ELSE Edited([doc EXCEPT !.drawings = Append(@, [id |-> <<"drawing", doc.drawn + 1>>, shape |-> shape]),
                          !.drawn = @ + 1])

draw(r, seen) ==
  IF ~Drawable(r) THEN <<Refuse>>
  ELSE edit_saved_network(LAMBDA doc : add_shape(doc, Shape(r)), seen, LAMBDA opened : <<>>)

ids_of(kind) == Tell("getCanvasIds", "", kind)

positions(ids) == [k \in DOMAIN ids |-> Tell("position", "", ids[k])]

\* Kind by kind, the ids and then where each is.
list_drawings(seen) ==
  InTurn(<<"circle", "rectangle", "line">>, seen,
         LAMBDA kind, got : Then(<<ids_of(kind)>>, got, LAMBDA ids, more : positions(ids[1].data)))

remove_drawing(r) == <<Must("removeCanvasItem", "", r.id)>>

----------------------------------------------------------------------------
\* Screenshots.

capture_window == Try("capture_window", "", <<>>)

\* What was shown before is forgotten.
go_back_forgotten(was) == <<>>

go_back(was) == When(was = "no", <<Ask("showLogicalMode", "")>>)

\* The logical workspace is left for the physical one and shown again whatever came of the
\* capture, unless an earlier call failed.
physical(place, was) ==
  When(was = "no", <<Ask("showPhysicalMode", "")>>) \o <<Ask(place, ""), capture_window>>

InPhysical(place, seen, After(_)) ==
  Then(<<Ask("isPhysicalMode", "")>>, seen,
       LAMBDA was, more :
         Then(physical(place, was[1].is), more,
              LAMBDA got, rest :
                Then(go_back(was[1].is), rest,
                     LAMBDA back, then :
                       IF got[Len(got)].is # "ok" THEN <<Refuse>> ELSE After(then))))

\* The path is checked first and written last.
write(r) == When(r.save_to # "", <<Must("write_png", "", r.save_to)>>)

screenshot(r, seen) ==
  IF r.save_to = "relative" THEN <<Refuse>>
  ELSE CASE r.view = "logical" -> <<Ask("getWorkspaceImage", "")>> \o write(r)
         [] r.view = "window"  -> <<Must("capture_window", "", <<>>)>> \o write(r)
         [] r.view = "physical" -> InPhysical("switchToTopView", seen, LAMBDA rest : write(r))
         [] r.view = "physical_rack" -> InPhysical("switchToHomeRack", seen, LAMBDA rest : write(r))

CanvasPlan(r, seen) ==
  CASE r.tool = "add_note"       -> add_note(r, seen)
    [] r.tool = "list_notes"     -> list_notes(r, seen)
    [] r.tool = "remove_note"    -> remove_note(r)
    [] r.tool = "draw"           -> draw(r, seen)
    [] r.tool = "list_drawings"  -> list_drawings(seen)
    [] r.tool = "remove_drawing" -> remove_drawing(r)
    [] r.tool = "screenshot"     -> screenshot(r, seen)

----------------------------------------------------------------------------
\* Packet Tracer's side, and the desktop that captures its window.

NoteIds(p) == {p.notes[k].id : k \in DOMAIN p.notes}

DrawingIds(p) == {p.drawings[k].id : k \in DOMAIN p.drawings}

LabelIds == {<<"label", text>> : text \in PortLabels}

IdsOf(items) == [k \in DOMAIN items |-> items[k].id]

\* In no order that matters.
IdsOfKind(p, kind) ==
  SetToSeq({p.drawings[k].id : k \in {k \in DOMAIN p.drawings : p.drawings[k].shape.kind = kind}})

\* There is something to read; nothing depends on what.
Shows(p) == Gives(p, <<>>)

add_canvas_note(p, r) ==
  LET id == <<"note", p.noted + 1>> IN
  Gives([p EXCEPT !.notes = Append(@, [id |-> id, text |-> r.text]), !.noted = @ + 1], id)

\* `retain`: of a list in which ids are their own, as they are here (CanvasSound).
WithoutId(items, id) ==
  LET at == {k \in DOMAIN items : items[k].id = id} IN
  IF at = {} THEN items ELSE RemoveAt(items, CHOOSE k \in at : TRUE)

\* Port labels cannot be removed.
remove_canvas_item(p, id) ==
  Did(p, id \in NoteIds(p) \cup DrawingIds(p),
      [p EXCEPT !.notes = WithoutId(@, id), !.drawings = WithoutId(@, id)])

CanvasAnswer(p, c) ==
  CASE c.op = "list_devices"     -> Gives(p, {})
    [] c.op = "fast_forward"     -> Obeys(p)
    [] c.op = "fileSaveToBytes"  -> Gives(p, p)
    [] c.op = "fileNew"          -> Obeys([p EXCEPT !.open = FALSE])
    [] c.op = "fileOpen"         -> Obeys([c.val EXCEPT !.noted = p.noted, !.physical = p.physical, !.place = p.place])
    [] c.op = "capture_window"   -> IF p.visible THEN Obeys(p) ELSE Missing(p)
    [] c.op = "write_png"        -> Says(p, c.val # "unwritable")
    [] c.op = "isPhysicalMode"   -> Says(p, p.physical)
    [] c.op = "showPhysicalMode" -> Obeys([p EXCEPT !.physical = TRUE])
    [] c.op = "showLogicalMode"  -> Obeys([p EXCEPT !.physical = FALSE])
    [] c.op = "switchToTopView"  -> Obeys([p EXCEPT !.place = "Intercity"])
    [] c.op = "switchToHomeRack" -> Obeys([p EXCEPT !.place = "Main Wiring Closet"])
    [] OTHER ->
       IF ~p.open THEN Missing(p)
       ELSE CASE c.op \in {"getIncNoteZOrder", "getWorkspaceImage"} -> Obeys(p)
              [] c.op = "list_links" -> Shows(p)
              [] c.op = "addNote" -> add_canvas_note(p, c.val)
              [] c.op = "getCanvasNoteIds" -> Gives(p, IdsOf(p.notes) \o SetToSeq(LabelIds))
              [] c.op = "read_note" -> IF c.val \in NoteIds(p) \cup LabelIds THEN Shows(p) ELSE Missing(p)
              [] c.op = "getCanvasIds" -> Gives(p, IdsOfKind(p, c.val))
              [] c.op = "position" -> IF c.val \in DrawingIds(p) THEN Shows(p) ELSE Missing(p)
              [] c.op = "removeCanvasItem" -> remove_canvas_item(p, c.val)
              [] OTHER -> Unknown(p)

----------------------------------------------------------------------------
\* What the properties ask about.

CanvasInit ==
  {[part |-> "canvas", open |-> TRUE, notes |-> <<>>, drawings |-> <<>>, noted |-> 0, drawn |-> 0,
    physical |-> FALSE, place |-> "Home", visible |-> visible] : visible \in BOOLEAN}

\* Drawing opens the network anew, with what was in it when it was saved.
CanvasTopics(r) ==
  CASE r.tool \in {"list_notes", "list_drawings"} -> {}
    [] r.tool = "screenshot" -> {"view"}
    [] OTHER                 -> {"canvas"}

\* A shape's corners are in order (a line's need not be).
InOrder(shape) ==
  shape.kind # "line" => shape.start[1] <= shape.end[1] /\ shape.start[2] <= shape.end[2]

CanvasWanted(r, was, now) ==
  CASE r.tool = "add_note" -> [id |-> <<"note", was.noted + 1>>, text |-> r.text] = Last(now.notes)
                              /\ Front(now.notes) = was.notes /\ now.drawings = was.drawings
    [] r.tool \in {"remove_note", "remove_drawing"} ->
         /\ r.id \notin NoteIds(now) \cup DrawingIds(now)
         /\ NoteIds(was) \cup DrawingIds(was) = NoteIds(now) \cup DrawingIds(now) \cup {r.id}
    [] r.tool = "draw" ->
         /\ now.notes = was.notes /\ Front(now.drawings) = was.drawings
         /\ Last(now.drawings).shape = Shape(r)
    [] r.tool = "screenshot" -> now.physical = was.physical
    [] OTHER -> TRUE

\* Every note and drawing has an id of its own, and no drawing is inside out.
CanvasSound(p) ==
  /\ Cardinality(NoteIds(p)) = Len(p.notes) /\ Cardinality(DrawingIds(p)) = Len(p.drawings)
  /\ \A k \in DOMAIN p.drawings : InOrder(p.drawings[k].shape)
=============================================================================

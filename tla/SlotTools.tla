----------------------------- MODULE SlotTools -----------------------------
(***************************************************************************)
(* list_slots, add_module, remove_module (features/modules) and            *)
(* list_models (features/catalog).  A path is a sequence of slot indices;  *)
(* a slot holds a model or "".  Models are listed in the catalog's order   *)
(* as [model, kind, class], class being "device" or "module"; a request    *)
(* may spell a model in another way.                                       *)
(***************************************************************************)
EXTENDS ToolPlans, SequencesExt

CONSTANTS
  Catalog,       \* sequence of the models there are; some are listed twice
  Supported,     \* device -> the modules it takes
  SlotKinds,     \* device -> path -> the kind of module a slot takes
  SameLetters,   \* pairs of spellings that differ in the case of letters only
  SameLook       \* pairs that differ in case, blanks and punctuation only

FIXED_KINDS == {"non_removable_module", "non_removable_interface_card"}

Parents(path) == {SubSeq(path, 1, n) : n \in 1..(Len(path) - 1)}

\* A slot is on the device or on a module in another of its slots.
ASSUME SlotsAssumption ==
  \A d \in DOMAIN SlotKinds : \A path \in DOMAIN SlotKinds[d] :
    path \in Seq(Nat) /\ Parents(path) \subseteq DOMAIN SlotKinds[d]

\* walk: the slots below an empty one are not there.
Present(d, holds) == {path \in DOMAIN SlotKinds[d] : \A up \in Parents(path) : holds[up] # ""}

\* One walk through the tree of modules, that leaves out what cannot be pulled.
walk(d, holds) ==
  [path \in {q \in Present(d, holds) : SlotKinds[d][q] \notin FIXED_KINDS} |->
     [accepts |-> SlotKinds[d][path], installed |-> holds[path]]]

list_slots(d) == <<Ask("device", d), Ask("slots", d), Ask("getSupportedModule", d)>>

\* `models`: the catalog without what it lists twice.
Models(class, listed) ==
  LET of == SelectSeq(listed, LAMBDA m : m.class = class) IN
  SelectSeq([k \in DOMAIN of |-> [model |-> of[k], first |-> \A o \in 1..(k - 1) : of[o] # of[k]]],
            LAMBDA m : m.first)

eq_ignore_case(a, b) == a = b \/ <<a, b>> \in SameLetters \/ <<b, a>> \in SameLetters

normalize_same(a, b) == eq_ignore_case(a, b) \/ <<a, b>> \in SameLook \/ <<b, a>> \in SameLook

\* `find`: the model of that name, or the only one that looks like it.
Finds(models, wanted) ==
  LET named == {k \in DOMAIN models : models[k].model.model = wanted}
      loose == {k \in DOMAIN models : normalize_same(models[k].model.model, wanted)} IN
  IF named # {} THEN named ELSE IF Cardinality(loose) = 1 THEN loose ELSE {}

Catalogs(class) == Tell("getAvailable", class, <<>>)

\* with_power_off: the power comes back whatever came of the change, and only then the
\* change's own error is looked at.  What skipBoot and ready_console answer is only logged.
with_power_off(d, change, seen) ==
  Then(<<Ask("getPorts", d), Tell("setPower", d, FALSE),
         [change EXCEPT !.need = {"ok", "yes", "no", "missing", "lost"}, !.soft = TRUE],
         Tell("setPower", d, TRUE), Try("skipBoot", d, <<>>)>>, seen,
       LAMBDA got, more : Check(got[3].is \in {"yes", "no"}) \o <<Ask("getPorts", d)>> \o Check(got[3].is = "yes"))

add_module(r, seen) ==
  Then(list_slots(r.dev), seen,
       LAMBDA got, more :
         LET slots == got[2].data
             takes == {m \in got[3].data : eq_ignore_case(m, r.module)} IN
         IF takes = {} THEN <<Refuse>>
         ELSE Then(<<Catalogs("module")>>, more,
                LAMBDA listed, rest :
                  LET models == Models("module", listed[1].data)
                      found == Finds(models, CHOOSE m \in takes : TRUE) IN
                  IF found = {} \/ r.slot \notin DOMAIN slots THEN <<Refuse>>
                  ELSE LET module == models[CHOOSE k \in found : \A o \in found : k <= o].model IN
                       IF slots[r.slot].installed # "" \/ slots[r.slot].accepts # module.kind THEN <<Refuse>>
                       ELSE with_power_off(r.dev, Tell("addModule", r.dev, [slot |-> r.slot, module |-> module]), rest)))

remove_module(r, seen) ==
  Then(list_slots(r.dev), seen,
       LAMBDA got, more :
         IF r.slot \notin DOMAIN got[2].data THEN <<Refuse>>
         ELSE IF got[2].data[r.slot].installed = "" THEN <<Refuse>>
         ELSE with_power_off(r.dev, Tell("removeModule", r.dev, [slot |-> r.slot]), more))

\* What is read depends on the kind: of devices, of modules, or unknown; the one look at
\* the catalog is filtered by the tool.
list_models(r) ==
  LET ofDevices == \E k \in DOMAIN Catalog : Catalog[k].class = "device" /\ Catalog[k].kind = r.kind
      ofModules == \E k \in DOMAIN Catalog : Catalog[k].class = "module" /\ Catalog[k].kind = r.kind IN
  Check(r.kind = "" \/ ofDevices \/ ofModules)
  \o When(~ofModules, <<Catalogs("device")>>)
  \o When(r.include_modules \/ ofModules, <<Catalogs("module")>>)

SlotPlan(r, seen) ==
  CASE r.tool = "list_slots"    -> list_slots(r.dev)
    [] r.tool = "add_module"    -> add_module(r, seen)
    [] r.tool = "remove_module" -> remove_module(r, seen)
    [] r.tool = "list_models"   -> list_models(r)

----------------------------------------------------------------------------
\* Packet Tracer's side.

\* A module is put in a slot that takes it, is empty and has no power.
Insert(p, d, slot, module) ==
  LET known == \E k \in DOMAIN Catalog : Catalog[k].model = module.model /\ Catalog[k].kind = module.kind
      could == /\ ~p.power[d] /\ known /\ module.model \in Supported[d]
               /\ slot \in Present(d, p.holds[d]) /\ p.holds[d][slot] = ""
               /\ SlotKinds[d][slot] = module.kind IN
  Did(p, could, [p EXCEPT !.holds[d][slot] = module.model])

\* What was plugged into a module goes with it.
Pull(p, d, slot) ==
  Did(p, ~p.power[d] /\ slot \in Present(d, p.holds[d]) /\ p.holds[d][slot] # "",
      [p EXCEPT !.holds[d] = [path \in DOMAIN @ |-> IF path = slot \/ slot \in Parents(path) THEN "" ELSE @[path]]])

SlotAnswer(p, c) ==
  IF c.op = "getAvailable" THEN Gives(p, Catalog)
  ELSE IF c.at \notin DOMAIN p.power THEN Missing(p)
  ELSE CASE c.op = "slots" -> Gives(p, walk(c.at, p.holds[c.at]))
         [] c.op = "getSupportedModule" -> Gives(p, Supported[c.at])
         [] c.op = "setPower" -> Obeys([p EXCEPT !.power[c.at] = c.val])
         [] c.op = "addModule" -> Insert(p, c.at, c.val.slot, c.val.module)
         [] c.op = "removeModule" -> Pull(p, c.at, c.val.slot)
         [] OTHER -> Obeys(p)

----------------------------------------------------------------------------
\* What the properties ask about.

\* A device has power and no modules but what it is built with.
SlotInit ==
  {[part |-> "modules", power |-> [d \in DOMAIN SlotKinds |-> TRUE],
    holds |-> [d \in DOMAIN SlotKinds |->
                 [path \in DOMAIN SlotKinds[d] |-> IF SlotKinds[d][path] \in FIXED_KINDS THEN "board" ELSE ""]]]}

SlotTopics(r) == IF r.tool \in {"add_module", "remove_module"} THEN {r.dev} ELSE {}

\* The slot holds what was asked for and the device has its power back; no other device
\* and no other slot changed, but for those on a module that was taken out.
SlotWanted(r, was, now) ==
  r.tool \in {"add_module", "remove_module"} =>
    /\ now.power[r.dev]
    /\ IF r.tool = "add_module" THEN eq_ignore_case(now.holds[r.dev][r.slot], r.module)
       ELSE now.holds[r.dev][r.slot] = ""
    /\ \A path \in DOMAIN SlotKinds[r.dev] \ {r.slot} :
         \/ now.holds[r.dev][path] = was.holds[r.dev][path]
         \/ r.slot \in Parents(path)

\* A module is in a slot that is there and takes its kind.
SlotSound(p) ==
  \A d \in DOMAIN SlotKinds : \A path \in DOMAIN SlotKinds[d] :
    LET held == p.holds[d][path] IN
    held \notin {"", "board"} =>
      /\ path \in Present(d, p.holds[d])
      /\ \E k \in DOMAIN Catalog : Catalog[k].model = held /\ Catalog[k].kind = SlotKinds[d][path]
=============================================================================
